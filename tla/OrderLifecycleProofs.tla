------------------------ MODULE OrderLifecycleProofs ------------------------
(***************************************************************************)
(* The order state machine is never driven off its table, for any number   *)
(* of keys and handlers, any limits and any number of faults: neither by   *)
(* answers of the broker, nor by cancels, nor when a stack is replaced     *)
(* under a handler.  The invariant says what a handler between two awaits  *)
(* may rely on: it alone is at work, and the order in the stack it holds   *)
(* is still in the state in which it left it.                              *)
(***************************************************************************)
EXTENDS OrderLifecycle, SequenceTheorems, FiniteSetTheorems, TLAPS

USE SetsAssumption, LimitsAssumption, BoundAssumption

(* What a handler at work finds when its await returns.                    *)
WorkInv ==
  \A h \in Handlers :
    /\ pc[h] = "idle" => own[h] = Shared
    /\ pc[h] # "idle" => key[h] \in Keys
    /\ pc[h] \in {"placing", "cancelling", "saving"} => OrderOf(h) \in RealOrder
    /\ pc[h] = "placing" => OrderOf(h).status = "SUBMITTED"
    /\ pc[h] = "cancelling" => OrderOf(h).status \in {"SUBMITTED", "ACKNOWLEDGED"}

IInv == TypeOK /\ LockFollowsHandler /\ WorkInv /\ NeverIllegal
-----------------------------------------------------------------------------
(* Orders, stacks and the handler's stack.                                 *)
LEMMA NoOrderIsNone == NoOrder \notin RealOrder
BY DEF NoOrder, RealOrder

LEMMA SharedIsNoStack == Shared \notin StackType
BY DEF Shared, StackType

LEMMA MovedOrder ==
  ASSUME NEW o \in RealOrder, NEW path \in Seq(Statuses), path # <<>>, NEW id \in Nat
  PROVE  Moved(o, path) \in RealOrder /\ [Moved(o, path) EXCEPT !.bid = id] \in RealOrder
<1>1. Last(path) \in Statuses
  BY ElementOfSeq, LenProperties, EmptySeq DEF Last
<1>2. o.trail \o path \in Seq(Statuses)
  BY ConcatProperties DEF RealOrder
<1> QED
  BY <1>1, <1>2 DEF Moved, RealOrder

LEMMA WithOrder ==
  ASSUME NEW s \in StackType, NEW k \in Keys, NEW o \in OrderType
  PROVE  [s EXCEPT !.orders[k] = o] \in StackType /\ [s EXCEPT !.orders[k] = o].orders[k] = o
BY DEF StackType

LEMMA CountedOrder ==
  ASSUME NEW s \in StackType, NEW k \in Keys, NEW o \in RealOrder
  PROVE  Counted(s, k, o) \in StackType /\ Counted(s, k, o).orders[k] = o
<1>1. s.orders \in [Keys -> OrderType] /\ s.placed \in Nat /\ s.rejections \in Nat
  BY DEF StackType
<1>2. [s.orders EXCEPT ![k] = o] \in [Keys -> OrderType] /\ [s.orders EXCEPT ![k] = o][k] = o
  BY <1>1 DEF OrderType
<1> QED
  BY <1>1, <1>2 DEF Counted, StackType

LEMMA HeldStack ==
  ASSUME TypeOK, NEW h \in Handlers
  PROVE  StackOf(h) \in StackType
BY DEF TypeOK, StackOf

LEMMA KeepStack ==
  ASSUME TypeOK, NEW h \in Handlers, NEW s \in StackType, Keep(h, s)
  PROVE  /\ stack' \in StackType /\ own' \in [Handlers -> {Shared} \cup StackType]
         /\ StackOf(h)' = s
         /\ \A g \in Handlers \ {h} : own'[g] = own[g]
<1>1. s # Shared
  BY SharedIsNoStack
<1>2. CASE own[h] = Shared
  <2>1. stack' = s /\ own' = own
    BY <1>2 DEF Keep
  <2> QED
    BY <1>2, <2>1 DEF TypeOK, StackOf
<1>3. CASE own[h] # Shared
  <2>1. own' = [own EXCEPT ![h] = s] /\ stack' = stack
    BY <1>3 DEF Keep
  <2>2. own \in [Handlers -> {Shared} \cup StackType] /\ stack \in StackType
    BY DEF TypeOK
  <2>3. own'[h] = s /\ \A g \in Handlers \ {h} : own'[g] = own[g]
    BY <2>1, <2>2
  <2>4. own' \in [Handlers -> {Shared} \cup StackType]
    BY <2>1, <2>2
  <2>5. StackOf(h)' = s
    BY <1>1, <2>3 DEF StackOf
  <2> QED
    BY <2>1, <2>2, <2>3, <2>4, <2>5
<1> QED
  BY <1>2, <1>3

(* A table without orders makes an empty stack, any table a stack.         *)
LEMMA RestoredStack == TypeOK => Restored \in StackType
<1> SUFFICES ASSUME TypeOK PROVE Restored \in StackType
  OBVIOUS
<1>1. IsFiniteSet({k \in Keys : rows[k] # NoOrder})
  BY FS_Subset
<1>2. Cardinality({k \in Keys : rows[k] # NoOrder}) \in Nat
  BY <1>1, FS_CardinalityType
<1> QED
  BY <1>2 DEF TypeOK, Restored, StackType

(* The broker's answers are legal from SUBMITTED.                          *)
AnswerPaths == { <<"ACKNOWLEDGED">>, <<"ACKNOWLEDGED", "PARTIALLY_FILLED">>,
                 <<"ACKNOWLEDGED", "FILLED", "MONITORING">>, <<"REJECTED">>, <<"FAILED">> }

LEMMA AnswersLegal ==
  \A path \in AnswerPaths : path \in Seq(Statuses) /\ path # <<>> /\ Legal("SUBMITTED", path)
<1>1. \A a \in {"ACKNOWLEDGED", "REJECTED", "FAILED"} :
        <<a>> \in Seq(Statuses) /\ <<a>> # <<>> /\ Legal("SUBMITTED", <<a>>)
  BY DEF Legal, Allowed, Statuses
<1>2. LET p == <<"ACKNOWLEDGED", "PARTIALLY_FILLED">> IN
      p \in Seq(Statuses) /\ p # <<>> /\ Legal("SUBMITTED", p)
  BY DEF Legal, Allowed, Statuses
<1>3. LET p == <<"ACKNOWLEDGED", "FILLED", "MONITORING">> IN
      p \in Seq(Statuses) /\ p # <<>> /\ Legal("SUBMITTED", p)
  BY DEF Legal, Allowed, Statuses
<1> QED
  BY <1>1, <1>2, <1>3 DEF AnswerPaths

LEMMA CancelLegal ==
  /\ <<"CANCELLED">> \in Seq(Statuses) /\ <<"CANCELLED">> # <<>>
  /\ \A s \in {"SUBMITTED", "ACKNOWLEDGED"} : Legal(s, <<"CANCELLED">>)
BY DEF Legal, Allowed, Statuses
-----------------------------------------------------------------------------
LEMMA InitInv == Init => IInv
<1> SUFFICES ASSUME Init PROVE IInv
  OBVIOUS
<1>1. TypeOK
  <2>1. stack \in StackType
    BY DEF Init, StackType, OrderType
  <2>2. venue \in [Keys -> Seq(VenueStatuses)]
    BY EmptySeq DEF Init
  <2> QED
    BY <2>1, <2>2 DEF Init, TypeOK, Stages, Answers, OrderType
<1>2. LockFollowsHandler /\ WorkInv /\ NeverIllegal
  BY DEF Init, LockFollowsHandler, WorkInv, NeverIllegal
<1> QED
  BY <1>1, <1>2 DEF IInv

LEMMA AloneAtWork ==
  ASSUME IInv, NEW h \in Handlers, pc[h] # "idle" \/ lock = Nobody
  PROVE  \A g \in Handlers \ {h} : pc[g] = "idle" /\ own[g] = Shared
BY DEF IInv, LockFollowsHandler, WorkInv

(* One handler enters, goes on, or leaves: what holds of the others and of *)
(* the lock.                                                               *)
LEMMA EnterLock ==
  ASSUME IInv, NEW h \in Handlers, NEW k \in Keys, NEW s \in Stages \ {"idle"}, Enter(h, k, s)
  PROVE  /\ LockFollowsHandler' /\ NeverIllegal'
         /\ lock' \in Handlers \cup {Nobody} /\ pc' \in [Handlers -> Stages]
         /\ key' \in [Handlers -> Keys \cup {Nobody}] /\ answer' \in [Handlers -> Answers]
         /\ pc[h] = "idle" /\ own[h] = Shared /\ pc'[h] = s /\ key'[h] = k
         /\ \A g \in Handlers \ {h} : pc'[g] = "idle" /\ own[g] = Shared
<1> USE DEF IInv, TypeOK, Enter
<1>1. pc'[h] = s /\ key'[h] = k /\ lock' = h /\ pc[h] = "idle" /\ own[h] = Shared
  BY DEF WorkInv
<1>2. \A g \in Handlers \ {h} : pc'[g] = "idle" /\ own[g] = Shared
  BY AloneAtWork
<1>3. answer' \in [Handlers -> Answers] /\ NeverIllegal'
  BY DEF NeverIllegal, Answers
<1> QED
  BY <1>1, <1>2, <1>3 DEF LockFollowsHandler

LEMMA AtLock ==
  ASSUME IInv, NEW h \in Handlers, NEW s \in Stages \ {"idle"}, pc[h] # "idle", At(h, s)
  PROVE  /\ LockFollowsHandler' /\ NeverIllegal'
         /\ lock' \in Handlers \cup {Nobody} /\ pc' \in [Handlers -> Stages]
         /\ key' \in [Handlers -> Keys \cup {Nobody}] /\ answer' \in [Handlers -> Answers]
         /\ pc'[h] = s /\ key'[h] = key[h] /\ key[h] \in Keys
         /\ \A g \in Handlers \ {h} : pc'[g] = "idle" /\ own[g] = Shared
<1> USE DEF IInv, TypeOK, At
<1>1. pc'[h] = s /\ key'[h] = key[h] /\ key[h] \in Keys
  BY DEF WorkInv
<1>2. \A g \in Handlers \ {h} : pc'[g] = "idle" /\ own[g] = Shared
  BY AloneAtWork
<1> QED
  BY <1>1, <1>2 DEF LockFollowsHandler, NeverIllegal

LEMMA LeaveLock ==
  ASSUME IInv, NEW h \in Handlers, NEW a \in Answers \ {"illegal"}, pc[h] # "idle", Leave(h, a)
  PROVE  /\ LockFollowsHandler' /\ NeverIllegal' /\ WorkInv'
         /\ lock' \in Handlers \cup {Nobody} /\ pc' \in [Handlers -> Stages]
         /\ key' \in [Handlers -> Keys \cup {Nobody}] /\ answer' \in [Handlers -> Answers]
         /\ own' \in [Handlers -> {Shared} \cup StackType]
<1> USE DEF IInv, TypeOK, Leave
<1>1. \A g \in Handlers : pc'[g] = "idle" /\ own'[g] = Shared
  BY AloneAtWork DEF Stages
<1>2. answer' \in [Handlers -> Answers] /\ NeverIllegal'
  BY DEF NeverIllegal
<1>3. pc' \in [Handlers -> Stages]
  BY DEF Stages
<1> QED
  BY <1>1, <1>2, <1>3 DEF LockFollowsHandler, WorkInv
-----------------------------------------------------------------------------
(* The types of what lies outside the handlers.                            *)
OuterType ==
  /\ rows \in [Keys -> OrderType] /\ venue \in [Keys -> Seq(VenueStatuses)]
  /\ loose \in [Keys -> Nat] /\ sent \in [Keys -> Nat]
  /\ lapses \subseteq Lapses /\ faults \in 0 .. MaxFaults

(* A handler that is answered moves its order along a legal path.          *)
LEMMA ReceiveStep ==
  ASSUME IInv, NEW h \in Handlers, NEW path \in AnswerPaths, NEW id \in Nat,
         Receive(h, path, id)
  PROVE  /\ LockFollowsHandler' /\ NeverIllegal' /\ WorkInv'
         /\ lock' \in Handlers \cup {Nobody} /\ pc' \in [Handlers -> Stages]
         /\ key' \in [Handlers -> Keys \cup {Nobody}] /\ answer' \in [Handlers -> Answers]
         /\ stack' \in StackType /\ own' \in [Handlers -> {Shared} \cup StackType]
         /\ rows' = rows /\ sent' = sent /\ key[h] \in Keys
<1> DEFINE o == [Moved(OrderOf(h), path) EXCEPT !.bid = id]
           s == Counted(StackOf(h), key[h], o)
<1>1. /\ pc[h] = "placing" /\ pc[h] # "idle" /\ key[h] \in Keys
      /\ OrderOf(h) \in RealOrder /\ OrderOf(h).status = "SUBMITTED"
  BY DEF Receive, IInv, WorkInv
<1>2. Legal(OrderOf(h).status, path) /\ path \in Seq(Statuses) /\ path # <<>>
  BY <1>1, AnswersLegal
<1>3. Keep(h, s) /\ At(h, "saving") /\ rows' = rows /\ sent' = sent
  BY <1>2 DEF Receive
<1>4. o \in RealOrder
  BY <1>1, <1>2, MovedOrder
<1>5. StackOf(h) \in StackType
  BY HeldStack DEF IInv
<1>6. s \in StackType /\ s.orders[key[h]] = o
  BY <1>1, <1>4, <1>5, CountedOrder DEF OrderType
<1>7. /\ stack' \in StackType /\ own' \in [Handlers -> {Shared} \cup StackType]
      /\ StackOf(h)' = s /\ \A g \in Handlers \ {h} : own'[g] = own[g]
  BY <1>3, <1>6, KeepStack DEF IInv
<1>8. /\ LockFollowsHandler' /\ NeverIllegal'
      /\ lock' \in Handlers \cup {Nobody} /\ pc' \in [Handlers -> Stages]
      /\ key' \in [Handlers -> Keys \cup {Nobody}] /\ answer' \in [Handlers -> Answers]
      /\ pc'[h] = "saving" /\ key'[h] = key[h]
      /\ \A g \in Handlers \ {h} : pc'[g] = "idle" /\ own[g] = Shared
  BY <1>1, <1>3, AtLock DEF Stages
<1>9. OrderOf(h)' \in RealOrder
  BY <1>4, <1>6, <1>7, <1>8 DEF OrderOf
<1>10. WorkInv'
  BY <1>1, <1>7, <1>8, <1>9 DEF WorkInv
<1> QED
  BY <1>1, <1>3, <1>7, <1>8, <1>10

LEMMA LoosenedType ==
  ASSUME TypeOK, NEW k \in Keys, Loosened(k)
  PROVE  loose' \in [Keys -> Nat]
BY DEF TypeOK, Loosened

LEMMA ReachesType ==
  ASSUME TypeOK, NEW k \in Keys, NEW s \in VenueStatuses, Reaches(k, s)
  PROVE  venue' \in [Keys -> Seq(VenueStatuses)]
BY AppendProperties DEF TypeOK, Reaches

LEMMA FaultType == TypeOK /\ Fault => faults' \in 0 .. MaxFaults
BY DEF TypeOK, Fault

LEMMA LapseType ==
  ASSUME TypeOK, NEW l \in Lapses, Lapse(l)
  PROVE  lapses' \subseteq Lapses
BY DEF TypeOK, Lapse

LEMMA AcceptStep ==
  ASSUME IInv, NEW h \in Handlers, NEW s \in {"ACKNOWLEDGED", "PARTIALLY_FILLED", "FILLED"},
         Accept(h, s)
  PROVE  IInv'
<1> DEFINE path == CASE s = "ACKNOWLEDGED"     -> <<"ACKNOWLEDGED">>
                     [] s = "PARTIALLY_FILLED" -> <<"ACKNOWLEDGED", "PARTIALLY_FILLED">>
                     [] s = "FILLED"           -> <<"ACKNOWLEDGED", "FILLED", "MONITORING">>
<1>1. path \in AnswerPaths
  BY DEF AnswerPaths
<1>2. Receive(h, path, NewId(h)) /\ Reaches(key[h], s) /\ UNCHANGED <<loose, lapses, faults>>
  BY DEF Accept
<1>3. key[h] \in Keys
  BY <1>2 DEF Receive, IInv, WorkInv
<1>4. NewId(h) \in Nat
  BY <1>3, LenProperties DEF NewId, IInv, TypeOK
<1>5. venue' \in [Keys -> Seq(VenueStatuses)]
  BY <1>2, <1>3, ReachesType DEF IInv, VenueStatuses, VenueLive
<1> HIDE DEF path
<1>6. OuterType'
  BY <1>1, <1>2, <1>4, <1>5, ReceiveStep DEF IInv, TypeOK, OuterType
<1>7. TypeOK'
  BY <1>1, <1>2, <1>4, <1>6, ReceiveStep DEF OuterType, TypeOK
<1> QED
  BY <1>1, <1>2, <1>4, <1>7, ReceiveStep DEF IInv

LEMMA RefusedStep ==
  ASSUME IInv, NEW h \in Handlers, NEW path \in AnswerPaths, Receive(h, path, NoId),
         \/ loose' = loose /\ faults' = faults
         \/ Loosened(key[h]) /\ Fault,
         venue' = venue, lapses' = lapses
  PROVE  IInv'
<1>1. NoId \in Nat
  BY DEF NoId
<1>2. key[h] \in Keys
  BY DEF Receive, IInv, WorkInv
<1>3. loose' \in [Keys -> Nat] /\ faults' \in 0 .. MaxFaults
  BY <1>2, LoosenedType, FaultType DEF IInv, TypeOK
<1>4. OuterType'
  BY <1>1, <1>3, ReceiveStep DEF IInv, TypeOK, OuterType
<1>5. TypeOK'
  BY <1>1, <1>4, ReceiveStep DEF OuterType, TypeOK
<1> QED
  BY <1>1, <1>5, ReceiveStep DEF IInv

LEMMA RefusalStep ==
  ASSUME IInv, NEW h \in Handlers, Reject(h) \/ GatewayError(h) \/ Unanswered(h)
  PROVE  IInv'
<1>1. <<"REJECTED">> \in AnswerPaths /\ <<"FAILED">> \in AnswerPaths
  BY DEF AnswerPaths
<1>2. CASE Reject(h)
  BY <1>1, <1>2, RefusedStep DEF Reject
<1>3. CASE GatewayError(h)
  BY <1>1, <1>3, RefusedStep DEF GatewayError
<1>4. CASE Unanswered(h)
  BY <1>1, <1>4, RefusedStep DEF Unanswered
<1> QED
  BY <1>2, <1>3, <1>4

LEMMA BeginPlaceStep ==
  ASSUME IInv, NEW h \in Handlers, NEW k \in Keys, BeginPlace(h, k)
  PROVE  IInv'
<1>1. Enter(h, k, "risk") /\ UNCHANGED <<stack, own, rows, venueVars, lapses, faults>>
  BY DEF BeginPlace
<1>2. "risk" \in Stages \ {"idle"}
  BY DEF Stages
<1>3. TypeOK'
  BY <1>1, <1>2, EnterLock DEF IInv, TypeOK, venueVars
<1>4. WorkInv'
  BY <1>1, <1>2, EnterLock DEF WorkInv
<1> QED
  BY <1>1, <1>2, <1>3, <1>4, EnterLock DEF IInv

(* The handler leaves, and the stack it leaves is still well-formed.       *)
LEMMA Leaves ==
  ASSUME IInv, NEW h \in Handlers, NEW a \in Answers \ {"illegal"}, pc[h] # "idle", Leave(h, a),
         stack' = stack, OuterType'
  PROVE  IInv'
<1>1. TypeOK'
  BY LeaveLock DEF IInv, TypeOK, OuterType
<1> QED
  BY <1>1, LeaveLock DEF IInv

LEMMA RefuseStep ==
  ASSUME IInv, NEW h \in Handlers, Refuse(h)
  PROVE  IInv'
<1>1. pc[h] # "idle" /\ Leave(h, "refused") /\ "refused" \in Answers \ {"illegal"}
  BY DEF Refuse, Answers
<1>2. stack' = stack /\ OuterType'
  BY DEF Refuse, IInv, TypeOK, OuterType, venueVars
<1> QED
  BY <1>1, <1>2, Leaves

LEMMA PlaceRaisesStep ==
  ASSUME IInv, NEW h \in Handlers, PlaceRaises(h)
  PROVE  IInv'
<1>1. pc[h] # "idle" /\ Leave(h, "failed") /\ "failed" \in Answers \ {"illegal"} /\ key[h] \in Keys
  BY DEF PlaceRaises, Answers, IInv, WorkInv
<1>2. loose' \in [Keys -> Nat] /\ faults' \in 0 .. MaxFaults /\ lapses' \subseteq Lapses
  BY <1>1, LoosenedType, FaultType, LapseType DEF PlaceRaises, IInv, Lapses
<1>3. stack' = stack /\ OuterType'
  BY <1>2 DEF PlaceRaises, IInv, TypeOK, OuterType
<1> QED
  BY <1>1, <1>3, Leaves

LEMMA SubmitStep ==
  ASSUME IInv, NEW h \in Handlers, Submit(h)
  PROVE  IInv'
<1> DEFINE s == [StackOf(h) EXCEPT !.orders[key[h]] = Created]
<1>1. /\ pc[h] # "idle" /\ Keep(h, s) /\ At(h, "placing") /\ "placing" \in Stages \ {"idle"}
      /\ key[h] \in Keys
  BY DEF Submit, Stages, IInv, WorkInv
<1>2. Created \in RealOrder /\ Created \in OrderType /\ Created.status = "SUBMITTED"
  <2>1. <<"CREATED", "VALIDATING", "RISK_APPROVED", "SUBMITTED">> \in Seq(Statuses)
    BY DEF Statuses
  <2> QED
    BY <2>1 DEF Created, RealOrder, OrderType, Statuses, NoId
<1>3. s \in StackType /\ s.orders[key[h]] = Created
  BY <1>1, <1>2, HeldStack, WithOrder DEF IInv
<1> HIDE DEF s
<1>4. /\ stack' \in StackType /\ own' \in [Handlers -> {Shared} \cup StackType]
      /\ StackOf(h)' = s /\ \A g \in Handlers \ {h} : own'[g] = own[g]
  BY <1>1, <1>3, KeepStack DEF IInv
<1>5. OrderOf(h)' = Created
  BY <1>1, <1>3, <1>4, AtLock DEF OrderOf
<1>6. sent' \in [Keys -> Nat]
  BY <1>1 DEF Submit, IInv, TypeOK
<1>7. TypeOK'
  BY <1>1, <1>4, <1>6, AtLock DEF Submit, IInv, TypeOK
<1>8. WorkInv'
  BY <1>1, <1>2, <1>4, <1>5, AtLock DEF WorkInv
<1> QED
  BY <1>1, <1>7, <1>8, AtLock DEF IInv

LEMMA DedupeStep ==
  ASSUME IInv, NEW h \in Handlers, Dedupe(h)
  PROVE  IInv'
<1>1. /\ pc[h] # "idle" /\ At(h, "saving") /\ "saving" \in Stages \ {"idle"}
      /\ OrderOf(h) # NoOrder /\ key[h] \in Keys
  BY DEF Dedupe, Stages, IInv, WorkInv
<1>2. OrderOf(h) \in RealOrder
  BY <1>1, HeldStack DEF OrderOf, StackType, OrderType, IInv
<1>3. OrderOf(h)' = OrderOf(h)
  BY <1>1, AtLock DEF Dedupe, OrderOf, StackOf
<1>4. TypeOK'
  BY <1>1, AtLock DEF Dedupe, IInv, TypeOK, venueVars
<1>5. WorkInv'
  BY <1>1, <1>2, <1>3, AtLock DEF Dedupe, WorkInv
<1> QED
  BY <1>1, <1>4, <1>5, AtLock DEF IInv
-----------------------------------------------------------------------------
(* Marking an order at the venue, one that is there or not.                *)
LEMMA MarkedType ==
  ASSUME TypeOK, NEW k \in Keys, NEW i \in Nat, NEW s \in VenueStatuses
  PROVE  [venue EXCEPT ![k][i] = s] \in [Keys -> Seq(VenueStatuses)]
<1>1. venue[k] \in Seq(VenueStatuses)
  BY DEF TypeOK
<1>2. [venue[k] EXCEPT ![i] = s] \in Seq(VenueStatuses)
  <2>1. CASE i \in 1 .. Len(venue[k])
    BY <1>1, <2>1, ExceptSeq
  <2>2. CASE i \notin 1 .. Len(venue[k])
    <3>1. venue[k] = [j \in 1 .. Len(venue[k]) |-> venue[k][j]]
      BY <1>1, LenProperties
    <3>2. [venue[k] EXCEPT ![i] = s] = venue[k]
      BY <2>2, <3>1
    <3> QED
      BY <1>1, <3>2
  <2> QED
    BY <2>1, <2>2
<1> QED
  BY <1>2 DEF TypeOK

LEMMA BeginCancelStep ==
  ASSUME IInv, NEW h \in Handlers, NEW k \in Keys, BeginCancel(h, k)
  PROVE  IInv'
<1> DEFINE o == stack.orders[k]
<1>1. o.status \in {"SUBMITTED", "ACKNOWLEDGED"} /\ UNCHANGED <<own, rows, venueVars, lapses, faults>>
  BY DEF BeginCancel
<1>2. o \in RealOrder
  <2>1. o \in OrderType
    BY DEF IInv, TypeOK, StackType
  <2>2. o # NoOrder
    BY <1>1 DEF NoOrder
  <2> QED
    BY <2>1, <2>2 DEF OrderType
<1>3. OuterType'
  BY <1>1 DEF IInv, TypeOK, OuterType, venueVars
<1>4. CASE o.bid # NoId
  <2>1. Enter(h, k, "cancelling") /\ stack' = stack /\ "cancelling" \in Stages \ {"idle"}
    BY <1>4 DEF BeginCancel, Stages
  <2>2. OrderOf(h)' = o
    BY <1>1, <2>1, EnterLock DEF OrderOf, StackOf
  <2>3. TypeOK'
    BY <1>1, <1>3, <2>1, EnterLock DEF IInv, TypeOK, OuterType
  <2>4. WorkInv'
    BY <1>1, <1>2, <2>1, <2>2, EnterLock DEF WorkInv
  <2> QED
    BY <2>1, <2>3, <2>4, EnterLock DEF IInv
<1>5. CASE o.bid = NoId
  <2> DEFINE c == Moved(o, <<"CANCELLED">>)
             s == [stack EXCEPT !.orders[k] = c]
  <2>1. Enter(h, k, "saving") /\ stack' = s /\ "saving" \in Stages \ {"idle"}
    BY <1>5 DEF BeginCancel, Stages
  <2>2. c \in RealOrder
    BY <1>2, CancelLegal, MovedOrder DEF NoId
  <2>3. s \in StackType /\ s.orders[k] = c
    BY <2>2, WithOrder DEF IInv, TypeOK, OrderType
  <2> HIDE DEF s
  <2>4. OrderOf(h)' = c
    BY <1>1, <2>1, <2>3, EnterLock DEF OrderOf, StackOf
  <2>5. TypeOK'
    BY <1>1, <1>3, <2>1, <2>3, EnterLock DEF IInv, TypeOK, OuterType
  <2>6. WorkInv'
    BY <1>1, <2>1, <2>2, <2>4, EnterLock DEF WorkInv
  <2> QED
    BY <2>1, <2>5, <2>6, EnterLock DEF IInv
<1> QED
  BY <1>4, <1>5

LEMMA CancelConfirmedStep ==
  ASSUME IInv, NEW h \in Handlers, CancelConfirmed(h)
  PROVE  IInv'
<1> DEFINE o == OrderOf(h)
           c == Moved(o, <<"CANCELLED">>)
           s == [StackOf(h) EXCEPT !.orders[key[h]] = Moved(@, <<"CANCELLED">>)]
<1>1. /\ pc[h] # "idle" /\ key[h] \in Keys /\ o \in RealOrder
      /\ o.status \in {"SUBMITTED", "ACKNOWLEDGED"}
  BY DEF CancelConfirmed, IInv, WorkInv
<1>2. Keep(h, s) /\ At(h, "saving") /\ "saving" \in Stages \ {"idle"}
  BY <1>1, CancelLegal DEF CancelConfirmed, Stages
<1>3. c \in RealOrder
  BY <1>1, CancelLegal, MovedOrder DEF NoId
<1>4. s \in StackType /\ s.orders[key[h]] = c
  BY <1>1, <1>3, HeldStack, WithOrder DEF IInv, OrderType, OrderOf
<1> HIDE DEF s
<1>5. /\ stack' \in StackType /\ own' \in [Handlers -> {Shared} \cup StackType]
      /\ StackOf(h)' = s /\ \A g \in Handlers \ {h} : own'[g] = own[g]
  BY <1>2, <1>4, KeepStack DEF IInv
<1>6. OrderOf(h)' = c
  BY <1>1, <1>2, <1>4, <1>5, AtLock DEF OrderOf
<1>7. venue' \in [Keys -> Seq(VenueStatuses)]
  BY <1>1, MarkedType DEF CancelConfirmed, IInv, RealOrder, VenueStatuses
<1>8. TypeOK'
  BY <1>1, <1>2, <1>5, <1>7, AtLock DEF CancelConfirmed, IInv, TypeOK
<1>9. WorkInv'
  BY <1>1, <1>2, <1>3, <1>5, <1>6, AtLock DEF WorkInv
<1> QED
  BY <1>1, <1>2, <1>8, <1>9, AtLock DEF IInv

LEMMA CancelFailsStep ==
  ASSUME IInv, NEW h \in Handlers, CancelFails(h)
  PROVE  IInv'
<1>1. /\ pc[h] # "idle" /\ key[h] \in Keys /\ OrderOf(h) \in RealOrder
      /\ Leave(h, "failed") /\ "failed" \in Answers \ {"illegal"}
  BY DEF CancelFails, Answers, IInv, WorkInv
<1>2. venue' \in [Keys -> Seq(VenueStatuses)]
  <2>1. CASE venue' = venue
    BY <2>1 DEF IInv, TypeOK
  <2>2. CASE venue' = [venue EXCEPT ![key[h]][OrderOf(h).bid] = "CANCELLED"]
    BY <1>1, <2>2, MarkedType DEF IInv, RealOrder, VenueStatuses
  <2> QED
    BY <2>1, <2>2 DEF CancelFails
<1>3. stack' = stack /\ OuterType'
  BY <1>2 DEF CancelFails, IInv, TypeOK, OuterType
<1> QED
  BY <1>1, <1>3, Leaves
-----------------------------------------------------------------------------
(* persist_order leaves an order with a trail of statuses.                 *)
LEMMA WrittenOrder ==
  ASSUME NEW r \in OrderType, NEW o \in RealOrder
  PROVE  Written(r, o) \in RealOrder
<1>1. CASE r = NoOrder
  BY <1>1 DEF Written
<1>2. CASE r # NoOrder
  <2> DEFINE rest == SubSeq(o.trail, Len(r.trail) + 1, Len(o.trail))
  <2>1. r.trail \in Seq(Statuses) /\ o.trail \in Seq(Statuses)
    BY <1>2 DEF OrderType, RealOrder
  <2>2. Len(r.trail) \in Nat /\ Len(o.trail) \in Nat
    BY <2>1, LenProperties
  <2>3. \A i \in Len(r.trail) + 1 .. Len(o.trail) : o.trail[i] \in Statuses
    BY <2>1, <2>2, ElementOfSeq
  <2>4. rest \in Seq(Statuses)
    BY <2>2, <2>3, SubSeqProperties
  <2>5. r.trail \o rest \in Seq(Statuses)
    BY <2>1, <2>4, ConcatProperties
  <2> QED
    BY <1>2, <2>5 DEF Written, RealOrder
<1> QED
  BY <1>1, <1>2

LEMMA SaveStep ==
  ASSUME IInv, NEW h \in Handlers, Save(h) \/ SaveRaises(h)
  PROVE  IInv'
<1>1. PICK a \in {"done", "failed"} : pc[h] = "saving" /\ Leave(h, a) /\ stack' = stack
  BY DEF Save, SaveRaises
<1>2. pc[h] # "idle" /\ a \in Answers \ {"illegal"}
  BY <1>1 DEF Answers
<1>3. OuterType'
  <2>1. CASE Save(h)
    <3>1. key[h] \in Keys /\ OrderOf(h) \in RealOrder
      BY <1>1 DEF IInv, WorkInv
    <3>2. rows[key[h]] \in OrderType
      BY <3>1 DEF IInv, TypeOK
    <3>3. Written(rows[key[h]], OrderOf(h)) \in OrderType
      BY <3>1, <3>2, WrittenOrder DEF OrderType
    <3>4. rows' \in [Keys -> OrderType]
      BY <2>1, <3>3 DEF Save, IInv, TypeOK
    <3> QED
      BY <2>1, <3>4 DEF Save, IInv, TypeOK, OuterType, venueVars
  <2>2. CASE SaveRaises(h)
    <3>1. faults' \in 0 .. MaxFaults /\ lapses' \subseteq Lapses
      BY <2>2, FaultType, LapseType DEF SaveRaises, IInv, Lapses
    <3> QED
      BY <2>2, <3>1 DEF SaveRaises, IInv, TypeOK, OuterType, venueVars
  <2> QED
    BY <2>1, <2>2
<1> QED
  BY <1>1, <1>2, <1>3, Leaves

(* What happens at the venue leaves the process alone.                     *)
LEMMA Elsewhere ==
  ASSUME IInv, UNCHANGED <<lock, pc, key, stack, own, answer>>, OuterType'
  PROVE  IInv'
<1>1. TypeOK'
  BY DEF IInv, TypeOK, OuterType
<1>2. LockFollowsHandler' /\ NeverIllegal'
  BY DEF IInv, LockFollowsHandler, NeverIllegal
<1>3. WorkInv'
  BY DEF IInv, WorkInv, OrderOf, StackOf
<1> QED
  BY <1>1, <1>2, <1>3 DEF IInv

LEMMA LateStep ==
  ASSUME IInv, NEW k \in Keys, Late(k)
  PROVE  IInv'
<1>1. venue' \in [Keys -> Seq(VenueStatuses)]
  BY ReachesType DEF Late, IInv, TypeOK, VenueStatuses, VenueLive
<1>2. loose' \in [Keys -> Nat]
  BY DEF Late, IInv, TypeOK
<1>3. OuterType'
  BY <1>1, <1>2 DEF Late, IInv, TypeOK, OuterType
<1> QED
  BY <1>3, Elsewhere DEF Late

LEMMA VenueFillsStep ==
  ASSUME IInv, NEW k \in Keys, VenueFills(k)
  PROVE  IInv'
<1>1. PICK i \in DOMAIN venue[k], s \in {"PARTIALLY_FILLED", "FILLED"} :
        venue' = [venue EXCEPT ![k][i] = s]
  BY DEF VenueFills
<1>2. i \in Nat /\ s \in VenueStatuses
  BY LenProperties DEF IInv, TypeOK, VenueStatuses, VenueLive
<1>3. OuterType'
  BY <1>1, <1>2, MarkedType DEF VenueFills, IInv, TypeOK, OuterType
<1> QED
  BY <1>3, Elsewhere DEF VenueFills
-----------------------------------------------------------------------------
(* The cached stack is replaced: a handler at work keeps the one it has,   *)
(* and so the order it is working on.                                      *)
LEMMA RebuildStep ==
  ASSUME IInv, Rebuild
  PROVE  IInv'
<1>1. /\ stack' = Restored /\ UNCHANGED <<lock, pc, key, rows, venueVars, answer>>
      /\ own' = [h \in Handlers |-> IF pc[h] # "idle" /\ own[h] = Shared THEN stack ELSE own[h]]
  BY DEF Rebuild
<1>2. stack' \in StackType /\ stack \in StackType
  BY <1>1, RestoredStack DEF IInv, TypeOK
<1>3. own' \in [Handlers -> {Shared} \cup StackType]
  BY <1>1, <1>2 DEF IInv, TypeOK
<1>4. \A h \in Handlers : pc[h] = "idle" => own'[h] = Shared
  BY <1>1 DEF IInv, WorkInv
<1>5. \A h \in Handlers : pc[h] # "idle" => OrderOf(h)' = OrderOf(h)
  <2> SUFFICES ASSUME NEW h \in Handlers, pc[h] # "idle" PROVE OrderOf(h)' = OrderOf(h)
    OBVIOUS
  <2>1. own'[h] = StackOf(h)
    BY <1>1 DEF StackOf
  <2>2. own'[h] # Shared
    BY <2>1, HeldStack, SharedIsNoStack DEF IInv
  <2> QED
    BY <1>1, <2>1, <2>2 DEF OrderOf, StackOf
<1>6. faults' \in 0 .. MaxFaults /\ lapses' \subseteq Lapses
  BY FaultType DEF Rebuild, IInv, TypeOK, Lapses
<1>7. TypeOK'
  BY <1>1, <1>2, <1>3, <1>6 DEF IInv, TypeOK, venueVars
<1>8. LockFollowsHandler' /\ NeverIllegal'
  BY <1>1 DEF IInv, LockFollowsHandler, NeverIllegal
<1>9. WorkInv'
  BY <1>1, <1>4, <1>5 DEF IInv, WorkInv
<1> QED
  BY <1>7, <1>8, <1>9 DEF IInv

LEMMA CrashStep ==
  ASSUME IInv, Crash
  PROVE  IInv'
<1>1. stack' \in StackType
  BY RestoredStack DEF Crash, IInv
<1>2. loose' \in [Keys -> Nat]
  <2> DEFINE out(k) == Cardinality({h \in Handlers : pc[h] = "placing" /\ key[h] = k})
  <2>1. \A k \in Keys : IsFiniteSet({h \in Handlers : pc[h] = "placing" /\ key[h] = k})
    BY FS_Subset
  <2>2. \A k \in Keys : out(k) \in Nat
    BY <2>1, FS_CardinalityType
  <2>3. loose' = [k \in Keys |-> loose[k] + out(k)]
    BY DEF Crash
  <2> HIDE DEF out
  <2> QED
    BY <2>2, <2>3 DEF IInv, TypeOK
<1>3. faults' \in 0 .. MaxFaults /\ lapses' \subseteq Lapses
  BY FaultType DEF Crash, IInv, TypeOK, Lapses
<1>4. answer' \in [Handlers -> Answers] /\ NeverIllegal'
  BY DEF Crash, IInv, TypeOK, Answers, NeverIllegal
<1>5. TypeOK'
  BY <1>1, <1>2, <1>3, <1>4 DEF Crash, IInv, TypeOK, Stages
<1>6. LockFollowsHandler' /\ WorkInv'
  BY DEF Crash, LockFollowsHandler, WorkInv
<1> QED
  BY <1>4, <1>5, <1>6 DEF IInv
-----------------------------------------------------------------------------
LEMMA Inductive == IInv /\ [Next]_vars => IInv'
<1> SUFFICES ASSUME IInv, [Next]_vars PROVE IInv'
  OBVIOUS
<1>1. ASSUME NEW h \in Handlers, NEW k \in Keys, BeginPlace(h, k) \/ BeginCancel(h, k)
      PROVE  IInv'
  BY <1>1, BeginPlaceStep, BeginCancelStep
<1>2. ASSUME NEW h \in Handlers, Refuse(h) \/ Submit(h) \/ Dedupe(h)
      PROVE  IInv'
  BY <1>2, RefuseStep, SubmitStep, DedupeStep
<1>3. ASSUME NEW h \in Handlers, NEW s \in {"ACKNOWLEDGED", "PARTIALLY_FILLED", "FILLED"},
             Accept(h, s)
      PROVE  IInv'
  BY <1>3, AcceptStep
<1>4. ASSUME NEW h \in Handlers, Reject(h) \/ GatewayError(h) \/ Unanswered(h)
      PROVE  IInv'
  BY <1>4, RefusalStep
<1>5. ASSUME NEW h \in Handlers, CancelConfirmed(h) \/ CancelFails(h) \/ PlaceRaises(h)
      PROVE  IInv'
  BY <1>5, CancelConfirmedStep, CancelFailsStep, PlaceRaisesStep
<1>6. ASSUME NEW h \in Handlers, Save(h) \/ SaveRaises(h)
      PROVE  IInv'
  BY <1>6, SaveStep
<1>7. ASSUME NEW k \in Keys, Late(k) \/ VenueFills(k)
      PROVE  IInv'
  BY <1>7, LateStep, VenueFillsStep
<1>8. CASE Rebuild \/ Crash
  BY <1>8, RebuildStep, CrashStep
<1>9. CASE UNCHANGED vars
  <2>1. OuterType'
    BY <1>9 DEF vars, IInv, TypeOK, OuterType
  <2> QED
    BY <1>9, <2>1, Elsewhere DEF vars
<1> QED
  BY <1>1, <1>2, <1>3, <1>4, <1>5, <1>6, <1>7, <1>8, <1>9 DEF Next, Proceed

LEMMA Invariant == Spec => []IInv
BY InitInv, Inductive, PTL DEF Spec

(* The orders, the stacks and the table keep their types.                  *)
THEOREM OrdersTypeCorrect == Spec => []TypeOK
<1>1. IInv => TypeOK
  BY DEF IInv
<1> QED
  BY <1>1, Invariant, PTL

(* The lock is held exactly while a handler is at work, on every path out  *)
(* of every handler (serialize_user_trading).                              *)
THEOREM LockAlwaysFollows == Spec => []LockFollowsHandler
<1>1. IInv => LockFollowsHandler
  BY DEF IInv
<1> QED
  BY <1>1, Invariant, PTL

(* No answer, cancel, crash or replaced stack makes a handler attempt a    *)
(* transition that order_manager.py's table forbids.                       *)
THEOREM TransitionsLegal == Spec => []NeverIllegal
<1>1. IInv => NeverIllegal
  BY DEF IInv
<1> QED
  BY <1>1, Invariant, PTL
-----------------------------------------------------------------------------
(***************************************************************************)
(* What the book in memory, the table, the broker and the counters owe one *)
(* another.  Three invariants on top of IInv:                              *)
(* the trail in the table is a beginning of the trail in memory, and both  *)
(* are walks through the state machine (TrailInv); until something goes    *)
(* wrong, what was sent, what is in memory, what is counted and what is in *)
(* the table differ by the one order in flight at most (MirrorInv); and an *)
(* order that names the broker's names one that is there (BidInv).         *)
(***************************************************************************)

(* The order's trail begins as the row's does.                             *)
Extends(o, r) ==
  /\ Len(r.trail) <= Len(o.trail)
  /\ \A i \in 1 .. Len(r.trail) : o.trail[i] = r.trail[i]

(* A trail from CREATED to the order's status, every step in the table.    *)
Walk(o) ==
  LET t == o.trail IN
  /\ t # <<>> /\ Head(t) = "CREATED" /\ Last(t) = o.status
  /\ \A i \in 2 .. Len(t) : t[i] \in Allowed(t[i - 1])

(* While no stack was replaced under a handler.                            *)
TrailInv ==
  "rebuilt" \notin lapses =>
    /\ \A h \in Handlers : own[h] = Shared
    /\ \A k \in Keys : stack.orders[k] # NoOrder => Walk(stack.orders[k])
    /\ \A k \in Keys : rows[k] # NoOrder =>
         stack.orders[k] # NoOrder /\ Walk(rows[k]) /\ Extends(stack.orders[k], rows[k])

(* The order whose row is not what memory holds, and the one that is not   *)
(* counted yet.                                                            *)
Unsaved(k)   == \E h \in Handlers : pc[h] \in {"placing", "saving"} /\ key[h] = k
Uncounted(k) == \E h \in Handlers : pc[h] = "placing" /\ key[h] = k
Counting     == {k \in Keys : stack.orders[k] # NoOrder /\ ~Uncounted(k)}

MirrorInv ==
  lapses = {} =>
    /\ \A k \in Keys : sent[k] = IF stack.orders[k] = NoOrder THEN 0 ELSE 1
    /\ stack.placed = Cardinality(Counting)
    /\ \A k \in Keys : ~Unsaved(k) => rows[k] = stack.orders[k]
    /\ \A k \in Keys : Uncounted(k) => rows[k] = NoOrder

(* The order o and the venue's list v: what o names is there, and dead if  *)
(* o says so.                                                              *)
There(v, o) ==
  o # NoOrder /\ o.bid # NoId =>
    /\ o.bid \in 1 .. Len(v)
    /\ o.status = "CANCELLED" => v[o.bid] = "CANCELLED"

BidInv ==
  \A k \in Keys :
    /\ There(venue[k], stack.orders[k]) /\ There(venue[k], rows[k])
    /\ \A h \in Handlers : own[h] # Shared => There(venue[k], own[h].orders[k])
-----------------------------------------------------------------------------
(* Trails.                                                                 *)
LEMMA WalkOn ==
  ASSUME NEW o \in RealOrder, Walk(o), NEW path \in Seq(Statuses), path # <<>>,
         Legal(o.status, path),
         NEW m, m.trail = o.trail \o path, m.status = Last(path)
  PROVE  Walk(m) /\ Extends(m, o)
<1> DEFINE t == o.trail  u == o.trail \o path
<1>1. t \in Seq(Statuses) /\ t # <<>> /\ t[1] = "CREATED" /\ t[Len(t)] = o.status
  BY DEF RealOrder, Walk, Last
<1>2. Len(t) \in Nat \ {0} /\ Len(path) \in Nat \ {0} /\ DOMAIN path = 1 .. Len(path)
  BY <1>1, EmptySeq, LenProperties
<1>3. /\ Len(u) = Len(t) + Len(path) /\ u \in Seq(Statuses)
      /\ \A i \in 1 .. Len(t) : u[i] = t[i]
      /\ \A i \in 1 .. Len(path) : u[Len(t) + i] = path[i]
  <2>1. /\ u \in Seq(Statuses) /\ Len(u) = Len(t) + Len(path)
        /\ \A i \in 1 .. Len(t) + Len(path) : u[i] = IF i <= Len(t) THEN t[i] ELSE path[i - Len(t)]
    BY <1>1, ConcatProperties
  <2> QED
    BY <1>2, <2>1
<1>4. u # <<>> /\ u[1] = "CREATED" /\ u[Len(u)] = path[Len(path)]
  BY <1>1, <1>2, <1>3, EmptySeq
<1>5. Extends(m, o)
  BY <1>2, <1>3 DEF Extends
<1>6. \A i \in 2 .. Len(t) : t[i] \in Allowed(t[i - 1])
  BY DEF Walk
<1>7. path[1] \in Allowed(o.status)
  <2>1. 1 \in DOMAIN path
    BY <1>2
  <2>2. path[1] \in Allowed(IF 1 = 1 THEN o.status ELSE path[1 - 1])
    BY <2>1 DEF Legal
  <2> QED
    BY <2>2
<1>8. \A j \in 2 .. Len(path) : path[j] \in Allowed(path[j - 1])
  <2> SUFFICES ASSUME NEW j \in 2 .. Len(path) PROVE path[j] \in Allowed(path[j - 1])
    OBVIOUS
  <2>1. j \in DOMAIN path /\ j # 1
    BY <1>2
  <2>2. path[j] \in Allowed(IF j = 1 THEN o.status ELSE path[j - 1])
    BY <2>1 DEF Legal
  <2> QED
    BY <2>1, <2>2
<1> HIDE DEF t
<1>9. \A i \in 2 .. Len(u) : u[i] \in Allowed(u[i - 1])
  <2> HIDE DEF u
  <2> SUFFICES ASSUME NEW i \in 2 .. Len(u) PROVE u[i] \in Allowed(u[i - 1])
    OBVIOUS
  <2>1. CASE i <= Len(t)
    <3>1. t[i] \in Allowed(t[i - 1])
      BY <1>2, <1>6, <2>1
    <3>2. i \in 1 .. Len(t) /\ i - 1 \in 1 .. Len(t)
      BY <1>2, <2>1
    <3> QED
      BY <1>3, <3>1, <3>2
  <2>2. CASE i = Len(t) + 1
    <3>1. 1 \in 1 .. Len(path) /\ Len(t) \in 1 .. Len(t) /\ i - 1 = Len(t)
      BY <1>2, <2>2
    <3>2. u[i] = path[1] /\ u[i - 1] = t[Len(t)]
      BY <1>3, <2>2, <3>1
    <3> QED
      BY <1>1, <1>7, <3>2
  <2>3. CASE i > Len(t) + 1
    <3>1. PICK j \in 2 .. Len(path) : i = Len(t) + j
      <4>1. i - Len(t) \in 2 .. Len(path) /\ i = Len(t) + (i - Len(t))
        BY <1>2, <1>3, <2>3
      <4> QED
        BY <4>1
    <3>2. j \in 1 .. Len(path) /\ j - 1 \in 1 .. Len(path) /\ i - 1 = Len(t) + (j - 1)
      BY <1>2, <3>1
    <3>3. u[i] = path[j] /\ u[i - 1] = path[j - 1]
      BY <1>3, <3>1, <3>2
    <3> QED
      BY <1>8, <3>3
  <2> QED
    BY <1>2, <1>3, <2>1, <2>2, <2>3
<1>10. m.trail = u /\ Head(u) = u[1] /\ path[Len(path)] = m.status
  BY <1>3, <1>4 DEF Last, u, t
<1> HIDE DEF u
<1> QED
  BY <1>4, <1>5, <1>9, <1>10 DEF Walk, Last

LEMMA MovedWalks ==
  ASSUME NEW o \in RealOrder, Walk(o), NEW path \in Seq(Statuses), path # <<>>,
         Legal(o.status, path), NEW id
  PROVE  /\ Walk(Moved(o, path)) /\ Extends(Moved(o, path), o)
         /\ Walk([Moved(o, path) EXCEPT !.bid = id])
         /\ Extends([Moved(o, path) EXCEPT !.bid = id], o)
<1> DEFINE m == Moved(o, path)  n == [Moved(o, path) EXCEPT !.bid = id]
<1>1. m.trail = o.trail \o path /\ m.status = Last(path)
  BY DEF Moved, RealOrder
<1>2. n.trail = o.trail \o path /\ n.status = Last(path)
  BY DEF Moved, RealOrder
<1> HIDE DEF m, n
<1> SUFFICES Walk(m) /\ Extends(m, o) /\ Walk(n) /\ Extends(n, o)
  BY DEF m, n
<1> QED
  BY <1>1, <1>2, WalkOn

LEMMA ExtendsTrans ==
  ASSUME NEW a \in RealOrder, NEW b \in RealOrder, NEW c \in RealOrder,
         Extends(a, b), Extends(b, c)
  PROVE  Extends(a, c)
<1>1. Len(a.trail) \in Nat /\ Len(b.trail) \in Nat /\ Len(c.trail) \in Nat
  BY LenProperties DEF RealOrder
<1> QED
  BY <1>1 DEF Extends

LEMMA ExtendsSelf ==
  ASSUME NEW o \in RealOrder
  PROVE  Extends(o, o)
BY LenProperties DEF RealOrder, Extends

(* persist_order adds exactly the events the table lacks.                  *)
LEMMA WrittenExtends ==
  ASSUME NEW r \in RealOrder, NEW o \in RealOrder, Extends(o, r)
  PROVE  Written(r, o) = o
<1> DEFINE n == Len(r.trail)
           rest == SubSeq(o.trail, n + 1, Len(o.trail))
<1>1. r.trail \in Seq(Statuses) /\ o.trail \in Seq(Statuses)
  BY DEF RealOrder
<1>2. /\ n \in Nat /\ Len(o.trail) \in Nat /\ n <= Len(o.trail)
      /\ \A i \in 1 .. n : o.trail[i] = r.trail[i]
  BY <1>1, LenProperties DEF Extends
<1>3. \A i \in n + 1 .. Len(o.trail) : o.trail[i] \in Statuses
  BY <1>1, <1>2, ElementOfSeq
<1>4. /\ rest \in Seq(Statuses) /\ Len(rest) = Len(o.trail) - n
      /\ \A i \in 1 .. Len(o.trail) - n : rest[i] = o.trail[n + i]
  <2>1. /\ rest \in Seq(Statuses)
        /\ Len(rest) = IF n + 1 <= Len(o.trail) THEN Len(o.trail) - (n + 1) + 1 ELSE 0
        /\ \A i \in 1 .. Len(o.trail) - (n + 1) + 1 : rest[i] = o.trail[n + 1 + i - 1]
    <3>1. PICK a \in Int, b \in Int : a = n + 1 /\ b = Len(o.trail)
      BY <1>2
    <3>2. \A i \in a .. b : o.trail[i] \in Statuses
      BY <1>3, <3>1
    <3>3. /\ SubSeq(o.trail, a, b) \in Seq(Statuses)
          /\ Len(SubSeq(o.trail, a, b)) = IF a <= b THEN b - a + 1 ELSE 0
          /\ \A i \in 1 .. b - a + 1 : SubSeq(o.trail, a, b)[i] = o.trail[a + i - 1]
      BY <3>2, SubSeqProperties
    <3> QED
      BY <3>1, <3>3
  <2> HIDE DEF n, rest
  <2>2. \A i \in 1 .. Len(o.trail) - n : n + 1 + i - 1 = n + i
    BY <1>2
  <2> QED
    BY <1>2, <2>1, <2>2
<1>5. /\ r.trail \o rest \in Seq(Statuses) /\ Len(r.trail \o rest) = Len(o.trail)
      /\ \A i \in 1 .. Len(o.trail) : (r.trail \o rest)[i] = IF i <= n THEN r.trail[i] ELSE rest[i - n]
  <2>1. PICK u \in Seq(Statuses), v \in Seq(Statuses) : u = r.trail /\ v = rest /\ n = Len(u)
    BY <1>1, <1>4
  <2> HIDE DEF n, rest
  <2>2. /\ r.trail \o rest \in Seq(Statuses) /\ Len(r.trail \o rest) = n + Len(rest)
        /\ \A i \in 1 .. n + Len(rest) : (r.trail \o rest)[i] = IF i <= n THEN r.trail[i] ELSE rest[i - n]
    <3>1. /\ u \o v \in Seq(Statuses) /\ Len(u \o v) = Len(u) + Len(v)
          /\ \A i \in 1 .. Len(u) + Len(v) : (u \o v)[i] = IF i <= Len(u) THEN u[i] ELSE v[i - Len(u)]
      BY ConcatProperties
    <3> QED
      BY <2>1, <3>1
  <2>3. n + Len(rest) = Len(o.trail)
    BY <1>2, <1>4
  <2> QED
    BY <2>2, <2>3
<1>6. \A i \in 1 .. Len(o.trail) : (r.trail \o rest)[i] = o.trail[i]
  <2> HIDE DEF n, rest
  <2> SUFFICES ASSUME NEW i \in 1 .. Len(o.trail) PROVE (r.trail \o rest)[i] = o.trail[i]
    OBVIOUS
  <2>1. CASE i <= n
    BY <1>2, <1>5, <2>1
  <2>2. CASE i > n
    <3>1. i - n \in 1 .. Len(o.trail) - n /\ n + (i - n) = i
      BY <1>2, <2>2
    <3>2. rest[i - n] = o.trail[i]
      BY <1>4, <3>1
    <3> QED
      BY <1>2, <1>5, <2>2, <3>2
  <2>3. i <= n \/ i > n
    BY <1>2
  <2> QED
    BY <2>1, <2>2, <2>3
<1>7. r.trail \o rest = o.trail
  BY <1>1, <1>5, <1>6, SeqEqual
<1>8. r # NoOrder
  BY NoOrderIsNone
<1>9. Written(r, o) = [o EXCEPT !.trail = r.trail \o rest]
  BY <1>8 DEF Written
<1> QED
  BY <1>7, <1>9 DEF RealOrder
-----------------------------------------------------------------------------
(* What an answered placement does, once its path is known to be legal.    *)
Answered(h, path, id) == [Moved(OrderOf(h), path) EXCEPT !.bid = id]

LEMMA ReceiveFacts ==
  ASSUME IInv, NEW h \in Handlers, NEW path \in AnswerPaths, NEW id \in Nat,
         Receive(h, path, id)
  PROVE  /\ pc[h] = "placing" /\ key[h] \in Keys
         /\ OrderOf(h) \in RealOrder /\ Legal(OrderOf(h).status, path)
         /\ path \in Seq(Statuses) /\ path # <<>>
         /\ Answered(h, path, id) \in RealOrder
         /\ Counted(StackOf(h), key[h], Answered(h, path, id)) \in StackType
         /\ Keep(h, Counted(StackOf(h), key[h], Answered(h, path, id)))
         /\ At(h, "saving") /\ rows' = rows /\ sent' = sent
<1>1. pc[h] = "placing" /\ key[h] \in Keys /\ OrderOf(h) \in RealOrder /\ OrderOf(h).status = "SUBMITTED"
  BY DEF Receive, IInv, WorkInv
<1>2. Legal(OrderOf(h).status, path) /\ path \in Seq(Statuses) /\ path # <<>>
  BY <1>1, AnswersLegal
<1>3. Answered(h, path, id) \in RealOrder
  BY <1>1, <1>2, MovedOrder DEF Answered
<1>4. Counted(StackOf(h), key[h], Answered(h, path, id)) \in StackType
  BY <1>1, <1>3, HeldStack, CountedOrder DEF IInv
<1>5. /\ Keep(h, Counted(StackOf(h), key[h], Answered(h, path, id)))
      /\ At(h, "saving") /\ rows' = rows /\ sent' = sent
  BY <1>2 DEF Receive, Answered
<1> QED
  BY <1>1, <1>2, <1>3, <1>4, <1>5

(* Every order of a stack with one order replaced.                         *)
LEMMA CountedOrders ==
  ASSUME NEW s \in StackType, NEW k \in Keys, NEW o
  PROVE  /\ Counted(s, k, o).orders = [s.orders EXCEPT ![k] = o]
         /\ Counted(s, k, o).placed = s.placed + 1
         /\ \A j \in Keys : Counted(s, k, o).orders[j] = IF j = k THEN o ELSE s.orders[j]
BY DEF Counted, StackType

LEMMA ReplacedOrders ==
  ASSUME NEW s \in StackType, NEW k \in Keys, NEW o
  PROVE  /\ [s EXCEPT !.orders[k] = o].orders = [s.orders EXCEPT ![k] = o]
         /\ [s EXCEPT !.orders[k] = o].placed = s.placed
         /\ \A j \in Keys : [s EXCEPT !.orders[k] = o].orders[j] = IF j = k THEN o ELSE s.orders[j]
BY DEF StackType

LEMMA CreatedOrder == Created \in RealOrder /\ Created \in OrderType
<1>1. <<"CREATED", "VALIDATING", "RISK_APPROVED", "SUBMITTED">> \in Seq(Statuses)
  BY DEF Statuses
<1> QED
  BY <1>1 DEF Created, RealOrder, OrderType, Statuses, NoId

(* A cancelled order, as a confirmed cancel or a cancel without a broker   *)
(* id leaves it.                                                           *)
LEMMA CancelledOrder ==
  ASSUME NEW o \in RealOrder, o.status \in {"SUBMITTED", "ACKNOWLEDGED"}
  PROVE  /\ Moved(o, <<"CANCELLED">>) \in RealOrder /\ Moved(o, <<"CANCELLED">>) \in OrderType
         /\ Moved(o, <<"CANCELLED">>).bid = o.bid
         /\ Walk(o) => Walk(Moved(o, <<"CANCELLED">>)) /\ Extends(Moved(o, <<"CANCELLED">>), o)
<1>1. /\ <<"CANCELLED">> \in Seq(Statuses) /\ <<"CANCELLED">> # <<>>
      /\ Legal(o.status, <<"CANCELLED">>) /\ NoId \in Nat
  BY CancelLegal DEF NoId
<1>2. Moved(o, <<"CANCELLED">>) \in RealOrder
  BY <1>1, MovedOrder
<1>3. Moved(o, <<"CANCELLED">>).bid = o.bid
  BY DEF Moved, RealOrder
<1>4. Walk(o) => Walk(Moved(o, <<"CANCELLED">>)) /\ Extends(Moved(o, <<"CANCELLED">>), o)
  BY <1>1, MovedWalks
<1> QED
  BY <1>2, <1>3, <1>4 DEF OrderType

(* The two cancels that cancel.                                            *)
LEMMA ConfirmedFacts ==
  ASSUME IInv, NEW h \in Handlers, CancelConfirmed(h)
  PROVE  LET c == Moved(OrderOf(h), <<"CANCELLED">>)
             s == [StackOf(h) EXCEPT !.orders[key[h]] = c] IN
         /\ pc[h] = "cancelling" /\ key[h] \in Keys /\ OrderOf(h) \in RealOrder
         /\ OrderOf(h).status \in {"SUBMITTED", "ACKNOWLEDGED"}
         /\ c \in OrderType /\ s \in StackType /\ Keep(h, s) /\ At(h, "saving")
         /\ venue' = [venue EXCEPT ![key[h]][OrderOf(h).bid] = "CANCELLED"]
         /\ UNCHANGED <<rows, loose, sent, lapses, faults>>
<1> DEFINE c == Moved(OrderOf(h), <<"CANCELLED">>)
           s == [StackOf(h) EXCEPT !.orders[key[h]] = c]
           d == [StackOf(h) EXCEPT !.orders[key[h]] = Moved(@, <<"CANCELLED">>)]
<1>1. /\ pc[h] = "cancelling" /\ key[h] \in Keys /\ OrderOf(h) \in RealOrder
      /\ OrderOf(h).status \in {"SUBMITTED", "ACKNOWLEDGED"}
      /\ venue' = [venue EXCEPT ![key[h]][OrderOf(h).bid] = "CANCELLED"]
      /\ UNCHANGED <<rows, loose, sent, lapses, faults>>
  BY DEF CancelConfirmed, IInv, WorkInv
<1>2. c \in OrderType
  BY <1>1, CancelledOrder
<1>3. Keep(h, d) /\ At(h, "saving")
  BY <1>1, CancelLegal DEF CancelConfirmed
<1>4. d = s
  BY <1>1, HeldStack DEF OrderOf, IInv, StackType
<1>5. s \in StackType
  BY <1>1, <1>2, HeldStack, WithOrder DEF IInv
<1> QED
  BY <1>1, <1>2, <1>3, <1>4, <1>5

LEMMA BeginCancelFacts ==
  ASSUME IInv, NEW h \in Handlers, NEW k \in Keys, BeginCancel(h, k)
  PROVE  LET c == Moved(stack.orders[k], <<"CANCELLED">>)
             s == [stack EXCEPT !.orders[k] = c] IN
         /\ stack.orders[k] \in RealOrder
         /\ stack.orders[k].status \in {"SUBMITTED", "ACKNOWLEDGED"}
         /\ \/ Enter(h, k, "cancelling") /\ stack' = stack
            \/ /\ Enter(h, k, "saving") /\ stack.orders[k].bid = NoId
               /\ c \in OrderType /\ s \in StackType /\ stack' = s
         /\ UNCHANGED <<own, rows, venueVars, lapses, faults>>
<1> DEFINE c == Moved(stack.orders[k], <<"CANCELLED">>)
           s == [stack EXCEPT !.orders[k] = c]
<1>1. /\ stack.orders[k].status \in {"SUBMITTED", "ACKNOWLEDGED"}
      /\ UNCHANGED <<own, rows, venueVars, lapses, faults>>
  BY DEF BeginCancel
<1>2. stack.orders[k] \in RealOrder
  <2>1. stack.orders[k] \in OrderType
    BY DEF IInv, TypeOK, StackType
  <2>2. stack.orders[k] # NoOrder
    BY <1>1 DEF NoOrder
  <2> QED
    BY <2>1, <2>2 DEF OrderType
<1>3. c \in OrderType
  BY <1>1, <1>2, CancelledOrder
<1>4. s \in StackType
  BY <1>3, WithOrder DEF IInv, TypeOK
<1>5. \/ Enter(h, k, "cancelling") /\ stack' = stack
      \/ Enter(h, k, "saving") /\ stack.orders[k].bid = NoId /\ stack' = s
  BY DEF BeginCancel, IInv, TypeOK, StackType
<1> QED
  BY <1>1, <1>2, <1>3, <1>4, <1>5
-----------------------------------------------------------------------------
(* What the broker knows: its list only grows, and the dead stay dead.     *)
Stands(v, w) ==
  /\ Len(v) <= Len(w)
  /\ \A i \in 1 .. Len(v) : v[i] = "CANCELLED" => w[i] = "CANCELLED"

VenueStands == \A k \in Keys : Stands(venue[k], venue'[k])

LEMMA ThereStands ==
  ASSUME NEW v \in Seq(VenueStatuses), NEW w \in Seq(VenueStatuses), Stands(v, w),
         NEW o, There(v, o)
  PROVE  There(w, o)
BY LenProperties DEF Stands, There

LEMMA SameVenue ==
  ASSUME TypeOK, venue' = venue
  PROVE  VenueStands
BY LenProperties DEF TypeOK, VenueStands, Stands

(* The broker receives one more order.                                     *)
LEMMA ReachedVenue ==
  ASSUME TypeOK, NEW k \in Keys, NEW s \in VenueStatuses, Reaches(k, s)
  PROVE  /\ VenueStands
         /\ Len(venue'[k]) = Len(venue[k]) + 1
<1>1. \A j \in Keys : venue'[j] = IF j = k THEN Append(venue[k], s) ELSE venue[j]
  BY DEF TypeOK, Reaches
<1>2. venue \in [Keys -> Seq(VenueStatuses)]
  BY DEF TypeOK
<1>3. /\ Len(Append(venue[k], s)) = Len(venue[k]) + 1 /\ Len(venue[k]) \in Nat
      /\ \A i \in 1 .. Len(venue[k]) : Append(venue[k], s)[i] = venue[k][i]
  BY <1>2, AppendProperties, LenProperties
<1>4. Stands(venue[k], Append(venue[k], s))
  BY <1>3 DEF Stands
<1>5. \A j \in Keys : Stands(venue[j], venue'[j])
  <2> SUFFICES ASSUME NEW j \in Keys PROVE Stands(venue[j], venue'[j])
    OBVIOUS
  <2>1. CASE j = k
    BY <1>1, <1>4, <2>1
  <2>2. CASE j # k
    BY <1>1, <1>2, <2>2, LenProperties DEF Stands
  <2> QED
    BY <2>1, <2>2
<1> QED
  BY <1>1, <1>3, <1>5 DEF VenueStands

(* One entry is changed, not from dead to alive.                           *)
LEMMA MarkedVenue ==
  ASSUME TypeOK, NEW k \in Keys, NEW i \in Nat, NEW s \in VenueStatuses,
         venue' = [venue EXCEPT ![k][i] = s],
         s = "CANCELLED" \/ venue[k][i] # "CANCELLED"
  PROVE  VenueStands
<1>1. venue \in [Keys -> Seq(VenueStatuses)]
  BY DEF TypeOK
<1>2. \A j \in Keys : venue'[j] = IF j = k THEN [venue[k] EXCEPT ![i] = s] ELSE venue[j]
  BY <1>1
<1>3. Stands(venue[k], [venue[k] EXCEPT ![i] = s])
  <2>1. venue[k] \in Seq(VenueStatuses) /\ Len(venue[k]) \in Nat
    BY <1>1, LenProperties
  <2>2. CASE i \in 1 .. Len(venue[k])
    <3>1. /\ Len([venue[k] EXCEPT ![i] = s]) = Len(venue[k])
          /\ \A j \in 1 .. Len(venue[k]) :
               [venue[k] EXCEPT ![i] = s][j] = IF j = i THEN s ELSE venue[k][j]
      BY <2>1, <2>2, ExceptSeq
    <3> QED
      BY <2>1, <3>1 DEF Stands
  <2>3. CASE i \notin 1 .. Len(venue[k])
    <3>1. venue[k] = [j \in 1 .. Len(venue[k]) |-> venue[k][j]]
      BY <2>1, LenProperties
    <3>2. [venue[k] EXCEPT ![i] = s] = venue[k]
      BY <2>3, <3>1
    <3> QED
      BY <2>1, <3>2 DEF Stands
  <2> QED
    BY <2>2, <2>3
<1>4. \A j \in Keys : Stands(venue[j], venue'[j])
  <2> SUFFICES ASSUME NEW j \in Keys PROVE Stands(venue[j], venue'[j])
    OBVIOUS
  <2>1. CASE j = k
    BY <1>2, <1>3, <2>1
  <2>2. CASE j # k
    BY <1>1, <1>2, <2>2, LenProperties DEF Stands
  <2> QED
    BY <2>1, <2>2
<1> QED
  BY <1>4 DEF VenueStands

(* Whatever was there is still there.                                      *)
LEMMA BidsStand ==
  ASSUME TypeOK, TypeOK', BidInv, VenueStands
  PROVE  \A k \in Keys :
           /\ There(venue'[k], stack.orders[k]) /\ There(venue'[k], rows[k])
           /\ \A h \in Handlers : own[h] # Shared => There(venue'[k], own[h].orders[k])
           /\ \A h \in Handlers : There(venue'[k], StackOf(h).orders[k])
<1> SUFFICES ASSUME NEW k \in Keys
             PROVE  /\ There(venue'[k], stack.orders[k]) /\ There(venue'[k], rows[k])
                    /\ \A h \in Handlers : own[h] # Shared => There(venue'[k], own[h].orders[k])
                    /\ \A h \in Handlers : There(venue'[k], StackOf(h).orders[k])
  OBVIOUS
<1>1. venue[k] \in Seq(VenueStatuses) /\ venue'[k] \in Seq(VenueStatuses)
  BY DEF TypeOK
<1>2. Stands(venue[k], venue'[k])
  BY DEF VenueStands
<1>3. There(venue'[k], stack.orders[k]) /\ There(venue'[k], rows[k])
  BY <1>1, <1>2, ThereStands DEF BidInv
<1>4. \A h \in Handlers : own[h] # Shared => There(venue'[k], own[h].orders[k])
  BY <1>1, <1>2, ThereStands DEF BidInv
<1> QED
  BY <1>3, <1>4 DEF StackOf

(* No order changes.                                                       *)
LEMMA BidsStay ==
  ASSUME TypeOK, TypeOK', BidInv, VenueStands,
         stack' = stack \/ stack'.orders = rows, rows' = rows,
         \A h \in Handlers : own'[h] \in {own[h], stack, Shared}
  PROVE  BidInv'
<1> SUFFICES ASSUME NEW k \in Keys
             PROVE  /\ There(venue'[k], stack'.orders[k]) /\ There(venue'[k], rows'[k])
                    /\ \A h \in Handlers : own'[h] # Shared => There(venue'[k], own'[h].orders[k])
  BY DEF BidInv
<1> QED
  BY BidsStand

(* One order of the handler's stack changes.                               *)
LEMMA BidsKeep ==
  ASSUME TypeOK, TypeOK', BidInv, VenueStands, rows' = rows,
         NEW h \in Handlers, NEW s \in StackType, Keep(h, s), NEW k \in Keys, NEW o,
         \A j \in Keys : s.orders[j] = IF j = k THEN o ELSE StackOf(h).orders[j],
         There(venue'[k], o)
  PROVE  BidInv'
<1>1. \A j \in Keys : There(venue'[j], s.orders[j])
  BY BidsStand
<1> SUFFICES ASSUME NEW j \in Keys
             PROVE  /\ There(venue'[j], stack'.orders[j]) /\ There(venue'[j], rows'[j])
                    /\ \A g \in Handlers : own'[g] # Shared => There(venue'[j], own'[g].orders[j])
  BY DEF BidInv
<1>2. There(venue'[j], rows'[j])
  BY BidsStand
<1>3. CASE own[h] = Shared
  <2>1. stack' = s /\ own' = own
    BY <1>3 DEF Keep
  <2> QED
    BY <1>1, <1>2, <2>1, BidsStand
<1>4. CASE own[h] # Shared
  <2>1. stack' = stack /\ own'[h] = s /\ \A g \in Handlers : g # h => own'[g] = own[g]
    BY <1>4 DEF Keep, TypeOK
  <2> QED
    BY <1>1, <1>2, <2>1, BidsStand
<1> QED
  BY <1>3, <1>4
-----------------------------------------------------------------------------
(* BidInv through every action.                                            *)
LEMMA BidsReceive ==
  ASSUME IInv, IInv', BidInv, VenueStands,
         NEW h \in Handlers, NEW path \in AnswerPaths, NEW id \in Nat, Receive(h, path, id),
         id # NoId => id \in 1 .. Len(venue'[key[h]])
  PROVE  BidInv'
<1> DEFINE o == Answered(h, path, id)
           s == Counted(StackOf(h), key[h], o)
<1>1. /\ key[h] \in Keys /\ OrderOf(h) \in RealOrder /\ Keep(h, s) /\ s \in StackType
      /\ rows' = rows /\ path # <<>> /\ path \in Seq(Statuses)
  BY ReceiveFacts
<1>2. o.bid = id /\ o.status = Last(path)
  BY <1>1 DEF Answered, Moved, RealOrder
<1>3. Last(path) # "CANCELLED"
  BY DEF AnswerPaths, Last
<1>4. There(venue'[key[h]], o)
  BY <1>2, <1>3 DEF There
<1>5. \A j \in Keys : s.orders[j] = IF j = key[h] THEN o ELSE StackOf(h).orders[j]
  <2>1. PICK p \in StackType, k \in Keys, n \in {o} : p = StackOf(h) /\ k = key[h] /\ n = o
    BY <1>1, HeldStack DEF IInv
  <2>2. \A j \in Keys : Counted(p, k, n).orders[j] = IF j = k THEN n ELSE p.orders[j]
    BY DEF Counted, StackType
  <2> QED
    BY <2>1, <2>2
<1> HIDE DEF o, s
<1>6. PICK k \in Keys, t \in StackType : k = key[h] /\ t = s
  BY <1>1
<1>7. /\ \A j \in Keys : t.orders[j] = IF j = k THEN o ELSE StackOf(h).orders[j]
      /\ Keep(h, t) /\ There(venue'[k], o) /\ TypeOK /\ TypeOK'
  BY <1>1, <1>4, <1>5, <1>6 DEF IInv
<1> QED
  BY <1>1, <1>7, BidsKeep

LEMMA BidsAccept ==
  ASSUME IInv, IInv', BidInv, NEW h \in Handlers,
         NEW s \in {"ACKNOWLEDGED", "PARTIALLY_FILLED", "FILLED"}, Accept(h, s)
  PROVE  BidInv'
<1> DEFINE path == CASE s = "ACKNOWLEDGED"     -> <<"ACKNOWLEDGED">>
                     [] s = "PARTIALLY_FILLED" -> <<"ACKNOWLEDGED", "PARTIALLY_FILLED">>
                     [] s = "FILLED"           -> <<"ACKNOWLEDGED", "FILLED", "MONITORING">>
<1>1. path \in AnswerPaths
  BY DEF AnswerPaths
<1>2. Receive(h, path, NewId(h)) /\ Reaches(key[h], s)
  BY DEF Accept
<1>3. key[h] \in Keys
  BY <1>2 DEF Receive, IInv, WorkInv
<1>4. VenueStands /\ Len(venue'[key[h]]) = Len(venue[key[h]]) + 1
  BY <1>2, <1>3, ReachedVenue DEF IInv, VenueStatuses, VenueLive
<1>5. NewId(h) \in Nat /\ NewId(h) \in 1 .. Len(venue'[key[h]])
  BY <1>3, <1>4, LenProperties DEF NewId, IInv, TypeOK
<1> HIDE DEF path
<1> QED
  BY <1>1, <1>2, <1>4, <1>5, BidsReceive

LEMMA BidsRefused ==
  ASSUME IInv, IInv', BidInv, NEW h \in Handlers, Reject(h) \/ GatewayError(h) \/ Unanswered(h)
  PROVE  BidInv'
<1>1. <<"REJECTED">> \in AnswerPaths /\ <<"FAILED">> \in AnswerPaths /\ NoId \in Nat
  BY DEF AnswerPaths, NoId
<1>2. VenueStands
  BY SameVenue DEF IInv, Reject, GatewayError, Unanswered
<1>3. Receive(h, <<"REJECTED">>, NoId) \/ Receive(h, <<"FAILED">>, NoId)
  BY DEF Reject, GatewayError, Unanswered
<1> QED
  BY <1>1, <1>2, <1>3, BidsReceive

LEMMA BidsSubmit ==
  ASSUME IInv, IInv', BidInv, NEW h \in Handlers, Submit(h)
  PROVE  BidInv'
<1> DEFINE s == [StackOf(h) EXCEPT !.orders[key[h]] = Created]
<1>1. key[h] \in Keys /\ Keep(h, s) /\ rows' = rows /\ venue' = venue
  BY DEF Submit, IInv, WorkInv
<1>2. \A j \in Keys : s.orders[j] = IF j = key[h] THEN Created ELSE StackOf(h).orders[j]
  <2>1. PICK p \in StackType, k \in Keys : p = StackOf(h) /\ k = key[h]
    BY <1>1, HeldStack DEF IInv
  <2>2. \A j \in Keys : [p EXCEPT !.orders[k] = Created].orders[j] = IF j = k THEN Created ELSE p.orders[j]
    BY ReplacedOrders
  <2> QED
    BY <2>1, <2>2
<1>3. s \in StackType
  BY <1>1, HeldStack, WithOrder, CreatedOrder DEF IInv
<1>4. There(venue'[key[h]], Created)
  BY DEF There, Created
<1>5. VenueStands
  BY <1>1, SameVenue DEF IInv
<1> HIDE DEF s
<1>6. PICK k \in Keys, t \in StackType : k = key[h] /\ t = s
  BY <1>1, <1>3
<1>7. /\ \A j \in Keys : t.orders[j] = IF j = k THEN Created ELSE StackOf(h).orders[j]
      /\ Keep(h, t) /\ There(venue'[k], Created) /\ TypeOK /\ TypeOK'
  BY <1>1, <1>2, <1>4, <1>6 DEF IInv
<1> QED
  BY <1>1, <1>5, <1>7, BidsKeep

LEMMA BidsConfirmed ==
  ASSUME IInv, IInv', BidInv, NEW h \in Handlers, CancelConfirmed(h)
  PROVE  BidInv'
<1> DEFINE c == Moved(OrderOf(h), <<"CANCELLED">>)
           s == [StackOf(h) EXCEPT !.orders[key[h]] = c]
<1>1. /\ key[h] \in Keys /\ OrderOf(h) \in RealOrder
      /\ OrderOf(h).status \in {"SUBMITTED", "ACKNOWLEDGED"}
      /\ s \in StackType /\ Keep(h, s) /\ rows' = rows
      /\ venue' = [venue EXCEPT ![key[h]][OrderOf(h).bid] = "CANCELLED"]
  BY ConfirmedFacts
<1>2. PICK k \in Keys, i \in Nat, t \in StackType, o \in {c} : k = key[h] /\ i = OrderOf(h).bid /\ t = s /\ o = c
  BY <1>1 DEF RealOrder
<1>3. \A j \in Keys : t.orders[j] = IF j = k THEN o ELSE StackOf(h).orders[j]
  BY <1>1, <1>2, HeldStack, ReplacedOrders DEF IInv
<1>4. c.bid = OrderOf(h).bid
  BY <1>1, CancelledOrder
<1>5. VenueStands
  <2>1. venue' = [venue EXCEPT ![k][i] = "CANCELLED"] /\ TypeOK /\ "CANCELLED" \in VenueStatuses
    BY <1>1, <1>2 DEF IInv, VenueStatuses
  <2> QED
    BY <2>1, MarkedVenue
<1>6. There(venue'[k], o)
  <2> SUFFICES ASSUME i # NoId PROVE i \in 1 .. Len(venue'[k]) /\ venue'[k][i] = "CANCELLED"
    BY <1>2, <1>4 DEF There
  <2>1. venue[k] \in Seq(VenueStatuses) /\ venue \in [Keys -> Seq(VenueStatuses)]
    BY DEF IInv, TypeOK
  <2>2. i \in 1 .. Len(venue[k])
    <3>1. There(venue[k], OrderOf(h))
      BY <1>2 DEF BidInv, OrderOf, StackOf
    <3> QED
      BY <1>1, <1>2, <3>1, NoOrderIsNone DEF There
  <2>3. venue'[k] = [venue[k] EXCEPT ![i] = "CANCELLED"]
    BY <1>1, <1>2, <2>1
  <2>4. "CANCELLED" \in VenueStatuses
    BY DEF VenueStatuses
  <2> QED
    BY <2>1, <2>2, <2>3, <2>4, ExceptSeq
<1> HIDE DEF s, c
<1>7. Keep(h, t) /\ TypeOK /\ TypeOK'
  BY <1>1, <1>2 DEF IInv
<1> QED
  BY <1>1, <1>3, <1>5, <1>6, <1>7, BidsKeep

LEMMA BidsBeginCancel ==
  ASSUME IInv, IInv', BidInv, NEW h \in Handlers, NEW k \in Keys, BeginCancel(h, k)
  PROVE  BidInv'
<1> DEFINE c == Moved(stack.orders[k], <<"CANCELLED">>)
           s == [stack EXCEPT !.orders[k] = c]
<1>1. /\ stack.orders[k] \in RealOrder
      /\ stack.orders[k].status \in {"SUBMITTED", "ACKNOWLEDGED"}
      /\ \/ Enter(h, k, "cancelling") /\ stack' = stack
         \/ /\ Enter(h, k, "saving") /\ stack.orders[k].bid = NoId
            /\ c \in OrderType /\ s \in StackType /\ stack' = s
      /\ own' = own /\ rows' = rows /\ venue' = venue
  BY BeginCancelFacts DEF venueVars
<1>2. VenueStands /\ TypeOK /\ TypeOK'
  BY <1>1, SameVenue DEF IInv
<1>3. CASE stack' = stack
  BY <1>1, <1>2, <1>3, BidsStay
<1>4. CASE /\ Enter(h, k, "saving") /\ stack.orders[k].bid = NoId
           /\ c \in OrderType /\ s \in StackType /\ stack' = s
  <2>1. own[h] = Shared
    BY <1>4 DEF Enter, IInv, WorkInv
  <2>2. c.bid = NoId
    BY <1>1, <1>4, CancelledOrder
  <2>3. \A j \in Keys : s.orders[j] = IF j = k THEN c ELSE StackOf(h).orders[j]
    <3>1. PICK p \in StackType, n \in {c} : p = stack /\ n = c
      BY DEF IInv, TypeOK
    <3>2. \A j \in Keys : [p EXCEPT !.orders[k] = n].orders[j] = IF j = k THEN n ELSE p.orders[j]
      BY ReplacedOrders
    <3> QED
      BY <2>1, <3>1, <3>2 DEF StackOf
  <2>4. There(venue'[k], c)
    BY <2>2 DEF There
  <2>5. Keep(h, s)
    BY <1>1, <1>4, <2>1 DEF Keep
  <2> HIDE DEF s, c
  <2>6. PICK t \in StackType : t = s
    BY <1>4
  <2>7. PICK o : o = c
    OBVIOUS
  <2>8. \A j \in Keys : t.orders[j] = IF j = k THEN o ELSE StackOf(h).orders[j]
    BY <2>3, <2>6, <2>7
  <2>9. Keep(h, t) /\ There(venue'[k], o)
    BY <2>4, <2>5, <2>6, <2>7
  <2> QED
    BY <1>1, <1>2, <2>8, <2>9, BidsKeep
<1> QED
  BY <1>1, <1>3, <1>4

LEMMA BidsQuiet ==
  ASSUME IInv, IInv', BidInv,
         \/ \E h \in Handlers, k \in Keys : BeginPlace(h, k)
         \/ \E h \in Handlers : Refuse(h) \/ Dedupe(h) \/ PlaceRaises(h) \/ SaveRaises(h)
         \/ UNCHANGED vars
  PROVE  BidInv'
<1>1. stack' = stack /\ rows' = rows /\ venue' = venue
  BY DEF BeginPlace, Refuse, Dedupe, PlaceRaises, SaveRaises, venueVars, vars
<1>2. \A h \in Handlers : own'[h] \in {own[h], Shared}
  <2>1. CASE own' = own
    BY <2>1
  <2>2. CASE \E g \in Handlers : own' = [own EXCEPT ![g] = Shared]
    BY <2>2 DEF IInv, TypeOK
  <2> QED
    BY <2>1, <2>2 DEF BeginPlace, Refuse, Dedupe, PlaceRaises, SaveRaises, Leave, vars
<1>3. VenueStands /\ TypeOK /\ TypeOK'
  BY <1>1, SameVenue DEF IInv
<1> QED
  BY <1>1, <1>2, <1>3, BidsStay

LEMMA BidsVenue ==
  ASSUME IInv, IInv', BidInv,
         (\E h \in Handlers : CancelFails(h)) \/ (\E k \in Keys : Late(k) \/ VenueFills(k))
  PROVE  BidInv'
<1>1. TypeOK /\ TypeOK'
  BY DEF IInv
<1>2. ASSUME NEW h \in Handlers, CancelFails(h) PROVE BidInv'
  <2>1. /\ key[h] \in Keys /\ OrderOf(h) \in RealOrder /\ stack' = stack /\ rows' = rows
        /\ own' = [own EXCEPT ![h] = Shared]
        /\ venue' = venue \/ venue' = [venue EXCEPT ![key[h]][OrderOf(h).bid] = "CANCELLED"]
    BY <1>2 DEF CancelFails, Leave, IInv, WorkInv
  <2>2. VenueStands
    <3>1. CASE venue' = venue
      BY <1>1, <3>1, SameVenue
    <3>2. CASE venue' = [venue EXCEPT ![key[h]][OrderOf(h).bid] = "CANCELLED"]
      <4>1. PICK k \in Keys, i \in Nat : k = key[h] /\ i = OrderOf(h).bid
        BY <2>1 DEF RealOrder
      <4>2. venue' = [venue EXCEPT ![k][i] = "CANCELLED"] /\ "CANCELLED" \in VenueStatuses
        BY <3>2, <4>1 DEF VenueStatuses
      <4> QED
        BY <1>1, <4>2, MarkedVenue
    <3> QED
      BY <2>1, <3>1, <3>2
  <2>3. \A g \in Handlers : own'[g] \in {own[g], Shared}
    BY <2>1 DEF IInv, TypeOK
  <2> QED
    BY <1>1, <2>1, <2>2, <2>3, BidsStay
<1>3. ASSUME NEW k \in Keys, Late(k) PROVE BidInv'
  <2>1. /\ stack' = stack /\ rows' = rows /\ own' = own
        /\ venue' = venue \/ Reaches(k, "ACKNOWLEDGED")
    BY <1>3 DEF Late
  <2>2. "ACKNOWLEDGED" \in VenueStatuses
    BY DEF VenueStatuses, VenueLive
  <2>3. VenueStands
    BY <1>1, <2>1, <2>2, SameVenue, ReachedVenue
  <2> QED
    BY <1>1, <2>1, <2>3, BidsStay
<1>4. ASSUME NEW k \in Keys, VenueFills(k) PROVE BidInv'
  <2>1. PICK i \in DOMAIN venue[k], s \in {"PARTIALLY_FILLED", "FILLED"} :
          venue[k][i] \in VenueLive /\ venue' = [venue EXCEPT ![k][i] = s]
    BY <1>4 DEF VenueFills
  <2>2. i \in Nat /\ s \in VenueStatuses /\ venue[k][i] # "CANCELLED"
    BY <2>1, LenProperties DEF IInv, TypeOK, VenueStatuses, VenueLive
  <2>3. VenueStands
    BY <1>1, <2>1, <2>2, MarkedVenue
  <2>4. stack' = stack /\ rows' = rows /\ own' = own
    BY <1>4 DEF VenueFills
  <2> QED
    BY <1>1, <2>3, <2>4, BidsStay
<1> QED
  BY <1>2, <1>3, <1>4

(* The row takes the order's broker id and status.                         *)
LEMMA BidsSave ==
  ASSUME IInv, IInv', BidInv, NEW h \in Handlers, Save(h)
  PROVE  BidInv'
<1>1. /\ key[h] \in Keys /\ OrderOf(h) \in RealOrder /\ venue' = venue /\ stack' = stack
      /\ own' = [own EXCEPT ![h] = Shared]
      /\ rows' = [rows EXCEPT ![key[h]] = Written(rows[key[h]], OrderOf(h))]
  BY DEF Save, Leave, venueVars, IInv, WorkInv
<1>2. VenueStands /\ TypeOK /\ TypeOK'
  BY <1>1, SameVenue DEF IInv
<1>3. There(venue[key[h]], Written(rows[key[h]], OrderOf(h)))
  <2>1. There(venue[key[h]], OrderOf(h)) /\ OrderOf(h) # NoOrder
    BY <1>1, NoOrderIsNone DEF BidInv, OrderOf, StackOf
  <2>2. /\ Written(rows[key[h]], OrderOf(h)).bid = OrderOf(h).bid
        /\ Written(rows[key[h]], OrderOf(h)).status = OrderOf(h).status
    BY <1>1 DEF Written, RealOrder
  <2> QED
    BY <2>1, <2>2 DEF There
<1>4. \A k \in Keys : rows'[k] = IF k = key[h] THEN Written(rows[key[h]], OrderOf(h)) ELSE rows[k]
  BY <1>1 DEF IInv, TypeOK
<1>5. \A g \in Handlers : own'[g] # Shared => own'[g] = own[g]
  BY <1>1 DEF IInv, TypeOK
<1> SUFFICES ASSUME NEW k \in Keys
             PROVE  /\ There(venue'[k], stack'.orders[k]) /\ There(venue'[k], rows'[k])
                    /\ \A g \in Handlers : own'[g] # Shared => There(venue'[k], own'[g].orders[k])
  BY DEF BidInv
<1>6. There(venue'[k], rows'[k])
  BY <1>1, <1>3, <1>4 DEF BidInv
<1> QED
  BY <1>1, <1>5, <1>6 DEF BidInv

LEMMA BidsRestored ==
  ASSUME IInv, IInv', BidInv, Rebuild \/ Crash
  PROVE  BidInv'
<1>1. stack'.orders = rows /\ rows' = rows /\ venue' = venue
  BY DEF Rebuild, Crash, Restored, venueVars
<1>2. \A h \in Handlers : own'[h] \in {own[h], stack, Shared}
  BY DEF Rebuild, Crash
<1>3. VenueStands /\ TypeOK /\ TypeOK'
  BY <1>1, SameVenue DEF IInv
<1> QED
  BY <1>1, <1>2, <1>3, BidsStay

LEMMA BidsInductive == IInv /\ IInv' /\ BidInv /\ [Next]_vars => BidInv'
<1> SUFFICES ASSUME IInv, IInv', BidInv, [Next]_vars PROVE BidInv'
  OBVIOUS
<1>1. ASSUME NEW h \in Handlers, NEW k \in Keys, BeginPlace(h, k) \/ BeginCancel(h, k)
      PROVE  BidInv'
  BY <1>1, BidsQuiet, BidsBeginCancel
<1>2. ASSUME NEW h \in Handlers, Refuse(h) \/ Submit(h) \/ Dedupe(h)
      PROVE  BidInv'
  BY <1>2, BidsQuiet, BidsSubmit
<1>3. ASSUME NEW h \in Handlers, NEW s \in {"ACKNOWLEDGED", "PARTIALLY_FILLED", "FILLED"},
             Accept(h, s)
      PROVE  BidInv'
  BY <1>3, BidsAccept
<1>4. ASSUME NEW h \in Handlers, Reject(h) \/ GatewayError(h) \/ Unanswered(h)
      PROVE  BidInv'
  BY <1>4, BidsRefused
<1>5. ASSUME NEW h \in Handlers, CancelConfirmed(h) \/ CancelFails(h) \/ PlaceRaises(h)
      PROVE  BidInv'
  BY <1>5, BidsConfirmed, BidsVenue, BidsQuiet
<1>6. ASSUME NEW h \in Handlers, Save(h) \/ SaveRaises(h)
      PROVE  BidInv'
  BY <1>6, BidsSave, BidsQuiet
<1>7. ASSUME NEW k \in Keys, Late(k) \/ VenueFills(k)
      PROVE  BidInv'
  BY <1>7, BidsVenue
<1>8. CASE Rebuild \/ Crash
  BY <1>8, BidsRestored
<1>9. CASE UNCHANGED vars
  BY <1>9, BidsQuiet
<1> QED
  BY <1>1, <1>2, <1>3, <1>4, <1>5, <1>6, <1>7, <1>8, <1>9 DEF Next, Proceed

(* An order the broker knows is CANCELLED here only if it is dead there,   *)
(* through failed cancels, replaced stacks and restarts (cancel_order).    *)
THEOREM CancelledOrdersAreDead == Spec => []CancelledIsDead
<1>1. Init => BidInv
  BY DEF Init, BidInv, There
<1>2. Spec => []BidInv
  BY <1>1, Invariant, BidsInductive, PTL DEF Spec
<1>3. BidInv => CancelledIsDead
  BY DEF BidInv, There, CancelledIsDead, NoOrder
<1> QED
  BY <1>2, <1>3, PTL
-----------------------------------------------------------------------------
(* TrailInv through every action.                                          *)
LEMMA CreatedWalks == Walk(Created)
<1>1. /\ "VALIDATING" \in Allowed("CREATED") /\ "RISK_APPROVED" \in Allowed("VALIDATING")
      /\ "SUBMITTED" \in Allowed("RISK_APPROVED")
  BY DEF Allowed
<1> QED
  BY <1>1 DEF Walk, Created, Last

(* Neither an order nor a row changes.                                     *)
LEMMA TrailsStay ==
  ASSUME TypeOK, TrailInv, stack' = stack, rows' = rows, lapses \subseteq lapses',
         "rebuilt" \notin lapses' => \A h \in Handlers : own'[h] \in {own[h], Shared}
  PROVE  TrailInv'
<1> SUFFICES ASSUME "rebuilt" \notin lapses'
             PROVE  /\ \A h \in Handlers : own'[h] = Shared
                    /\ \A k \in Keys : stack'.orders[k] # NoOrder => Walk(stack'.orders[k])
                    /\ \A k \in Keys : rows'[k] # NoOrder =>
                         /\ stack'.orders[k] # NoOrder /\ Walk(rows'[k])
                         /\ Extends(stack'.orders[k], rows'[k])
  BY DEF TrailInv
<1>1. "rebuilt" \notin lapses
  OBVIOUS
<1> QED
  BY <1>1 DEF TrailInv

(* One order of the book is replaced by one that continues it.             *)
LEMMA TrailsKeep ==
  ASSUME TypeOK, TrailInv, rows' = rows, lapses' = lapses,
         NEW k \in Keys, NEW o \in RealOrder,
         "rebuilt" \notin lapses =>
           /\ \A j \in Keys : stack'.orders[j] = IF j = k THEN o ELSE stack.orders[j]
           /\ own' = own
           /\ Walk(o)
           /\ stack.orders[k] # NoOrder => Extends(o, stack.orders[k])
  PROVE  TrailInv'
<1> SUFFICES ASSUME "rebuilt" \notin lapses
             PROVE  /\ \A h \in Handlers : own'[h] = Shared
                    /\ \A j \in Keys : stack'.orders[j] # NoOrder => Walk(stack'.orders[j])
                    /\ \A j \in Keys : rows'[j] # NoOrder =>
                         /\ stack'.orders[j] # NoOrder /\ Walk(rows'[j])
                         /\ Extends(stack'.orders[j], rows'[j])
  BY DEF TrailInv
<1>1. \A h \in Handlers : own'[h] = Shared
  BY DEF TrailInv
<1>2. \A j \in Keys : stack'.orders[j] # NoOrder => Walk(stack'.orders[j])
  BY DEF TrailInv
<1>3. ASSUME NEW j \in Keys, rows[j] # NoOrder
      PROVE  stack'.orders[j] # NoOrder /\ Walk(rows[j]) /\ Extends(stack'.orders[j], rows[j])
  <2>1. stack.orders[j] # NoOrder /\ Walk(rows[j]) /\ Extends(stack.orders[j], rows[j])
    BY <1>3 DEF TrailInv
  <2>2. rows[j] \in RealOrder /\ stack.orders[j] \in RealOrder
    BY <1>3, <2>1 DEF TypeOK, OrderType, StackType
  <2>3. CASE j = k
    <3>1. Extends(o, rows[j])
      BY <2>1, <2>2, <2>3, ExtendsTrans
    <3> QED
      BY <2>1, <2>3, <3>1, NoOrderIsNone
  <2>4. CASE j # k
    BY <2>1, <2>4
  <2> QED
    BY <2>3, <2>4
<1> QED
  BY <1>1, <1>2, <1>3

LEMMA TrailsReceive ==
  ASSUME IInv, TrailInv, NEW h \in Handlers, NEW path \in AnswerPaths, NEW id \in Nat,
         Receive(h, path, id), lapses' = lapses
  PROVE  TrailInv'
<1> DEFINE o == Answered(h, path, id)
           s == Counted(StackOf(h), key[h], o)
<1>1. /\ key[h] \in Keys /\ OrderOf(h) \in RealOrder /\ o \in RealOrder /\ Keep(h, s)
      /\ rows' = rows /\ path # <<>> /\ path \in Seq(Statuses) /\ Legal(OrderOf(h).status, path)
  BY ReceiveFacts
<1>2. PICK k \in Keys, p \in RealOrder, n \in RealOrder : k = key[h] /\ p = OrderOf(h) /\ n = o
  BY <1>1
<1>3. Walk(p) => Walk(n) /\ Extends(n, p)
  <2>1. Legal(p.status, path) /\ n = [Moved(p, path) EXCEPT !.bid = id]
    BY <1>1, <1>2 DEF Answered
  <2> QED
    BY <1>1, <2>1, MovedWalks
<1> HIDE DEF o
<1>4. ASSUME "rebuilt" \notin lapses
      PROVE  /\ \A j \in Keys : stack'.orders[j] = IF j = k THEN n ELSE stack.orders[j]
             /\ own' = own /\ p = stack.orders[k] /\ Walk(p)
  <2>1. own[h] = Shared
    BY <1>4 DEF TrailInv
  <2>2. stack' = Counted(stack, k, n) /\ own' = own /\ p = stack.orders[k]
    BY <1>1, <1>2, <2>1 DEF Keep, StackOf, OrderOf
  <2>3. PICK t \in StackType : t = stack
    BY DEF IInv, TypeOK
  <2>4. \A j \in Keys : Counted(t, k, n).orders[j] = IF j = k THEN n ELSE t.orders[j]
    BY DEF Counted, StackType
  <2>5. Walk(p)
    BY <1>4, <2>2, NoOrderIsNone DEF TrailInv
  <2> QED
    BY <2>2, <2>3, <2>4, <2>5
<1>5. TypeOK
  BY DEF IInv
<1> QED
  BY <1>1, <1>3, <1>4, <1>5, TrailsKeep

LEMMA TrailsAnswer ==
  ASSUME IInv, TrailInv, NEW h \in Handlers,
         \/ \E s \in {"ACKNOWLEDGED", "PARTIALLY_FILLED", "FILLED"} : Accept(h, s)
         \/ Reject(h) \/ GatewayError(h) \/ Unanswered(h)
  PROVE  TrailInv'
<1>1. ASSUME NEW s \in {"ACKNOWLEDGED", "PARTIALLY_FILLED", "FILLED"}, Accept(h, s)
      PROVE  TrailInv'
  <2> DEFINE path == CASE s = "ACKNOWLEDGED"     -> <<"ACKNOWLEDGED">>
                       [] s = "PARTIALLY_FILLED" -> <<"ACKNOWLEDGED", "PARTIALLY_FILLED">>
                       [] s = "FILLED"           -> <<"ACKNOWLEDGED", "FILLED", "MONITORING">>
  <2>1. path \in AnswerPaths
    BY DEF AnswerPaths
  <2>2. Receive(h, path, NewId(h)) /\ lapses' = lapses
    BY <1>1 DEF Accept
  <2>3. NewId(h) \in Nat
    BY <2>2, LenProperties DEF NewId, Receive, IInv, TypeOK, WorkInv
  <2> HIDE DEF path
  <2> QED
    BY <2>1, <2>2, <2>3, TrailsReceive
<1>2. ASSUME Reject(h) \/ GatewayError(h) \/ Unanswered(h) PROVE TrailInv'
  <2>1. <<"REJECTED">> \in AnswerPaths /\ <<"FAILED">> \in AnswerPaths /\ NoId \in Nat
    BY DEF AnswerPaths, NoId
  <2>2. (Receive(h, <<"REJECTED">>, NoId) \/ Receive(h, <<"FAILED">>, NoId)) /\ lapses' = lapses
    BY <1>2 DEF Reject, GatewayError, Unanswered
  <2> QED
    BY <2>1, <2>2, TrailsReceive
<1> QED
  BY <1>1, <1>2

LEMMA TrailsSubmit ==
  ASSUME IInv, TrailInv, NEW h \in Handlers, Submit(h)
  PROVE  TrailInv'
<1>1. PICK k \in Keys : k = key[h]
  BY DEF Submit, IInv, WorkInv
<1>2. OrderOf(h) = NoOrder /\ rows' = rows /\ lapses' = lapses
  BY DEF Submit
<1>3. Keep(h, [StackOf(h) EXCEPT !.orders[k] = Created])
  BY <1>1 DEF Submit
<1>4. ASSUME "rebuilt" \notin lapses
      PROVE  /\ \A j \in Keys : stack'.orders[j] = IF j = k THEN Created ELSE stack.orders[j]
             /\ own' = own /\ stack.orders[k] = NoOrder
  <2>1. own[h] = Shared
    BY <1>4 DEF TrailInv
  <2>2. PICK t \in StackType : t = stack
    BY DEF IInv, TypeOK
  <2>3. stack' = [t EXCEPT !.orders[k] = Created] /\ own' = own /\ stack.orders[k] = NoOrder
    BY <1>1, <1>2, <1>3, <2>1, <2>2 DEF Keep, StackOf, OrderOf
  <2>4. \A j \in Keys : [t EXCEPT !.orders[k] = Created].orders[j] = IF j = k THEN Created ELSE t.orders[j]
    BY ReplacedOrders
  <2> QED
    BY <2>2, <2>3, <2>4
<1>5. TypeOK
  BY DEF IInv
<1> QED
  BY <1>2, <1>4, <1>5, CreatedOrder, CreatedWalks, TrailsKeep

LEMMA TrailsConfirmed ==
  ASSUME IInv, TrailInv, NEW h \in Handlers, CancelConfirmed(h)
  PROVE  TrailInv'
<1> DEFINE c == Moved(OrderOf(h), <<"CANCELLED">>)
           s == [StackOf(h) EXCEPT !.orders[key[h]] = c]
<1>1. /\ key[h] \in Keys /\ OrderOf(h) \in RealOrder
      /\ OrderOf(h).status \in {"SUBMITTED", "ACKNOWLEDGED"}
      /\ Keep(h, s) /\ rows' = rows /\ lapses' = lapses
  BY ConfirmedFacts
<1>2. PICK k \in Keys, p \in RealOrder : k = key[h] /\ p = OrderOf(h)
  BY <1>1
<1>3. PICK n \in RealOrder : n = Moved(p, <<"CANCELLED">>)
  BY <1>1, <1>2, CancelledOrder
<1>4. Walk(p) => Walk(n) /\ Extends(n, p)
  BY <1>1, <1>2, <1>3, CancelledOrder
<1>5. Keep(h, [StackOf(h) EXCEPT !.orders[k] = n])
  BY <1>1, <1>2, <1>3
<1> HIDE DEF c, s
<1>6. ASSUME "rebuilt" \notin lapses
      PROVE  /\ \A j \in Keys : stack'.orders[j] = IF j = k THEN n ELSE stack.orders[j]
             /\ own' = own /\ p = stack.orders[k] /\ Walk(p)
  <2>1. own[h] = Shared
    BY <1>6 DEF TrailInv
  <2>2. PICK t \in StackType : t = stack
    BY DEF IInv, TypeOK
  <2>3. stack' = [t EXCEPT !.orders[k] = n] /\ own' = own /\ p = stack.orders[k]
    BY <1>2, <1>5, <2>1, <2>2 DEF Keep, StackOf, OrderOf
  <2>4. \A j \in Keys : [t EXCEPT !.orders[k] = n].orders[j] = IF j = k THEN n ELSE t.orders[j]
    BY ReplacedOrders
  <2>5. Walk(p)
    BY <1>6, <2>3, NoOrderIsNone DEF TrailInv
  <2> QED
    BY <2>2, <2>3, <2>4, <2>5
<1>7. TypeOK
  BY DEF IInv
<1> QED
  BY <1>1, <1>4, <1>6, <1>7, TrailsKeep

LEMMA TrailsBeginCancel ==
  ASSUME IInv, TrailInv, NEW h \in Handlers, NEW k \in Keys, BeginCancel(h, k)
  PROVE  TrailInv'
<1> DEFINE c == Moved(stack.orders[k], <<"CANCELLED">>)
           s == [stack EXCEPT !.orders[k] = c]
<1>1. /\ stack.orders[k] \in RealOrder
      /\ stack.orders[k].status \in {"SUBMITTED", "ACKNOWLEDGED"}
      /\ stack' = stack \/ stack' = s
      /\ own' = own /\ rows' = rows /\ lapses' = lapses
  BY BeginCancelFacts
<1>2. TypeOK
  BY DEF IInv
<1>3. CASE stack' = stack
  BY <1>1, <1>2, <1>3, TrailsStay
<1>4. CASE stack' = s
  <2>1. PICK t \in StackType, p \in RealOrder : t = stack /\ p = stack.orders[k]
    BY <1>1 DEF IInv, TypeOK
  <2>2. PICK n \in RealOrder : n = Moved(p, <<"CANCELLED">>)
    BY <1>1, <2>1, CancelledOrder
  <2>3. Walk(p) => Walk(n) /\ Extends(n, p)
    BY <1>1, <2>1, <2>2, CancelledOrder
  <2>4. stack' = [t EXCEPT !.orders[k] = n]
    BY <1>4, <2>1, <2>2
  <2> HIDE DEF c, s
  <2>5. \A j \in Keys : [t EXCEPT !.orders[k] = n].orders[j] = IF j = k THEN n ELSE t.orders[j]
    BY ReplacedOrders
  <2>6. "rebuilt" \notin lapses => Walk(p)
    BY <2>1, NoOrderIsNone DEF TrailInv
  <2> QED
    BY <1>1, <1>2, <2>1, <2>3, <2>4, <2>5, <2>6, TrailsKeep
<1> QED
  BY <1>1, <1>3, <1>4

LEMMA TrailsQuiet ==
  ASSUME IInv, TrailInv,
         \/ \E h \in Handlers, k \in Keys : BeginPlace(h, k)
         \/ \E h \in Handlers : \/ Refuse(h) \/ Dedupe(h) \/ PlaceRaises(h) \/ SaveRaises(h)
                                \/ CancelFails(h)
         \/ \E k \in Keys : Late(k) \/ VenueFills(k)
         \/ UNCHANGED vars
  PROVE  TrailInv'
<1>1. stack' = stack /\ rows' = rows /\ lapses \subseteq lapses'
  BY DEF BeginPlace, Refuse, Dedupe, PlaceRaises, SaveRaises, CancelFails, Late, VenueFills,
         Lapse, vars
<1>2. \A h \in Handlers : own'[h] \in {own[h], Shared}
  <2>1. CASE own' = own
    BY <2>1
  <2>2. CASE \E g \in Handlers : own' = [own EXCEPT ![g] = Shared]
    BY <2>2 DEF IInv, TypeOK
  <2> QED
    BY <2>1, <2>2 DEF BeginPlace, Refuse, Dedupe, PlaceRaises, SaveRaises, CancelFails, Late,
                      VenueFills, Leave, vars
<1> QED
  BY <1>1, <1>2, TrailsStay DEF IInv

(* The row takes the events it lacks, and so becomes the order.            *)
LEMMA SavedRow ==
  ASSUME IInv, TrailInv, "rebuilt" \notin lapses, NEW h \in Handlers, Save(h)
  PROVE  /\ key[h] \in Keys /\ stack.orders[key[h]] \in RealOrder
         /\ rows' = [rows EXCEPT ![key[h]] = stack.orders[key[h]]]
<1>1. key[h] \in Keys /\ OrderOf(h) \in RealOrder /\ OrderOf(h) = stack.orders[key[h]]
  BY DEF Save, IInv, WorkInv, TrailInv, OrderOf, StackOf
<1>2. PICK r \in OrderType, o \in RealOrder : r = rows[key[h]] /\ o = OrderOf(h)
  BY <1>1 DEF IInv, TypeOK
<1>3. Written(r, o) = o
  <2>1. CASE r = NoOrder
    BY <2>1 DEF Written
  <2>2. CASE r # NoOrder
    <3>1. r \in RealOrder /\ Extends(o, r)
      BY <1>1, <1>2, <2>2 DEF OrderType, TrailInv
    <3> QED
      BY <3>1, WrittenExtends
  <2> QED
    BY <2>1, <2>2
<1>4. rows' = [rows EXCEPT ![key[h]] = Written(rows[key[h]], OrderOf(h))]
  BY DEF Save
<1> QED
  BY <1>1, <1>2, <1>3, <1>4

LEMMA TrailsSave ==
  ASSUME IInv, TrailInv, NEW h \in Handlers, Save(h)
  PROVE  TrailInv'
<1>1. lapses' = lapses /\ stack' = stack /\ own' = [own EXCEPT ![h] = Shared]
  BY DEF Save, Leave
<1> SUFFICES ASSUME "rebuilt" \notin lapses
             PROVE  /\ \A g \in Handlers : own'[g] = Shared
                    /\ \A j \in Keys : stack.orders[j] # NoOrder => Walk(stack.orders[j])
                    /\ \A j \in Keys : rows'[j] # NoOrder =>
                         /\ stack.orders[j] # NoOrder /\ Walk(rows'[j])
                         /\ Extends(stack.orders[j], rows'[j])
  BY <1>1 DEF TrailInv
<1>2. PICK k \in Keys, o \in RealOrder : o = stack.orders[k] /\ rows' = [rows EXCEPT ![k] = o]
  BY SavedRow
<1>3. \A j \in Keys : rows'[j] = IF j = k THEN o ELSE rows[j]
  BY <1>2 DEF IInv, TypeOK
<1>4. \A g \in Handlers : own'[g] = Shared
  BY <1>1 DEF TrailInv, IInv, TypeOK
<1>5. Walk(o) /\ Extends(o, o)
  BY <1>2, NoOrderIsNone, ExtendsSelf DEF TrailInv
<1> QED
  BY <1>2, <1>3, <1>4, <1>5, NoOrderIsNone DEF TrailInv

(* A book read from the table holds the trails of the table.               *)
LEMMA TrailsRestored ==
  ASSUME IInv, TrailInv, Rebuild \/ Crash
  PROVE  TrailInv'
<1>1. stack'.orders = rows /\ rows' = rows /\ lapses \subseteq lapses'
  BY DEF Rebuild, Crash, Restored
<1> SUFFICES ASSUME "rebuilt" \notin lapses'
             PROVE  /\ \A h \in Handlers : own'[h] = Shared
                    /\ \A k \in Keys : rows[k] # NoOrder => Walk(rows[k]) /\ Extends(rows[k], rows[k])
  BY <1>1 DEF TrailInv
<1>2. "rebuilt" \notin lapses
  BY <1>1
<1>3. \A h \in Handlers : own'[h] = Shared
  <2>1. CASE Rebuild
    <3>1. \A h \in Handlers : pc[h] = "idle"
      BY <2>1 DEF Rebuild
    <3> QED
      BY <1>2, <2>1, <3>1 DEF Rebuild, TrailInv
  <2>2. CASE Crash
    BY <2>2 DEF Crash
  <2> QED
    BY <2>1, <2>2
<1>4. ASSUME NEW k \in Keys, rows[k] # NoOrder PROVE Walk(rows[k]) /\ Extends(rows[k], rows[k])
  <2>1. PICK r \in RealOrder : r = rows[k]
    BY <1>4 DEF IInv, TypeOK, OrderType
  <2> QED
    BY <1>2, <1>4, <2>1, ExtendsSelf DEF TrailInv
<1> QED
  BY <1>3, <1>4

LEMMA TrailsInductive == IInv /\ TrailInv /\ [Next]_vars => TrailInv'
<1> SUFFICES ASSUME IInv, TrailInv, [Next]_vars PROVE TrailInv'
  OBVIOUS
<1>1. ASSUME NEW h \in Handlers, NEW k \in Keys, BeginPlace(h, k) \/ BeginCancel(h, k)
      PROVE  TrailInv'
  BY <1>1, TrailsQuiet, TrailsBeginCancel
<1>2. ASSUME NEW h \in Handlers, Refuse(h) \/ Submit(h) \/ Dedupe(h)
      PROVE  TrailInv'
  BY <1>2, TrailsQuiet, TrailsSubmit
<1>3. ASSUME NEW h \in Handlers, NEW s \in {"ACKNOWLEDGED", "PARTIALLY_FILLED", "FILLED"},
             Accept(h, s)
      PROVE  TrailInv'
  BY <1>3, TrailsAnswer
<1>4. ASSUME NEW h \in Handlers, Reject(h) \/ GatewayError(h) \/ Unanswered(h)
      PROVE  TrailInv'
  BY <1>4, TrailsAnswer
<1>5. ASSUME NEW h \in Handlers, CancelConfirmed(h) \/ CancelFails(h) \/ PlaceRaises(h)
      PROVE  TrailInv'
  BY <1>5, TrailsConfirmed, TrailsQuiet
<1>6. ASSUME NEW h \in Handlers, Save(h) \/ SaveRaises(h)
      PROVE  TrailInv'
  BY <1>6, TrailsSave, TrailsQuiet
<1>7. ASSUME NEW k \in Keys, Late(k) \/ VenueFills(k)
      PROVE  TrailInv'
  BY <1>7, TrailsQuiet
<1>8. CASE Rebuild \/ Crash
  BY <1>8, TrailsRestored
<1>9. CASE UNCHANGED vars
  BY <1>9, TrailsQuiet
<1> QED
  BY <1>1, <1>2, <1>3, <1>4, <1>5, <1>6, <1>7, <1>8, <1>9 DEF Next, Proceed

LEMMA TrailsAlways == Spec => []TrailInv
<1>1. Init => TrailInv
  BY DEF Init, TrailInv
<1> QED
  BY <1>1, Invariant, TrailsInductive, PTL DEF Spec

(* The event trail in the table is a walk through the state machine that   *)
(* ends at the row's status, whatever crashed or failed to be written      *)
(* (persist_order).                                                        *)
THEOREM TableTrailFaithful == Spec => []TrailFaithful
<1>1. TrailInv => TrailFaithful
  BY DEF TrailInv, Walk, TrailFaithful
<1> QED
  BY <1>1, TrailsAlways, PTL
-----------------------------------------------------------------------------
(* MirrorInv through every action.                                         *)
LEMMA CleanBefore ==
  ASSUME IInv, TrailInv, [Next]_vars, lapses' = {}
  PROVE  lapses = {} /\ \A h \in Handlers : own[h] = Shared
<1>1. lapses \subseteq lapses'
  BY DEF Next, Proceed, BeginPlace, BeginCancel, Refuse, Submit, Dedupe, Accept, Reject,
         CancelConfirmed, CancelFails, Save, GatewayError, Unanswered, PlaceRaises, SaveRaises,
         Late, VenueFills, Rebuild, Crash, Lapse, vars
<1> QED
  BY <1>1 DEF TrailInv

(* Nothing changes but where handlers stand, and none starts or ends a     *)
(* placement or abandons a save.                                           *)
LEMMA MirrorStays ==
  ASSUME TypeOK, MirrorInv, lapses = {}, stack' = stack, rows' = rows, sent' = sent,
         \A h \in Handlers : /\ pc'[h] = "placing" <=> pc[h] = "placing"
                             /\ pc[h] = "saving" => pc'[h] = "saving"
                             /\ pc[h] \in {"placing", "saving"} => key'[h] = key[h]
  PROVE  MirrorInv'
<1>1. \A k \in Keys : (Uncounted(k)' <=> Uncounted(k)) /\ (Unsaved(k) => Unsaved(k)')
  BY DEF Uncounted, Unsaved
<1>2. Counting' = Counting
  BY <1>1 DEF Counting
<1> QED
  BY <1>1, <1>2 DEF MirrorInv

(* One order is cancelled and waits to be saved.                           *)
LEMMA MirrorCancels ==
  ASSUME TypeOK, MirrorInv, lapses = {}, rows' = rows, sent' = sent,
         NEW h \in Handlers, NEW k \in Keys, NEW o \in RealOrder, stack.orders[k] # NoOrder,
         \A j \in Keys : stack'.orders[j] = IF j = k THEN o ELSE stack.orders[j],
         stack'.placed = stack.placed,
         \A g \in Handlers : pc[g] \notin {"placing", "saving"} /\ pc'[g] # "placing",
         pc'[h] = "saving" /\ key'[h] = k
  PROVE  MirrorInv'
<1>1. \A j \in Keys : ~Uncounted(j) /\ ~Unsaved(j) /\ ~Uncounted(j)'
  BY DEF Uncounted, Unsaved
<1>2. Unsaved(k)'
  BY DEF Unsaved
<1>3. \A j \in Keys : stack'.orders[j] = NoOrder <=> stack.orders[j] = NoOrder
  BY NoOrderIsNone
<1>4. Counting' = Counting
  BY <1>1, <1>3 DEF Counting
<1>5. \A j \in Keys : ~Unsaved(j)' => rows'[j] = stack'.orders[j]
  BY <1>1, <1>2 DEF MirrorInv
<1>6. \A j \in Keys : sent'[j] = IF stack'.orders[j] = NoOrder THEN 0 ELSE 1
  BY <1>3 DEF MirrorInv
<1> QED
  BY <1>1, <1>4, <1>5, <1>6 DEF MirrorInv

(* Where the others stand while one handler works, or before one enters.   *)
LEMMA OnlyOne ==
  ASSUME IInv, NEW h \in Handlers, pc[h] # "idle" \/ lock = Nobody
  PROVE  \A g \in Handlers : g # h => pc[g] = "idle"
BY AloneAtWork

LEMMA MirrorBegin ==
  ASSUME IInv, MirrorInv, lapses = {}, NEW h \in Handlers, NEW k \in Keys,
         BeginPlace(h, k) \/ BeginCancel(h, k)
  PROVE  MirrorInv'
<1>1. TypeOK
  BY DEF IInv
<1>2. ASSUME NEW s \in {"risk", "cancelling", "saving"}, Enter(h, k, s)
      PROVE  /\ \A g \in Handlers : pc[g] = "idle" /\ (g # h => pc'[g] = "idle")
             /\ pc'[h] = s /\ key'[h] = k
  BY <1>2, OnlyOne DEF Enter, IInv, TypeOK
<1>3. CASE BeginPlace(h, k)
  <2>1. Enter(h, k, "risk") /\ UNCHANGED <<stack, rows, sent>>
    BY <1>3 DEF BeginPlace, venueVars
  <2> QED
    BY <1>1, <1>2, <2>1, MirrorStays
<1>4. CASE BeginCancel(h, k)
  <2> DEFINE c == Moved(stack.orders[k], <<"CANCELLED">>)
             s == [stack EXCEPT !.orders[k] = c]
  <2>1. /\ stack.orders[k] \in RealOrder
        /\ stack.orders[k].status \in {"SUBMITTED", "ACKNOWLEDGED"}
        /\ \/ Enter(h, k, "cancelling") /\ stack' = stack
           \/ Enter(h, k, "saving") /\ stack' = s
        /\ rows' = rows /\ sent' = sent
    BY <1>4, BeginCancelFacts DEF venueVars
  <2>2. CASE Enter(h, k, "cancelling") /\ stack' = stack
    BY <1>1, <1>2, <2>1, <2>2, MirrorStays
  <2>3. CASE Enter(h, k, "saving") /\ stack' = s
    <3>1. PICK t \in StackType, o \in RealOrder : t = stack /\ o = c
      BY <2>1, CancelledOrder DEF IInv, TypeOK
    <3>2. stack' = [t EXCEPT !.orders[k] = o]
      BY <2>3, <3>1
    <3> HIDE DEF c, s
    <3>3. /\ \A j \in Keys : [t EXCEPT !.orders[k] = o].orders[j] = IF j = k THEN o ELSE t.orders[j]
          /\ [t EXCEPT !.orders[k] = o].placed = t.placed
      BY ReplacedOrders
    <3>4. stack.orders[k] # NoOrder
      BY <2>1, NoOrderIsNone
    <3>5. \A g \in Handlers : pc[g] \notin {"placing", "saving"} /\ pc'[g] # "placing"
      BY <1>2, <2>3
    <3>6. pc'[h] = "saving" /\ key'[h] = k
      BY <1>2, <2>3
    <3> QED
      BY <1>1, <2>1, <3>1, <3>2, <3>3, <3>4, <3>5, <3>6, MirrorCancels
  <2> QED
    BY <2>1, <2>2, <2>3
<1> QED
  BY <1>3, <1>4

LEMMA MirrorQuiet ==
  ASSUME IInv, MirrorInv, lapses = {}, lapses' = {},
         \/ \E h \in Handlers : \/ Refuse(h) \/ Dedupe(h) \/ PlaceRaises(h) \/ SaveRaises(h)
                                \/ CancelFails(h)
         \/ \E k \in Keys : Late(k) \/ VenueFills(k)
         \/ UNCHANGED vars
  PROVE  MirrorInv'
<1>1. TypeOK
  BY DEF IInv
<1>2. ASSUME NEW h \in Handlers, Refuse(h) \/ CancelFails(h) PROVE MirrorInv'
  <2>1. /\ pc[h] \in {"risk", "cancelling"} /\ UNCHANGED <<stack, rows, sent>>
        /\ pc' = [pc EXCEPT ![h] = "idle"] /\ key' = [key EXCEPT ![h] = Nobody]
    BY <1>2 DEF Refuse, CancelFails, Leave, venueVars
  <2>2. \A g \in Handlers : /\ pc'[g] = "placing" <=> pc[g] = "placing"
                            /\ pc[g] = "saving" => pc'[g] = "saving"
                            /\ pc[g] \in {"placing", "saving"} => key'[g] = key[g]
    BY <2>1 DEF IInv, TypeOK
  <2> QED
    BY <1>1, <2>1, <2>2, MirrorStays
<1>3. ASSUME NEW h \in Handlers, Dedupe(h) PROVE MirrorInv'
  <2>1. /\ pc[h] = "risk" /\ UNCHANGED <<stack, rows, sent, key>> /\ pc' = [pc EXCEPT ![h] = "saving"]
    BY <1>3 DEF Dedupe, At, venueVars
  <2>2. \A g \in Handlers : /\ pc'[g] = "placing" <=> pc[g] = "placing"
                            /\ pc[g] = "saving" => pc'[g] = "saving"
    BY <2>1 DEF IInv, TypeOK
  <2> QED
    BY <1>1, <2>1, <2>2, MirrorStays
<1>4. ASSUME NEW h \in Handlers, PlaceRaises(h) \/ SaveRaises(h) PROVE FALSE
  BY <1>4 DEF PlaceRaises, SaveRaises, Lapse
<1>5. ASSUME NEW k \in Keys, Late(k) \/ VenueFills(k) PROVE MirrorInv'
  BY <1>1, <1>5, MirrorStays DEF Late, VenueFills
<1>6. CASE UNCHANGED vars
  BY <1>1, <1>6, MirrorStays DEF vars
<1> QED
  BY <1>2, <1>3, <1>4, <1>5, <1>6

LEMMA MirrorSubmit ==
  ASSUME IInv, TrailInv, MirrorInv, lapses = {}, NEW h \in Handlers, Submit(h)
  PROVE  MirrorInv'
<1>1. PICK k \in Keys : k = key[h]
  BY DEF Submit, IInv, WorkInv
<1>2. PICK t \in StackType : t = stack
  BY DEF IInv, TypeOK
<1>3. own[h] = Shared
  BY DEF TrailInv
<1>4. /\ stack' = [t EXCEPT !.orders[k] = Created] /\ stack.orders[k] = NoOrder
      /\ rows' = rows /\ sent' = [sent EXCEPT ![k] = @ + 1]
      /\ pc[h] = "risk" /\ pc' = [pc EXCEPT ![h] = "placing"] /\ key' = key
  BY <1>1, <1>2, <1>3 DEF Submit, Keep, StackOf, OrderOf, At
<1>5. /\ \A j \in Keys : [t EXCEPT !.orders[k] = Created].orders[j] = IF j = k THEN Created ELSE t.orders[j]
      /\ [t EXCEPT !.orders[k] = Created].placed = t.placed
  BY ReplacedOrders
<1>6. /\ \A j \in Keys : stack'.orders[j] = IF j = k THEN Created ELSE stack.orders[j]
      /\ stack'.placed = stack.placed /\ Created # NoOrder
  BY <1>2, <1>4, <1>5, CreatedOrder, NoOrderIsNone
<1>7. \A g \in Handlers : pc[g] \notin {"placing", "saving"}
  BY <1>4, OnlyOne
<1>8. \A g \in Handlers : pc'[g] = IF g = h THEN "placing" ELSE pc[g]
  BY <1>4 DEF IInv, TypeOK
<1>9. \A j \in Keys : ~Uncounted(j) /\ ~Unsaved(j) /\ (Uncounted(j)' <=> j = k) /\ (Unsaved(j)' <=> j = k)
  BY <1>1, <1>4, <1>7, <1>8 DEF Uncounted, Unsaved
<1>10. Counting' = Counting
  BY <1>4, <1>6, <1>9 DEF Counting
<1>11. \A j \in Keys : sent'[j] = IF stack'.orders[j] = NoOrder THEN 0 ELSE 1
  <2>1. \A j \in Keys : sent'[j] = IF j = k THEN sent[k] + 1 ELSE sent[j]
    BY <1>4 DEF IInv, TypeOK
  <2>2. \A j \in Keys : sent[j] = IF stack.orders[j] = NoOrder THEN 0 ELSE 1
    BY DEF MirrorInv
  <2> QED
    BY <1>4, <1>6, <2>1, <2>2
<1>12. \A j \in Keys : rows[j] = stack.orders[j]
  BY <1>9 DEF MirrorInv
<1>13. stack'.placed = Cardinality(Counting')
  BY <1>6, <1>10 DEF MirrorInv
<1>14. \A j \in Keys : (~Unsaved(j)' => rows'[j] = stack'.orders[j]) /\ (Uncounted(j)' => rows'[j] = NoOrder)
  BY <1>4, <1>6, <1>9, <1>12
<1> QED
  BY <1>11, <1>13, <1>14 DEF MirrorInv

(* The answer makes the order count.                                       *)
LEMMA MirrorReceive ==
  ASSUME IInv, TrailInv, MirrorInv, lapses = {},
         NEW h \in Handlers, NEW path \in AnswerPaths, NEW id \in Nat, Receive(h, path, id)
  PROVE  MirrorInv'
<1> DEFINE o == Answered(h, path, id)
           s == Counted(StackOf(h), key[h], o)
<1>1. /\ pc[h] = "placing" /\ key[h] \in Keys /\ OrderOf(h) \in RealOrder /\ o \in RealOrder
      /\ Keep(h, s) /\ At(h, "saving") /\ rows' = rows /\ sent' = sent
  BY ReceiveFacts
<1>2. PICK k \in Keys, n \in RealOrder, t \in StackType : k = key[h] /\ n = o /\ t = stack
  BY <1>1 DEF IInv, TypeOK
<1> HIDE DEF o
<1>3. own[h] = Shared
  BY DEF TrailInv
<1>4. stack' = Counted(t, k, n) /\ stack.orders[k] # NoOrder
  BY <1>1, <1>2, <1>3, NoOrderIsNone DEF Keep, StackOf, OrderOf
<1>5. /\ \A j \in Keys : Counted(t, k, n).orders[j] = IF j = k THEN n ELSE t.orders[j]
      /\ Counted(t, k, n).placed = t.placed + 1
  BY DEF Counted, StackType
<1>6. /\ \A j \in Keys : stack'.orders[j] = IF j = k THEN n ELSE stack.orders[j]
      /\ stack'.placed = stack.placed + 1 /\ n # NoOrder
  BY <1>2, <1>4, <1>5, NoOrderIsNone
<1>7. \A g \in Handlers : g # h => pc[g] = "idle"
  BY <1>1, OnlyOne
<1>8. (\A g \in Handlers : pc'[g] = IF g = h THEN "saving" ELSE pc[g]) /\ key' = key
  BY <1>1 DEF At, IInv, TypeOK
<1>9. \A j \in Keys : /\ Uncounted(j) <=> j = k
                      /\ Unsaved(j) <=> j = k
                      /\ ~Uncounted(j)'
                      /\ Unsaved(j)' <=> j = k
  BY <1>1, <1>2, <1>7, <1>8 DEF Uncounted, Unsaved
<1>10. k \notin Counting /\ Counting' = Counting \cup {k}
  BY <1>6, <1>9 DEF Counting
<1>11. Cardinality(Counting') = Cardinality(Counting) + 1
  <2>1. IsFiniteSet(Counting)
    BY FS_Subset DEF Counting
  <2> QED
    BY <1>10, <2>1, FS_AddElement
<1>12. stack'.placed = Cardinality(Counting')
  BY <1>6, <1>11 DEF MirrorInv
<1>13. \A j \in Keys : sent'[j] = IF stack'.orders[j] = NoOrder THEN 0 ELSE 1
  BY <1>1, <1>4, <1>6 DEF MirrorInv
<1>14. \A j \in Keys : ~Unsaved(j)' => rows'[j] = stack'.orders[j]
  BY <1>1, <1>6, <1>9 DEF MirrorInv
<1> QED
  BY <1>9, <1>12, <1>13, <1>14 DEF MirrorInv

LEMMA MirrorAnswer ==
  ASSUME IInv, TrailInv, MirrorInv, lapses = {}, NEW h \in Handlers,
         \/ \E s \in {"ACKNOWLEDGED", "PARTIALLY_FILLED", "FILLED"} : Accept(h, s)
         \/ Reject(h) \/ GatewayError(h) \/ Unanswered(h)
  PROVE  MirrorInv'
<1>1. ASSUME NEW s \in {"ACKNOWLEDGED", "PARTIALLY_FILLED", "FILLED"}, Accept(h, s)
      PROVE  MirrorInv'
  <2> DEFINE path == CASE s = "ACKNOWLEDGED"     -> <<"ACKNOWLEDGED">>
                       [] s = "PARTIALLY_FILLED" -> <<"ACKNOWLEDGED", "PARTIALLY_FILLED">>
                       [] s = "FILLED"           -> <<"ACKNOWLEDGED", "FILLED", "MONITORING">>
  <2>1. path \in AnswerPaths
    BY DEF AnswerPaths
  <2>2. Receive(h, path, NewId(h))
    BY <1>1 DEF Accept
  <2>3. NewId(h) \in Nat
    BY <2>2, LenProperties DEF NewId, Receive, IInv, TypeOK, WorkInv
  <2> HIDE DEF path
  <2> QED
    BY <2>1, <2>2, <2>3, MirrorReceive
<1>2. ASSUME Reject(h) \/ GatewayError(h) \/ Unanswered(h) PROVE MirrorInv'
  <2>1. <<"REJECTED">> \in AnswerPaths /\ <<"FAILED">> \in AnswerPaths /\ NoId \in Nat
    BY DEF AnswerPaths, NoId
  <2>2. Receive(h, <<"REJECTED">>, NoId) \/ Receive(h, <<"FAILED">>, NoId)
    BY <1>2 DEF Reject, GatewayError, Unanswered
  <2> QED
    BY <2>1, <2>2, MirrorReceive
<1> QED
  BY <1>1, <1>2

LEMMA MirrorConfirmed ==
  ASSUME IInv, TrailInv, MirrorInv, lapses = {}, NEW h \in Handlers, CancelConfirmed(h)
  PROVE  MirrorInv'
<1> DEFINE c == Moved(OrderOf(h), <<"CANCELLED">>)
           s == [StackOf(h) EXCEPT !.orders[key[h]] = c]
<1>1. /\ pc[h] = "cancelling" /\ key[h] \in Keys /\ OrderOf(h) \in RealOrder
      /\ OrderOf(h).status \in {"SUBMITTED", "ACKNOWLEDGED"}
      /\ Keep(h, s) /\ At(h, "saving") /\ rows' = rows /\ sent' = sent
  BY ConfirmedFacts
<1>2. PICK k \in Keys, t \in StackType : k = key[h] /\ t = stack
  BY <1>1 DEF IInv, TypeOK
<1>3. PICK n \in RealOrder : n = c
  BY <1>1, CancelledOrder
<1>4. own[h] = Shared
  BY DEF TrailInv
<1>5. stack' = [t EXCEPT !.orders[k] = n] /\ stack.orders[k] # NoOrder
  BY <1>1, <1>2, <1>3, <1>4, NoOrderIsNone DEF Keep, StackOf, OrderOf
<1> HIDE DEF c, s
<1>6. /\ \A j \in Keys : [t EXCEPT !.orders[k] = n].orders[j] = IF j = k THEN n ELSE t.orders[j]
      /\ [t EXCEPT !.orders[k] = n].placed = t.placed
  BY ReplacedOrders
<1>7. \A g \in Handlers : g # h => pc[g] = "idle"
  BY <1>1, OnlyOne
<1>8. (\A g \in Handlers : pc'[g] = IF g = h THEN "saving" ELSE pc[g]) /\ key' = key
  BY <1>1 DEF At, IInv, TypeOK
<1>9. \A g \in Handlers : pc[g] \notin {"placing", "saving"} /\ pc'[g] # "placing"
  BY <1>1, <1>7, <1>8
<1>10. TypeOK
  BY DEF IInv
<1> QED
  BY <1>1, <1>2, <1>5, <1>6, <1>8, <1>9, <1>10, MirrorCancels

LEMMA MirrorSave ==
  ASSUME IInv, TrailInv, MirrorInv, lapses = {}, NEW h \in Handlers, Save(h)
  PROVE  MirrorInv'
<1>1. PICK k \in Keys, o \in RealOrder :
        k = key[h] /\ o = stack.orders[k] /\ rows' = [rows EXCEPT ![k] = o]
  BY SavedRow
<1>2. /\ pc[h] = "saving" /\ pc' = [pc EXCEPT ![h] = "idle"] /\ stack' = stack /\ sent' = sent
  BY DEF Save, Leave, venueVars
<1>3. \A g \in Handlers : g # h => pc[g] = "idle"
  BY <1>2, OnlyOne
<1>4. \A g \in Handlers : pc'[g] = "idle"
  BY <1>2, <1>3 DEF IInv, TypeOK
<1>5. \A j \in Keys : ~Uncounted(j) /\ (Unsaved(j) <=> j = k) /\ ~Uncounted(j)' /\ ~Unsaved(j)'
  BY <1>1, <1>2, <1>3, <1>4 DEF Uncounted, Unsaved
<1>6. Counting' = Counting
  BY <1>2, <1>5 DEF Counting
<1>7. \A j \in Keys : rows'[j] = stack.orders[j]
  <2>1. \A j \in Keys : rows'[j] = IF j = k THEN o ELSE rows[j]
    BY <1>1 DEF IInv, TypeOK
  <2> QED
    BY <1>1, <1>5, <2>1 DEF MirrorInv
<1> QED
  BY <1>2, <1>5, <1>6, <1>7 DEF MirrorInv

(* A restart that interrupted nothing finds the book in the table.         *)
LEMMA MirrorRestored ==
  ASSUME IInv, MirrorInv, lapses = {}, lapses' = {}, Rebuild \/ Crash
  PROVE  MirrorInv'
<1>1. /\ stack'.orders = rows /\ stack'.placed = Cardinality({k \in Keys : rows[k] # NoOrder})
      /\ rows' = rows /\ sent' = sent
  BY DEF Rebuild, Crash, Restored, venueVars
<1>2. \A h \in Handlers : /\ pc[h] \notin {"placing", "saving"}
                          /\ pc'[h] \notin {"placing", "saving"}
  BY DEF Rebuild, Crash, InFlight
<1>3. \A k \in Keys : ~Unsaved(k) /\ ~Uncounted(k)'
  BY <1>2 DEF Unsaved, Uncounted
<1>4. \A k \in Keys : rows[k] = stack.orders[k]
  BY <1>3 DEF MirrorInv
<1>5. Counting' = {k \in Keys : rows[k] # NoOrder}
  BY <1>1, <1>3 DEF Counting
<1> QED
  BY <1>1, <1>3, <1>4, <1>5 DEF MirrorInv

LEMMA MirrorInductive == IInv /\ TrailInv /\ MirrorInv /\ [Next]_vars => MirrorInv'
<1> SUFFICES ASSUME IInv, TrailInv, MirrorInv, [Next]_vars, lapses' = {} PROVE MirrorInv'
  BY DEF MirrorInv
<1>0. lapses = {}
  BY CleanBefore
<1>1. ASSUME NEW h \in Handlers, NEW k \in Keys, BeginPlace(h, k) \/ BeginCancel(h, k)
      PROVE  MirrorInv'
  BY <1>0, <1>1, MirrorBegin
<1>2. ASSUME NEW h \in Handlers, Refuse(h) \/ Submit(h) \/ Dedupe(h)
      PROVE  MirrorInv'
  BY <1>0, <1>2, MirrorQuiet, MirrorSubmit
<1>3. ASSUME NEW h \in Handlers, NEW s \in {"ACKNOWLEDGED", "PARTIALLY_FILLED", "FILLED"},
             Accept(h, s)
      PROVE  MirrorInv'
  BY <1>0, <1>3, MirrorAnswer
<1>4. ASSUME NEW h \in Handlers, Reject(h) \/ GatewayError(h) \/ Unanswered(h)
      PROVE  MirrorInv'
  BY <1>0, <1>4, MirrorAnswer
<1>5. ASSUME NEW h \in Handlers, CancelConfirmed(h) \/ CancelFails(h) \/ PlaceRaises(h)
      PROVE  MirrorInv'
  BY <1>0, <1>5, MirrorConfirmed, MirrorQuiet
<1>6. ASSUME NEW h \in Handlers, Save(h) \/ SaveRaises(h)
      PROVE  MirrorInv'
  BY <1>0, <1>6, MirrorSave, MirrorQuiet
<1>7. ASSUME NEW k \in Keys, Late(k) \/ VenueFills(k)
      PROVE  MirrorInv'
  BY <1>0, <1>7, MirrorQuiet
<1>8. CASE Rebuild \/ Crash
  BY <1>0, <1>8, MirrorRestored
<1>9. CASE UNCHANGED vars
  BY <1>0, <1>9, MirrorQuiet
<1> QED
  BY <1>1, <1>2, <1>3, <1>4, <1>5, <1>6, <1>7, <1>8, <1>9 DEF Next, Proceed

LEMMA MirrorAlways == Spec => []MirrorInv
<1>1. Init => MirrorInv
  <2> SUFFICES ASSUME Init PROVE MirrorInv
    OBVIOUS
  <2>1. Counting = {}
    BY DEF Init, Counting
  <2> QED
    BY <2>1, FS_EmptySet DEF Init, MirrorInv, Uncounted, Unsaved
<1> QED
  BY <1>1, Invariant, TrailsAlways, MirrorInductive, PTL DEF Spec

(* One key is sent to the broker once, by any number of requests, restarts *)
(* and rebuilds that interrupt nothing (load_recent_orders).               *)
THEOREM KeysSubmittedOnce == Spec => []OneSubmissionPerKey
<1>1. MirrorInv => OneSubmissionPerKey
  BY DEF MirrorInv, OneSubmissionPerKey
<1> QED
  BY <1>1, MirrorAlways, PTL

(* Between handlers the table is the book in memory, and its size the      *)
(* day's count, however often the book was read back from it.              *)
THEOREM TableMirrorsBook == Spec => []MirrorAtRest
<1>1. IInv /\ MirrorInv => MirrorAtRest
  <2> SUFFICES ASSUME IInv, MirrorInv, lock = Nobody, lapses = {}
               PROVE  /\ stack.orders = rows
                      /\ stack.placed = Cardinality({k \in Keys : rows[k] # NoOrder})
    BY DEF MirrorAtRest
  <2>1. \A h \in Handlers : pc[h] = "idle"
    BY DEF IInv, LockFollowsHandler
  <2>2. \A k \in Keys : ~Unsaved(k) /\ ~Uncounted(k)
    BY <2>1 DEF Unsaved, Uncounted
  <2>3. \A k \in Keys : rows[k] = stack.orders[k]
    BY <2>2 DEF MirrorInv
  <2>4. stack.orders = rows
    BY <2>3 DEF IInv, TypeOK, StackType
  <2>5. Counting = {k \in Keys : rows[k] # NoOrder}
    BY <2>2, <2>3 DEF Counting
  <2> QED
    BY <2>4, <2>5 DEF MirrorInv
<1> QED
  BY <1>1, Invariant, MirrorAlways, PTL

(* No entry is sent once max_trades_per_day orders were sent this day, and *)
(* a restart or a reconnect does not open a fresh day (_stack_for).        *)
THEOREM CapHoldsAllDay == Spec => DailyCapHolds
<1> DEFINE Sent == \A k \in Keys \ Exits : sent'[k] > sent[k] /\ lapses = {} =>
                     Cardinality({j \in Keys : sent[j] > 0}) < MaxTrades
<1>1. IInv /\ TrailInv /\ MirrorInv /\ [Next]_vars => [Sent]_vars
  <2> SUFFICES ASSUME IInv, TrailInv, MirrorInv, [Next]_vars,
                      NEW k \in Keys \ Exits, sent'[k] > sent[k], lapses = {}
               PROVE  Cardinality({j \in Keys : sent[j] > 0}) < MaxTrades
    OBVIOUS
  <2>1. sent[k] \in Nat /\ sent' # sent
    BY DEF IInv, TypeOK
  <2>2. PICK h \in Handlers : Submit(h)
    BY <2>1 DEF Next, Proceed, BeginPlace, BeginCancel, Refuse, Dedupe, Accept, Reject, Receive,
                CancelConfirmed, CancelFails, Save, GatewayError, Unanswered, PlaceRaises,
                SaveRaises, Late, VenueFills, Rebuild, Crash, venueVars, vars
  <2>3. key[h] = k
    BY <2>1, <2>2 DEF Submit, IInv, TypeOK
  <2>4. stack.placed < MaxTrades
    BY <2>2, <2>3 DEF Submit, GateOpen, StackOf, TrailInv
  <2>5. pc[h] = "risk" /\ \A g \in Handlers : g # h => pc[g] = "idle"
    BY <2>2, OnlyOne DEF Submit
  <2>6. \A j \in Keys : ~Uncounted(j)
    BY <2>5 DEF Uncounted
  <2>7. \A j \in Keys : sent[j] > 0 <=> stack.orders[j] # NoOrder
    BY DEF MirrorInv
  <2>8. {j \in Keys : sent[j] > 0} = Counting
    BY <2>6, <2>7 DEF Counting
  <2> QED
    BY <2>4, <2>8 DEF MirrorInv
<1>2. Spec => [][Sent]_vars
  BY <1>1, Invariant, TrailsAlways, MirrorAlways, PTL DEF Spec
<1> QED
  BY <1>2 DEF DailyCapHolds
=============================================================================
