----------------------- MODULE SessionRotationProofs -----------------------
(***************************************************************************)
(* For any number of requests, sessions and sockets and any lifetimes: a   *)
(* login has one live session at most, a reuse that was dealt with leaves  *)
(* none of what was issued before it, and no socket relays longer than a   *)
(* recheck after its session ended.  The argument is the row lock: whoever *)
(* won a session holds its row until the next one is committed, and every  *)
(* other writer of that row waits.                                         *)
(***************************************************************************)
EXTENDS SessionRotation, TLAPS

USE TimesAssumption, BoundsAssumption, NobodyAssumption

Stages == {"idle", "claim", "won", "lost", "contain", "end"}

\* Every variable has its type; what is revoked or named was issued.
TypeInv ==
  /\ now \in Nat
  /\ issued \in 0 .. MaxSessions
  /\ login \in [Ids -> Nat]
  /\ expires \in [Ids -> Nat]
  /\ revoked \in SUBSET Issued
  /\ endedAt \in [Ids -> Nat]
  /\ claimant \in [Ids -> Requests \cup {Nobody}]
  /\ stage \in [Requests -> Stages]
  /\ target \in [Requests -> 0 .. issued]
  /\ reach \in [Requests -> [hit : SUBSET Issued, of : 0 .. issued]]
  /\ contained \in 0 .. issued
  /\ socket \in [Sockets -> [on : {"off", "accepted", "relay"}, session : 0 .. issued,
                             until : Int, next : Nat]]

\* A request past "idle" names a session that was issued.
NamedInv == \A r \in Requests : stage[r] # "idle" => target[r] \in Issued

\* The winner of a session holds its row, and nobody else holds one.
ClaimInv ==
  /\ \A r \in Requests : stage[r] = "won" =>
       /\ claimant[target[r]] = r
       /\ target[r] \notin revoked
  /\ \A s \in Ids : claimant[s] # Nobody =>
       stage[claimant[s]] = "won" /\ target[claimant[s]] = s

\* The logins of sessions are older than the next one.
RootInv == \A s \in Issued : login[s] \in 1 .. issued

\* A reuse being dealt with reaches whatever was live when it was detected.
ReachInv ==
  \A r \in Requests : stage[r] = "contain" =>
    1 .. reach[r].of \subseteq revoked \cup reach[r].hit

\* A socket is let in on a live session, and a relay last looked at its own
\* one recheck before it looks again.
SocketInv ==
  \A w \in Sockets :
    LET k == socket[w] IN
    k.on # "off" =>
      /\ k.session \in Issued
      /\ now <= k.until
      /\ k.on = "accepted" =>
           /\ now <= expires[k.session]
           /\ k.session \in revoked => now <= endedAt[k.session]
      /\ k.on = "relay" =>
           /\ now <= k.next
           /\ k.next <= now + RecheckAfter
           /\ k.next <= expires[k.session] + RecheckAfter
           /\ k.session \in revoked => k.next <= endedAt[k.session] + RecheckAfter

IInv == /\ TypeInv /\ NamedInv /\ ClaimInv /\ RootInv /\ ReachInv /\ SocketInv
        /\ OneLivePerLogin /\ ReuseContained
-----------------------------------------------------------------------------
LEMMA InitInv == Init => IInv
<1> SUFFICES ASSUME Init PROVE IInv
  OBVIOUS
<1>1. TypeInv
  <2>1. Closed \in [on : {"off", "accepted", "relay"}, session : 0 .. issued,
                    until : Int, next : Nat]
    BY DEF Init, Closed
  <2>2. Nothing \in [hit : SUBSET Issued, of : 0 .. issued]
    BY DEF Init, Nothing
  <2> QED
    BY <2>1, <2>2 DEF Init, TypeInv, Stages, Issued
<1>2. NamedInv /\ ClaimInv /\ RootInv /\ ReachInv
  BY DEF Init, NamedInv, ClaimInv, RootInv, ReachInv, Issued
<1>3. SocketInv
  BY DEF Init, SocketInv, Closed
<1>4. OneLivePerLogin /\ ReuseContained
  BY DEF Init, OneLivePerLogin, ReuseContained, Issued
<1> QED
  BY <1>1, <1>2, <1>3, <1>4 DEF IInv

\* What a committed revocation leaves of the types, and of the times.
LEMMA RevokeFacts ==
  ASSUME TypeInv, NEW S \in SUBSET Issued, Revoke(S)
  PROVE  /\ revoked' \in SUBSET Issued
         /\ endedAt' \in [Ids -> Nat]
         /\ \A s \in Ids : s \in revoked => endedAt'[s] = endedAt[s]
         /\ \A s \in Ids : s \in revoked' \ revoked => endedAt'[s] = now
  BY DEF TypeInv, Revoke, Issued, Ids

\* What a new session leaves of the types.
LEMMA NewSessionFacts ==
  ASSUME TypeInv, NEW root \in Nat, NewSession(root)
  PROVE  /\ issued' = issued + 1 /\ issued' \in 0 .. MaxSessions
         /\ issued' \in Ids
         /\ Issued' = Issued \cup {issued'}
         /\ login' \in [Ids -> Nat] /\ expires' \in [Ids -> Nat]
         /\ login'[issued'] = root
         /\ \A s \in Issued : s \in Ids /\ login'[s] = login[s] /\ expires'[s] = expires[s]
<1>1. /\ issued' = issued + 1 /\ issued' \in 0 .. MaxSessions /\ issued' \in Ids
      /\ issued \in Nat
  BY DEF TypeInv, NewSession, Ids
<1>2. now + SessionLife \in Nat
  BY DEF TypeInv
<1>3. login' \in [Ids -> Nat] /\ expires' \in [Ids -> Nat] /\ login'[issued'] = root
  BY <1>1, <1>2 DEF TypeInv, NewSession
<1>4. Issued' = Issued \cup {issued'}
  BY <1>1 DEF Issued
<1>5. \A s \in Issued : s \in Ids /\ s # issued'
  BY <1>1 DEF Issued, Ids, TypeInv
<1>6. \A s \in Issued : login'[s] = login[s] /\ expires'[s] = expires[s]
  BY <1>1, <1>5 DEF NewSession, TypeInv
<1> QED
  BY <1>1, <1>3, <1>4, <1>5, <1>6

-----------------------------------------------------------------------------
\* Moves of a request that change no row leave everything about rows.
LEMMA RowsUntouched ==
  ASSUME IInv, UNCHANGED <<now, rows, contained, socket>>
  PROVE  /\ RootInv' /\ SocketInv' /\ OneLivePerLogin' /\ ReuseContained'
         /\ Issued' = Issued
  BY DEF IInv, rows, RootInv, SocketInv, OneLivePerLogin, ReuseContained, Issued

LEMMA BeginInv ==
  ASSUME IInv, NEW r \in Requests, NEW s \in Issued,
         BeginRefresh(r, s) \/ BeginEnd(r, s)
  PROVE  IInv'
<1>1. /\ stage[r] = "idle"
      /\ \E to \in {"claim", "end"} : stage' = [stage EXCEPT ![r] = to]
      /\ target' = [target EXCEPT ![r] = s]
      /\ UNCHANGED <<now, rows, claimant, reach, contained, socket>>
  BY DEF BeginRefresh, BeginEnd, At
<1>2. s \in 0 .. issued
  BY DEF IInv, TypeInv, Issued
<1>3. TypeInv'
  BY <1>1, <1>2 DEF IInv, TypeInv, Stages, rows, Issued
<1>4. NamedInv'
  BY <1>1, RowsUntouched DEF IInv, TypeInv, NamedInv
<1>5. ClaimInv'
  BY <1>1 DEF IInv, TypeInv, ClaimInv, rows
<1>6. ReachInv'
  BY <1>1 DEF IInv, TypeInv, ReachInv, rows
<1> QED
  BY <1>1, <1>3, <1>4, <1>5, <1>6, RowsUntouched DEF IInv

LEMMA ClaimStep ==
  ASSUME IInv, NEW r \in Requests, Claim(r)
  PROVE  IInv'
<1> DEFINE s == target[r]
<1>1. /\ stage[r] = "claim" /\ claimant[s] = Nobody /\ s \in Ids
      /\ UNCHANGED <<now, rows, target, reach, contained, socket>>
  BY DEF Claim, Unlocked, IInv, NamedInv, TypeInv, Issued, Ids
<1>2. \/ /\ s \notin revoked /\ stage' = [stage EXCEPT ![r] = "won"]
         /\ claimant' = [claimant EXCEPT ![s] = r]
      \/ stage' = [stage EXCEPT ![r] = "lost"] /\ claimant' = claimant
  BY DEF Claim, At
<1>3. TypeInv'
  <2>1. stage' \in [Requests -> Stages]
    BY <1>2 DEF IInv, TypeInv, Stages
  <2>2. claimant' \in [Ids -> Requests \cup {Nobody}]
    <3>1. claimant \in [Ids -> Requests \cup {Nobody}]
      BY DEF IInv, TypeInv
    <3> QED
      BY <1>1, <1>2, <3>1
  <2> QED
    BY <1>1, <2>1, <2>2 DEF IInv, TypeInv, rows, Issued
<1>4. NamedInv' /\ ReachInv'
  <2>1. \A q \in Requests : q # r => stage'[q] = stage[q]
    BY <1>1, <1>2 DEF IInv, TypeInv
  <2>2. stage[r] # "idle" /\ stage'[r] \in {"won", "lost"}
    BY <1>1, <1>2 DEF IInv, TypeInv
  <2>3. NamedInv'
    BY <1>1, <2>1, <2>2 DEF IInv, NamedInv, rows, Issued
  <2>4. ReachInv'
    BY <1>1, <2>1, <2>2 DEF IInv, ReachInv, rows
  <2> QED
    BY <2>3, <2>4
<1>5. ClaimInv'
  <2>1. CASE stage' = [stage EXCEPT ![r] = "lost"] /\ claimant' = claimant
    BY <1>1, <2>1 DEF IInv, TypeInv, ClaimInv, rows
  <2>2. CASE /\ s \notin revoked /\ stage' = [stage EXCEPT ![r] = "won"]
             /\ claimant' = [claimant EXCEPT ![s] = r]
    BY <1>1, <2>2 DEF IInv, TypeInv, ClaimInv, rows
  <2> QED
    BY <1>2, <2>1, <2>2
<1> QED
  BY <1>1, <1>3, <1>4, <1>5, RowsUntouched DEF IInv

LEMMA RollBackStep ==
  ASSUME IInv, NEW r \in Requests, RollBack(r)
  PROVE  IInv'
<1>1. /\ stage[r] = "won"
      /\ stage' = [stage EXCEPT ![r] = "idle"]
      /\ target' = [target EXCEPT ![r] = 0]
      /\ claimant' = [claimant EXCEPT ![target[r]] = Nobody]
      /\ UNCHANGED <<now, rows, reach, contained, socket>>
  BY DEF RollBack, Done, At
<1>2. target[r] \in Ids /\ claimant[target[r]] = r
  BY <1>1 DEF IInv, NamedInv, ClaimInv, TypeInv, Issued, Ids
<1>3. TypeInv'
  BY <1>1, <1>2 DEF IInv, TypeInv, Stages, rows, Issued
<1>4. NamedInv' /\ ReachInv'
  BY <1>1, RowsUntouched DEF IInv, TypeInv, NamedInv, ReachInv, rows
<1>5. ClaimInv'
  BY <1>1, <1>2 DEF IInv, TypeInv, ClaimInv, rows
<1> QED
  BY <1>1, <1>3, <1>4, <1>5, RowsUntouched DEF IInv

LEMMA DetectStep ==
  ASSUME IInv, NEW r \in Requests, Detect(r)
  PROVE  IInv'
<1> DEFINE found == [hit |-> Issued \ revoked, of |-> issued]
<1>1. /\ stage[r] = "lost"
      /\ stage' = [stage EXCEPT ![r] = "contain"]
      /\ reach' = [reach EXCEPT ![r] = found]
      /\ UNCHANGED <<now, rows, claimant, target, contained, socket>>
  BY DEF Detect, At
<1>2. found \in [hit : SUBSET Issued, of : 0 .. issued]
  BY DEF IInv, TypeInv
<1>3. TypeInv'
  BY <1>1, <1>2 DEF IInv, TypeInv, Stages, rows, Issued
<1>4. NamedInv' /\ ClaimInv'
  BY <1>1, RowsUntouched DEF IInv, TypeInv, NamedInv, ClaimInv, rows
<1>5. ReachInv'
  <2>1. 1 .. found.of \subseteq revoked \cup found.hit
    BY DEF Issued
  <2> QED
    BY <1>1, <2>1 DEF IInv, TypeInv, ReachInv, rows
<1> QED
  BY <1>1, <1>3, <1>4, <1>5, RowsUntouched DEF IInv

LEMMA ContainRaisesStep ==
  ASSUME IInv, NEW r \in Requests, ContainRaises(r)
  PROVE  IInv'
<1>1. /\ stage[r] = "contain"
      /\ stage' = [stage EXCEPT ![r] = "idle"]
      /\ target' = [target EXCEPT ![r] = 0]
      /\ reach' = [reach EXCEPT ![r] = Nothing]
      /\ UNCHANGED <<now, rows, claimant, contained, socket>>
  BY DEF ContainRaises, Done, At
<1>2. Nothing \in [hit : SUBSET Issued, of : 0 .. issued]
  BY DEF IInv, TypeInv, Nothing
<1>3. TypeInv'
  BY <1>1, <1>2 DEF IInv, TypeInv, Stages, rows, Issued
<1>4. NamedInv' /\ ClaimInv' /\ ReachInv'
  BY <1>1, RowsUntouched DEF IInv, TypeInv, NamedInv, ClaimInv, ReachInv, rows
<1> QED
  BY <1>1, <1>3, <1>4, RowsUntouched DEF IInv

-----------------------------------------------------------------------------
\* A revocation committed while a relay waits for its recheck is within one
\* recheck of it.
LEMMA RevokeKeepsSockets ==
  ASSUME IInv, NEW S \in SUBSET Issued, Revoke(S),
         Issued \subseteq Issued', UNCHANGED <<now, socket>>,
         \A s \in Issued : expires'[s] = expires[s]
  PROVE  SocketInv'
<1>1. /\ \A s \in Issued : s \in Ids
      /\ \A s \in Ids : s \in revoked => endedAt'[s] = endedAt[s]
      /\ \A s \in Ids : s \in revoked' \ revoked => endedAt'[s] = now
  <2>1. \A s \in Issued : s \in Ids
    BY DEF IInv, TypeInv, Issued, Ids
  <2>2. TypeInv
    BY DEF IInv
  <2> QED
    BY <2>1, <2>2, RevokeFacts
<1>2. now \in Nat
  BY DEF IInv, TypeInv
<1> SUFFICES ASSUME NEW w \in Sockets, socket[w].on # "off"
             PROVE  SocketInv!(w)'
  BY DEF SocketInv
<1> DEFINE k == socket[w]
<1>3. /\ k.session \in Issued /\ k.next \in Nat /\ k.until \in Int
      /\ now <= k.until
      /\ k.on = "accepted" =>
           /\ now <= expires[k.session]
           /\ k.session \in revoked => now <= endedAt[k.session]
      /\ k.on = "relay" =>
           /\ now <= k.next
           /\ k.next <= now + RecheckAfter
           /\ k.next <= expires[k.session] + RecheckAfter
           /\ k.session \in revoked => k.next <= endedAt[k.session] + RecheckAfter
  BY DEF IInv, SocketInv, TypeInv
<1> QED
  BY <1>1, <1>2, <1>3

\* What is revoked stays so: the claims of others are spared, and whatever a
\* containment was to reach is reached.
LEMMA RevokeKeepsRest ==
  ASSUME IInv, NEW S \in SUBSET Issued, Revoke(S), Unlocked(S),
         UNCHANGED <<issued, login, claimant>>
  PROVE  /\ OneLivePerLogin' /\ RootInv' /\ Issued' = Issued
         /\ \A r \in Requests : stage[r] = "won" => target[r] \notin revoked'
         /\ \A r \in Requests : stage[r] = "contain" =>
              1 .. reach[r].of \subseteq revoked' \cup reach[r].hit
<1>1. Issued' = Issued /\ revoked' = revoked \cup S
  BY DEF Issued, Revoke
<1>2. OneLivePerLogin' /\ RootInv'
  BY <1>1 DEF IInv, OneLivePerLogin, RootInv
<1>3. \A r \in Requests : stage[r] = "won" => target[r] \notin revoked'
  BY <1>1 DEF IInv, ClaimInv, Unlocked
<1>4. \A r \in Requests : stage[r] = "contain" =>
        1 .. reach[r].of \subseteq revoked' \cup reach[r].hit
  BY <1>1 DEF IInv, ReachInv
<1> QED
  BY <1>1, <1>2, <1>3, <1>4

LEMMA EndStep ==
  ASSUME IInv, NEW r \in Requests, End(r)
  PROVE  IInv'
<1> DEFINE S == {target[r]}
<1>1. /\ stage[r] = "end"
      /\ stage' = [stage EXCEPT ![r] = "idle"]
      /\ target' = [target EXCEPT ![r] = 0]
      /\ Unlocked(S) /\ Revoke(S)
      /\ UNCHANGED <<now, issued, login, expires, claimant, reach, contained, socket>>
  BY DEF End, Done, At
<1>2. S \in SUBSET Issued
  BY <1>1 DEF IInv, NamedInv
<1> HIDE DEF S
<1>3. /\ revoked' \in SUBSET Issued /\ endedAt' \in [Ids -> Nat]
      /\ Issued' = Issued /\ revoked \subseteq revoked'
  BY <1>1, <1>2, RevokeFacts DEF IInv, Issued, Revoke
<1>4. TypeInv'
  BY <1>1, <1>3 DEF IInv, TypeInv, Stages
<1>5. NamedInv'
  BY <1>1, <1>3 DEF IInv, TypeInv, NamedInv
<1>6. ClaimInv' /\ ReachInv' /\ OneLivePerLogin' /\ RootInv'
  BY <1>1, <1>2, RevokeKeepsRest DEF IInv, TypeInv, ClaimInv, ReachInv
<1>7. SocketInv'
  BY <1>1, <1>2, <1>3, RevokeKeepsSockets
<1>8. ReuseContained'
  BY <1>1, <1>3 DEF IInv, ReuseContained
<1> QED
  BY <1>4, <1>5, <1>6, <1>7, <1>8 DEF IInv

LEMMA ContainStep ==
  ASSUME IInv, NEW r \in Requests, Contain(r)
  PROVE  IInv'
<1> DEFINE S == reach[r].hit
<1>1. /\ stage[r] = "contain"
      /\ stage' = [stage EXCEPT ![r] = "idle"]
      /\ target' = [target EXCEPT ![r] = 0]
      /\ Unlocked(S) /\ Revoke(S)
      /\ contained' \in {reach[r].of, contained}
      /\ reach' = [reach EXCEPT ![r] = Nothing]
      /\ UNCHANGED <<now, issued, login, expires, claimant, socket>>
  BY DEF Contain, Done, At
<1>2. S \in SUBSET Issued /\ reach[r].of \in 0 .. issued
  BY DEF IInv, TypeInv
<1>3. 1 .. reach[r].of \subseteq revoked \cup S
  BY <1>1 DEF IInv, ReachInv
<1> HIDE DEF S
<1>4. /\ revoked' \in SUBSET Issued /\ endedAt' \in [Ids -> Nat]
      /\ Issued' = Issued /\ revoked' = revoked \cup S
  BY <1>1, <1>2, RevokeFacts DEF IInv, Issued, Revoke
<1>5. Nothing \in [hit : SUBSET Issued, of : 0 .. issued]
  BY DEF IInv, TypeInv, Nothing
<1>6. TypeInv'
  BY <1>1, <1>2, <1>4, <1>5 DEF IInv, TypeInv, Stages
<1>7. NamedInv'
  BY <1>1, <1>4 DEF IInv, TypeInv, NamedInv
<1>8. ClaimInv' /\ ReachInv' /\ OneLivePerLogin' /\ RootInv'
  BY <1>1, <1>2, RevokeKeepsRest DEF IInv, TypeInv, ClaimInv, ReachInv
<1>9. SocketInv'
  BY <1>1, <1>2, <1>4, RevokeKeepsSockets
<1>10. ReuseContained'
  BY <1>1, <1>3, <1>4 DEF IInv, ReuseContained
<1> QED
  BY <1>6, <1>7, <1>8, <1>9, <1>10 DEF IInv

\* The next session of a login is issued with the claim of the last one, so
\* the others of that login were ended before.
LEMMA IssueStep ==
  ASSUME IInv, NEW r \in Requests, Issue(r)
  PROVE  IInv'
<1> DEFINE s == target[r]
           n == issued + 1
<1>1. /\ stage[r] = "won" /\ now <= expires[s]
      /\ stage' = [stage EXCEPT ![r] = "idle"]
      /\ target' = [target EXCEPT ![r] = 0]
      /\ NewSession(login[s]) /\ Revoke({s})
      /\ claimant' = [claimant EXCEPT ![s] = Nobody]
      /\ UNCHANGED <<now, reach, contained, socket>>
  BY DEF Issue, Done, At
<1>2. /\ s \in Issued /\ s \in Ids /\ claimant[s] = r /\ s \notin revoked
      /\ login[s] \in 1 .. issued /\ TypeInv /\ issued \in Nat
  <2>1. TypeInv /\ issued \in Nat /\ Issued \subseteq Ids
    BY DEF IInv, TypeInv, Issued, Ids
  <2>2. s \in Issued /\ claimant[s] = r /\ s \notin revoked
    BY <1>1 DEF IInv, NamedInv, ClaimInv
  <2>3. login[s] \in 1 .. issued
    BY <2>2 DEF IInv, RootInv
  <2> QED
    BY <2>1, <2>2, <2>3
<1> HIDE DEF s
<1>3. /\ issued' = n /\ n \in 0 .. MaxSessions /\ n \in Ids
      /\ Issued' = Issued \cup {n}
      /\ login' \in [Ids -> Nat] /\ expires' \in [Ids -> Nat]
      /\ login'[n] = login[s]
      /\ \A t \in Issued : t \in Ids /\ login'[t] = login[t] /\ expires'[t] = expires[t]
  <2>1. login[s] \in Nat
    BY <1>2
  <2> QED
    BY <1>1, <1>2, <2>1, NewSessionFacts
<1>4. {s} \in SUBSET Issued
  BY <1>2
<1>5. revoked' \in SUBSET Issued /\ endedAt' \in [Ids -> Nat] /\ revoked' = revoked \cup {s}
  BY <1>1, <1>2, <1>4, RevokeFacts DEF Revoke
<1>6. 0 .. issued \subseteq 0 .. n /\ Issued \subseteq Issued'
  BY <1>2, <1>3
<1>7. TypeInv'
  <2>1. stage' \in [Requests -> Stages] /\ claimant' \in [Ids -> Requests \cup {Nobody}]
    BY <1>1, <1>2 DEF TypeInv, Stages
  <2>2. target' \in [Requests -> 0 .. n] /\ contained' \in 0 .. n
    BY <1>1, <1>2, <1>6 DEF TypeInv
  <2>3. reach' \in [Requests -> [hit : SUBSET Issued', of : 0 .. n]]
    BY <1>1, <1>2, <1>6 DEF TypeInv
  <2>4. socket' \in [Sockets -> [on : {"off", "accepted", "relay"}, session : 0 .. n,
                                 until : Int, next : Nat]]
    BY <1>1, <1>2, <1>6 DEF TypeInv
  <2>5. now' \in Nat /\ revoked' \in SUBSET Issued'
    BY <1>1, <1>2, <1>5, <1>6 DEF TypeInv
  <2> QED
    BY <1>3, <1>5, <2>1, <2>2, <2>3, <2>4, <2>5 DEF TypeInv
<1>8. NamedInv'
  BY <1>1, <1>2, <1>6 DEF IInv, TypeInv, NamedInv
<1>9. ClaimInv'
  <2>1. ASSUME NEW q \in Requests, stage'[q] = "won"
        PROVE  claimant'[target'[q]] = q /\ target'[q] \notin revoked'
    <3>1. q # r /\ stage[q] = "won" /\ target'[q] = target[q]
      BY <1>1, <1>2, <2>1 DEF TypeInv
    <3>2. claimant[target[q]] = q /\ target[q] \notin revoked
      BY <3>1 DEF IInv, ClaimInv
    <3>3. target[q] # s /\ target[q] \in Ids
      BY <1>2, <1>3, <3>1, <3>2 DEF IInv, NamedInv
    <3> QED
      BY <1>1, <1>2, <1>5, <3>1, <3>2, <3>3 DEF TypeInv
  <2>2. ASSUME NEW t \in Ids, claimant'[t] # Nobody
        PROVE  stage'[claimant'[t]] = "won" /\ target'[claimant'[t]] = t
    <3>1. t # s /\ claimant'[t] = claimant[t] /\ claimant[t] # Nobody
      BY <1>1, <1>2, <2>2 DEF TypeInv
    <3>2. /\ stage[claimant[t]] = "won" /\ target[claimant[t]] = t
          /\ claimant[t] \in Requests
      BY <1>2, <3>1 DEF IInv, ClaimInv, TypeInv
    <3>3. claimant[t] # r
      BY <3>1, <3>2 DEF s
    <3> QED
      BY <1>1, <1>2, <3>1, <3>2, <3>3 DEF TypeInv
  <2> QED
    BY <2>1, <2>2 DEF ClaimInv
<1>10. RootInv'
  BY <1>2, <1>3 DEF IInv, RootInv, Issued
<1>11. ReachInv'
  <2>1. ASSUME NEW q \in Requests, stage'[q] = "contain"
        PROVE  1 .. reach'[q].of \subseteq revoked' \cup reach'[q].hit
    <3>1. stage[q] = "contain" /\ reach' = reach
      BY <1>1, <1>2, <2>1 DEF TypeInv
    <3> QED
      BY <1>5, <3>1 DEF IInv, ReachInv
  <2> QED
    BY <2>1 DEF ReachInv
<1>12. SocketInv'
  BY <1>1, <1>3, <1>4, <1>6, RevokeKeepsSockets
<1>13. OneLivePerLogin'
  <2>1. \A t \in Issued : login[t] = login[s] /\ t # s => t \in revoked
    BY <1>2 DEF IInv, OneLivePerLogin
  <2>2. ASSUME NEW t \in Issued', NEW u \in Issued', login'[t] = login'[u], t # u
        PROVE  t \in revoked' \/ u \in revoked'
    <3>1. CASE t \in Issued /\ u \in Issued
      BY <1>3, <1>5, <2>2, <3>1 DEF IInv, OneLivePerLogin
    <3>2. CASE t = n /\ u \in Issued
      BY <1>3, <1>5, <2>1, <2>2, <3>2
    <3>3. CASE u = n /\ t \in Issued
      BY <1>3, <1>5, <2>1, <2>2, <3>3
    <3> QED
      BY <1>3, <2>2, <3>1, <3>2, <3>3
  <2> QED
    BY <2>2 DEF OneLivePerLogin
<1>14. ReuseContained'
  BY <1>1, <1>5 DEF IInv, ReuseContained
<1> QED
  BY <1>7, <1>8, <1>9, <1>10, <1>11, <1>12, <1>13, <1>14 DEF IInv

LEMMA LoginStep ==
  ASSUME IInv, Login
  PROVE  IInv'
<1> DEFINE n == issued + 1
<1>1. /\ NewSession(n)
      /\ UNCHANGED <<now, revoked, endedAt, claimant, stage, target, reach, contained, socket>>
  BY DEF Login
<1>2. TypeInv /\ issued \in Nat /\ n \in Nat
  BY DEF IInv, TypeInv
<1>3. /\ issued' = n /\ n \in 0 .. MaxSessions /\ n \in Ids
      /\ Issued' = Issued \cup {n}
      /\ login' \in [Ids -> Nat] /\ expires' \in [Ids -> Nat]
      /\ login'[n] = n
      /\ \A t \in Issued : t \in Ids /\ login'[t] = login[t] /\ expires'[t] = expires[t]
  BY <1>1, <1>2, NewSessionFacts
<1>4. 0 .. issued \subseteq 0 .. n /\ Issued \subseteq Issued'
  BY <1>2, <1>3
<1>5. TypeInv'
  <2>1. target' \in [Requests -> 0 .. n] /\ contained' \in 0 .. n
    BY <1>1, <1>2, <1>4 DEF TypeInv
  <2>2. reach' \in [Requests -> [hit : SUBSET Issued', of : 0 .. n]]
    BY <1>1, <1>2, <1>4 DEF TypeInv
  <2>3. socket' \in [Sockets -> [on : {"off", "accepted", "relay"}, session : 0 .. n,
                                 until : Int, next : Nat]]
    BY <1>1, <1>2, <1>4 DEF TypeInv
  <2>4. revoked' \in SUBSET Issued'
    BY <1>1, <1>2, <1>4 DEF TypeInv
  <2> QED
    BY <1>1, <1>2, <1>3, <2>1, <2>2, <2>3, <2>4 DEF TypeInv
<1>6. NamedInv' /\ ClaimInv' /\ ReachInv' /\ ReuseContained'
  BY <1>1, <1>4 DEF IInv, NamedInv, ClaimInv, ReachInv, ReuseContained
<1>7. RootInv'
  BY <1>2, <1>3 DEF IInv, RootInv, Issued
<1>8. SocketInv'
  BY <1>1, <1>3 DEF IInv, SocketInv
<1>9. OneLivePerLogin'
  <2>1. \A t \in Issued : login[t] # n
    BY <1>2 DEF IInv, RootInv
  <2>2. ASSUME NEW t \in Issued', NEW u \in Issued', login'[t] = login'[u], t # u
        PROVE  t \in revoked' \/ u \in revoked'
    <3>1. t \in Issued /\ u \in Issued
      BY <1>3, <2>1, <2>2
    <3> QED
      BY <1>1, <1>3, <2>2, <3>1 DEF IInv, OneLivePerLogin
  <2> QED
    BY <2>2 DEF OneLivePerLogin
<1> QED
  BY <1>5, <1>6, <1>7, <1>8, <1>9 DEF IInv
-----------------------------------------------------------------------------
\* What only moves sockets leaves everything else as it is.
LEMMA RequestsUntouched ==
  ASSUME IInv, UNCHANGED <<rows, claimant, stage, target, reach, contained>>
  PROVE  NamedInv' /\ ClaimInv' /\ RootInv' /\ ReachInv' /\ OneLivePerLogin' /\ ReuseContained'
  BY DEF IInv, rows, NamedInv, ClaimInv, RootInv, ReachInv, OneLivePerLogin, ReuseContained, Issued

LEMMA TickStep ==
  ASSUME IInv, Tick
  PROVE  IInv'
<1>1. /\ now' = now + 1
      /\ \A w \in Sockets :
           socket[w].on # "off" => socket[w].on = "relay" /\ now < socket[w].next /\ now < socket[w].until
      /\ UNCHANGED <<rows, claimant, stage, target, reach, contained, socket>>
  BY DEF Tick
<1>2. TypeInv'
  BY <1>1 DEF IInv, TypeInv, rows, Issued
<1>3. SocketInv'
  <2> SUFFICES ASSUME NEW w \in Sockets, socket[w].on # "off"
               PROVE  SocketInv!(w)'
    BY <1>1 DEF SocketInv
  <2>1. /\ socket[w].next \in Nat /\ socket[w].until \in Int /\ now \in Nat
    BY DEF IInv, TypeInv
  <2> QED
    BY <1>1, <2>1 DEF IInv, SocketInv, rows, Issued
<1> QED
  BY <1>1, <1>2, <1>3, RequestsUntouched DEF IInv

\* One socket moves, and what it moves to is in order.
LEMMA SocketStep ==
  ASSUME IInv, NEW w \in Sockets, NEW k,
         k \in [on : {"off", "accepted", "relay"}, session : 0 .. issued, until : Int, next : Nat],
         socket' = [socket EXCEPT ![w] = k],
         UNCHANGED <<now, rows, claimant, stage, target, reach, contained>>,
         k.on # "off" =>
           /\ k.session \in Issued
           /\ now <= k.until
           /\ k.on = "accepted" => now <= expires[k.session] /\ k.session \notin revoked
           /\ k.on = "relay" =>
                /\ now <= k.next
                /\ k.next <= now + RecheckAfter
                /\ k.next <= expires[k.session] + RecheckAfter
                /\ k.session \in revoked => k.next <= endedAt[k.session] + RecheckAfter
  PROVE  IInv'
<1>1. TypeInv'
  BY DEF IInv, TypeInv, rows, Issued
<1>2. SocketInv'
  <2>1. socket'[w] = k /\ \A v \in Sockets \ {w} : socket'[v] = socket[v]
    BY DEF IInv, TypeInv
  <2> SUFFICES ASSUME NEW v \in Sockets, socket'[v].on # "off"
               PROVE  SocketInv!(v)'
    BY DEF SocketInv
  <2>2. CASE v = w
    BY <2>1, <2>2 DEF rows, Issued
  <2>3. CASE v # w
    BY <2>1, <2>3 DEF IInv, SocketInv, rows, Issued
  <2> QED
    BY <2>2, <2>3
<1> QED
  BY <1>1, <1>2, RequestsUntouched DEF IInv

LEMMA RelayInv ==
  ASSUME IInv, NEW w \in Sockets, Relay(w)
  PROVE  IInv'
<1> DEFINE R == [on : {"off", "accepted", "relay"}, session : 0 .. issued, until : Int, next : Nat]
<1>1. socket[w] \in R /\ now \in Nat /\ issued \in Nat /\ now + RecheckAfter \in Nat
  BY DEF IInv, TypeInv
<1>2. Closed \in R /\ Closed.on = "off"
  BY <1>1 DEF Closed
<1>3. CASE CloseRelay(w)
  BY <1>2, <1>3, SocketStep DEF CloseRelay
<1>4. ASSUME NEW s \in Issued, Handshake(w, s)
      PROVE  IInv'
  <2>1. s \in 0 .. issued /\ s \in Ids /\ expires[s] \in Nat
    BY DEF IInv, TypeInv, Issued, Ids
  <2>2. PICK until \in now .. expires[s] - SessionLife + AccessLife :
          socket' = [socket EXCEPT ![w] = [on |-> "accepted", session |-> s, until |-> until, next |-> 0]]
    BY <1>4 DEF Handshake
  <2> DEFINE k == [on |-> "accepted", session |-> s, until |-> until, next |-> 0]
  <2>3. until \in Int /\ now <= until
    BY <1>1, <2>1, <2>2
  <2>4. k \in R /\ k.on = "accepted" /\ k.session = s /\ k.until = until
    BY <2>1, <2>3
  <2>5. /\ s \notin revoked /\ now <= expires[s]
        /\ UNCHANGED <<now, rows, claimant, stage, target, reach, contained>>
    BY <1>4 DEF Handshake, Live
  <2>6. socket' = [socket EXCEPT ![w] = k]
    BY <2>2
  <2> HIDE DEF k
  <2> QED
    BY <2>3, <2>4, <2>5, <2>6, SocketStep
<1>5. CASE StartRelay(w)
  <2> DEFINE k == [socket[w] EXCEPT !.on = "relay", !.next = now + RecheckAfter]
  <2>1. /\ socket[w].on = "accepted"
        /\ socket' = [socket EXCEPT ![w].on = "relay", ![w].next = now + RecheckAfter]
        /\ UNCHANGED <<now, rows, claimant, stage, target, reach, contained>>
    BY <1>5 DEF StartRelay
  <2>2. socket' = [socket EXCEPT ![w] = k]
    BY <1>1, <2>1 DEF IInv, TypeInv
  <2>3. /\ k \in R /\ k.on = "relay" /\ k.session = socket[w].session
        /\ k.until = socket[w].until /\ k.next = now + RecheckAfter
    BY <1>1
  <2>4. /\ socket[w].session \in Issued /\ now <= socket[w].until
        /\ now <= expires[socket[w].session]
        /\ socket[w].session \in revoked => now <= endedAt[socket[w].session]
    BY <2>1 DEF IInv, SocketInv
  <2>5. /\ socket[w].session \in Ids
        /\ expires[socket[w].session] \in Nat /\ endedAt[socket[w].session] \in Nat
    BY <2>4 DEF IInv, TypeInv, Issued, Ids
  <2>6. /\ k.session \in Issued /\ now <= k.until /\ now <= k.next
        /\ k.next <= now + RecheckAfter
        /\ k.next <= expires[k.session] + RecheckAfter
        /\ k.session \in revoked => k.next <= endedAt[k.session] + RecheckAfter
    BY <1>1, <2>3, <2>4, <2>5
  <2> HIDE DEF k
  <2> QED
    BY <2>1, <2>2, <2>3, <2>6, SocketStep
<1>6. CASE Recheck(w)
  <2> DEFINE k == [socket[w] EXCEPT !.next = now + RecheckAfter]
  <2>1. /\ socket[w].on = "relay"
        /\ \/ Live(socket[w].session) /\ socket' = [socket EXCEPT ![w] = k]
           \/ socket' = [socket EXCEPT ![w] = Closed]
        /\ UNCHANGED <<now, rows, claimant, stage, target, reach, contained>>
    BY <1>6 DEF Recheck, IInv, TypeInv
  <2>2. CASE socket' = [socket EXCEPT ![w] = Closed]
    BY <1>2, <2>1, <2>2, SocketStep
  <2>3. CASE Live(socket[w].session) /\ socket' = [socket EXCEPT ![w] = k]
    <3>1. /\ k \in R /\ k.on = "relay" /\ k.session = socket[w].session
          /\ k.until = socket[w].until /\ k.next = now + RecheckAfter
      BY <1>1, <2>1
    <3>2. /\ socket[w].session \in Issued /\ now <= socket[w].until
          /\ now <= expires[socket[w].session] /\ socket[w].session \notin revoked
      BY <2>1, <2>3 DEF IInv, SocketInv, Live
    <3>3. socket[w].session \in Ids /\ expires[socket[w].session] \in Nat
      BY <3>2 DEF IInv, TypeInv, Issued, Ids
    <3>4. /\ k.session \in Issued /\ now <= k.until /\ now <= k.next
          /\ k.next <= now + RecheckAfter
          /\ k.next <= expires[k.session] + RecheckAfter
          /\ k.session \notin revoked
      BY <1>1, <3>1, <3>2, <3>3
    <3> HIDE DEF k
    <3> QED
      BY <2>1, <2>3, <3>1, <3>4, SocketStep
  <2> QED
    BY <2>1, <2>2, <2>3
<1> QED
  BY <1>3, <1>4, <1>5, <1>6 DEF Relay

LEMMA NextInv == IInv /\ [Next]_vars => IInv'
<1> SUFFICES ASSUME IInv, [Next]_vars PROVE IInv'
  OBVIOUS
<1>1. CASE Login
  BY <1>1, LoginStep
<1>2. CASE Tick
  BY <1>2, TickStep
<1>3. ASSUME NEW r \in Requests, Request(r)
      PROVE  IInv'
  BY <1>3, ClaimStep, IssueStep, RollBackStep, DetectStep, ContainStep,
     ContainRaisesStep, EndStep, BeginInv DEF Request
<1>4. ASSUME NEW w \in Sockets, Relay(w)
      PROVE  IInv'
  BY <1>4, RelayInv
<1>5. CASE UNCHANGED vars
  BY <1>5 DEF vars, rows, IInv, TypeInv, NamedInv, ClaimInv, RootInv, ReachInv, SocketInv,
     OneLivePerLogin, ReuseContained, Issued
<1> QED
  BY <1>1, <1>2, <1>3, <1>4, <1>5 DEF Next

LEMMA AlwaysIInv == Spec => []IInv
<1>1. Init => IInv
  BY InitInv
<1>2. IInv /\ [Next]_vars => IInv'
  BY NextInv
<1> QED
  BY <1>1, <1>2, PTL DEF Spec

\* However many refreshes present a login's tokens at once, one session of it
\* is live: the winner of the conditional UPDATE holds its row until the next
\* session is committed.
THEOREM OneSessionPerLogin == Spec => []OneLivePerLogin
<1>1. IInv => OneLivePerLogin
  BY DEF IInv
<1> QED
  BY <1>1, AlwaysIInv, PTL

\* A token presented twice ends whatever had been issued when that was seen,
\* also what was being rotated meanwhile: its claimant holds the row, and
\* whether it commits or rolls back the containment then ends it.
THEOREM ReuseEndsEverything == Spec => []ReuseContained
<1>1. IInv => ReuseContained
  BY DEF IInv
<1> QED
  BY <1>1, AlwaysIInv, PTL

\* A relay ends at most one recheck after its session, and with its token.
THEOREM RelaysEnd == Spec => []RelayBounded
<1>1. IInv => RelayBounded
  <2> SUFFICES ASSUME IInv, NEW w \in Sockets, socket[w].on = "relay"
               PROVE  RelayBounded!(w)
    BY DEF RelayBounded
  <2>1. /\ socket[w].session \in Issued /\ now <= socket[w].until /\ now <= socket[w].next
        /\ socket[w].next <= expires[socket[w].session] + RecheckAfter
        /\ socket[w].session \in revoked =>
             socket[w].next <= endedAt[socket[w].session] + RecheckAfter
    BY DEF IInv, SocketInv
  <2>2. /\ now \in Nat /\ socket[w].next \in Nat
        /\ expires[socket[w].session] \in Nat /\ endedAt[socket[w].session] \in Nat
    BY <2>1 DEF IInv, TypeInv, Issued, Ids
  <2> QED
    BY <2>1, <2>2
<1> QED
  BY <1>1, AlwaysIInv, PTL
=============================================================================
