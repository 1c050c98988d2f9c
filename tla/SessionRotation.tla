--------------------------- MODULE SessionRotation ---------------------------
(***************************************************************************)
(* The sessions of one user (auth/service.py) and the sockets opened from  *)
(* them (api/websockets.py).                                               *)
(*                                                                         *)
(* A login issues a session, a refresh claims the one its token names with *)
(* a single conditional UPDATE and issues the next, a token presented      *)
(* again ends every session of the user, and a logout or a revocation ends *)
(* one.  Several requests run at once in transactions of their own: what a *)
(* claim changed is seen by others at its commit, and a writer of a        *)
(* claimed row waits for that commit or for the rollback.                  *)
(*                                                                         *)
(* A socket is let in on a live session and an unexpired access token, and *)
(* from then on only timers look at either.                                *)
(*                                                                         *)
(* A token is the session it names; one that names no session or does not  *)
(* match its hash changes nothing and is left out.  Timers fire on time.   *)
(***************************************************************************)
EXTENDS Integers, FiniteSets

CONSTANTS Requests, Sockets,
          SessionLife,  \* refresh_token_expire_days
          AccessLife,   \* access_token_expire_minutes
          RecheckAfter, \* SESSION_RECHECK_SECONDS
          MaxSessions,  \* bound: sessions ever issued
          MaxTime       \* bound: the clock

ASSUME TimesAssumption == SessionLife \in Nat /\ AccessLife \in Nat /\ RecheckAfter \in Nat \ {0}
ASSUME BoundsAssumption == MaxSessions \in Nat /\ MaxTime \in Nat

Ids    == 1 .. MaxSessions
Nobody == "nobody"
ASSUME NobodyAssumption == Nobody \notin Requests

VARIABLES
  now,
  issued,    \* how many sessions there are
  login,     \* history: the login a session descends from
  expires,   \* sessions.expires_at
  revoked,   \* sessions.revoked, as committed
  endedAt,   \* history: when a revocation was committed
  claimant,  \* the transaction that holds a session's row
  stage,     \* where a request is
  target,    \* the session its token names
  reach,     \* what its UPDATE over all sessions of the user found, of how many
  contained, \* history: how many sessions there were at a reuse dealt with
  socket     \* the relays

rows == <<issued, login, expires, revoked, endedAt>>
vars == <<now, rows, claimant, stage, target, reach, contained, socket>>

Issued  == 1 .. issued
Live(s) == s \notin revoked /\ now <= expires[s]
Closed  == [on |-> "off", session |-> 0, until |-> 0, next |-> 0]

Nothing == [hit |-> {}, of |-> 0]

Init ==
  /\ now = 0
  /\ issued = 0 /\ login = [s \in Ids |-> 0] /\ expires = [s \in Ids |-> 0]
  /\ revoked = {} /\ endedAt = [s \in Ids |-> 0]
  /\ claimant = [s \in Ids |-> Nobody]
  /\ stage = [r \in Requests |-> "idle"] /\ target = [r \in Requests |-> 0]
  /\ reach = [r \in Requests |-> Nothing] /\ contained = 0
  /\ socket = [w \in Sockets |-> Closed]
-----------------------------------------------------------------------------
At(r, from, to) == stage[r] = from /\ stage' = [stage EXCEPT ![r] = to]
Done(r, from)   == At(r, from, "idle") /\ target' = [target EXCEPT ![r] = 0]

(* _issue_tokens, up to its commit.                                        *)
NewSession(root) ==
  /\ issued < MaxSessions /\ issued' = issued + 1
  /\ login' = [login EXCEPT ![issued + 1] = root]
  /\ expires' = [expires EXCEPT ![issued + 1] = now + SessionLife]

(* A committed revocation; one that finds the row revoked changes nothing. *)
Revoke(S) ==
  /\ revoked' = revoked \cup S
  /\ endedAt' = [s \in Ids |-> IF s \in S \ revoked THEN now ELSE endedAt[s]]

Unlocked(S) == \A s \in S : claimant[s] = Nobody

(* A password that is accepted.                                            *)
Login ==
  /\ NewSession(issued + 1)
  /\ UNCHANGED <<now, revoked, endedAt, claimant, stage, target, reach, contained, socket>>

(* The token decodes: its signature and its own expiry are checked.        *)
BeginRefresh(r, s) ==
  /\ At(r, "idle", "claim") /\ now <= expires[s]
  /\ target' = [target EXCEPT ![r] = s]
  /\ UNCHANGED <<now, rows, claimant, reach, contained, socket>>

(* Mutant: the session is read, and claimed by no one.                     *)
ClaimByReading(r) ==
  LET s == target[r] IN
  /\ IF s \notin revoked THEN At(r, "claim", "won") ELSE At(r, "claim", "lost")
  /\ UNCHANGED <<now, rows, claimant, target, reach, contained, socket>>

(* UPDATE ... WHERE id AND NOT revoked: waits for whoever holds the row,   *)
(* then finds it or not.                                                   *)
Claim(r) ==
  LET s == target[r] IN
  /\ stage[r] = "claim" /\ Unlocked({s})
  /\ IF s \notin revoked
     THEN At(r, "claim", "won") /\ claimant' = [claimant EXCEPT ![s] = r]
     ELSE At(r, "claim", "lost") /\ UNCHANGED claimant
  /\ UNCHANGED <<now, rows, target, reach, contained, socket>>

(* The winner issues the next session; both are committed at once.         *)
Issue(r) ==
  LET s == target[r] IN
  /\ Done(r, "won") /\ now <= expires[s]
  /\ NewSession(login[s]) /\ Revoke({s})
  /\ claimant' = [claimant EXCEPT ![s] = Nobody]
  /\ UNCHANGED <<now, reach, contained, socket>>

(* The session expired meanwhile, the user is gone, or something raises    *)
(* before the commit: the claim is rolled back.                            *)
RollBack(r) ==
  /\ Done(r, "won")
  /\ claimant' = [claimant EXCEPT ![target[r]] = Nobody]
  /\ UNCHANGED <<now, rows, reach, contained, socket>>

(* Mutant: only the session the token names is ended.                      *)
DetectNamed(r) ==
  /\ At(r, "lost", "contain")
  /\ reach' = [reach EXCEPT ![r] = [hit |-> {target[r]}, of |-> issued]]
  /\ UNCHANGED <<now, rows, claimant, target, contained, socket>>

(* The token was used before: UPDATE every unrevoked session of the user,  *)
(* those of its snapshot ...                                               *)
Detect(r) ==
  /\ At(r, "lost", "contain")
  /\ reach' = [reach EXCEPT ![r] = [hit |-> Issued \ revoked, of |-> issued]]
  /\ UNCHANGED <<now, rows, claimant, target, contained, socket>>

(* ... waiting for the rows that are claimed, committed by record_audit.   *)
Contain(r) ==
  /\ Done(r, "contain") /\ Unlocked(reach[r].hit) /\ Revoke(reach[r].hit)
  /\ contained' = IF reach[r].of > contained THEN reach[r].of ELSE contained
  /\ reach' = [reach EXCEPT ![r] = Nothing]
  /\ UNCHANGED <<now, issued, login, expires, claimant, socket>>

(* The database fails before the commit: the reuse stays undealt with.     *)
ContainRaises(r) ==
  /\ Done(r, "contain")
  /\ reach' = [reach EXCEPT ![r] = Nothing]
  /\ UNCHANGED <<now, rows, claimant, contained, socket>>

(* logout and revoke_session read the session, then update its row.        *)
BeginEnd(r, s) ==
  /\ s \notin revoked /\ At(r, "idle", "end")
  /\ target' = [target EXCEPT ![r] = s]
  /\ UNCHANGED <<now, rows, claimant, reach, contained, socket>>
End(r) ==
  /\ Done(r, "end") /\ Unlocked({target[r]}) /\ Revoke({target[r]})
  /\ UNCHANGED <<now, issued, login, expires, claimant, reach, contained, socket>>
-----------------------------------------------------------------------------
(* _authenticate: the access token of session s has until left.            *)
Handshake(w, s) ==
  /\ socket[w] = Closed /\ Live(s)
  /\ \E until \in now .. expires[s] - SessionLife + AccessLife :
       socket' = [socket EXCEPT ![w] = [on |-> "accepted", session |-> s, until |-> until, next |-> 0]]
  /\ UNCHANGED <<now, rows, claimant, stage, target, reach, contained>>

(* _relay: the watchers start.                                             *)
StartRelay(w) ==
  /\ socket[w].on = "accepted"
  /\ socket' = [socket EXCEPT ![w].on = "relay", ![w].next = now + RecheckAfter]
  /\ UNCHANGED <<now, rows, claimant, stage, target, reach, contained>>

(* Mutant: the recheck asks whether the session expired.                   *)
RecheckExpiry(w) ==
  /\ socket[w].on = "relay" /\ socket[w].next = now
  /\ socket' = [socket EXCEPT ![w] = IF now <= expires[@.session] THEN [@ EXCEPT !.next = now + RecheckAfter] ELSE Closed]
  /\ UNCHANGED <<now, rows, claimant, stage, target, reach, contained>>

(* _watch_for_revocation wakes up.                                         *)
Recheck(w) ==
  /\ socket[w].on = "relay" /\ socket[w].next = now
  /\ socket' = [socket EXCEPT ![w] = IF Live(@.session) THEN [@ EXCEPT !.next = now + RecheckAfter] ELSE Closed]
  /\ UNCHANGED <<now, rows, claimant, stage, target, reach, contained>>

(* The first watcher to return ends the relay: the token expires, the      *)
(* client goes away, the channel or a recheck raises.                      *)
CloseRelay(w) ==
  /\ socket[w].on = "relay" /\ socket' = [socket EXCEPT ![w] = Closed]
  /\ UNCHANGED <<now, rows, claimant, stage, target, reach, contained>>

(* Time passes up to the next timer.                                       *)
Tick ==
  /\ now < MaxTime /\ now' = now + 1
  /\ \A w \in Sockets :
       socket[w].on # "off" => socket[w].on = "relay" /\ now < socket[w].next /\ now < socket[w].until
  /\ UNCHANGED <<rows, claimant, stage, target, reach, contained, socket>>

Request(r) ==
  \/ Claim(r) \/ Issue(r) \/ RollBack(r) \/ Detect(r) \/ Contain(r) \/ ContainRaises(r) \/ End(r)
  \/ \E s \in Issued : BeginRefresh(r, s) \/ BeginEnd(r, s)
Relay(w) ==
  \/ StartRelay(w) \/ Recheck(w) \/ CloseRelay(w)
  \/ \E s \in Issued : Handshake(w, s)
Next == Login \/ Tick \/ (\E r \in Requests : Request(r)) \/ (\E w \in Sockets : Relay(w))

Spec == Init /\ [][Next]_vars
-----------------------------------------------------------------------------
(* A login has at most one live session at a time, however many refreshes  *)
(* present its tokens at once ("A single conditional UPDATE decides the    *)
(* winner in the database").                                               *)
OneLivePerLogin ==
  \A s, t \in Issued : login[s] = login[t] /\ s # t => s \in revoked \/ t \in revoked

(* Once a reuse was dealt with, no session that had been issued when it    *)
(* was detected is live, not even one whose rotation was rolled back       *)
(* meanwhile ("Contain it the same way a user hitting the kill switch      *)
(* would: revoke every active session for this user").                     *)
ReuseContained == 1 .. contained \subseteq revoked

(* No socket relays longer than one recheck after its session ended, nor   *)
(* past the token that opened it.                                          *)
RelayBounded ==
  \A w \in Sockets :
    LET k == socket[w] IN
    k.on = "relay" =>
      /\ now <= k.until
      /\ k.session \in revoked => now <= endedAt[k.session] + RecheckAfter
      /\ now <= expires[k.session] + RecheckAfter
=============================================================================
