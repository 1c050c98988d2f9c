----------------------------- MODULE AccountGate -----------------------------
(***************************************************************************)
(* What the trade lock is for, said without a lock: the account's recorded *)
(* exposure, one figure per engine, grows only by steps that check the     *)
(* whole account against the limit and record the result at once.  After a *)
(* lapse (a lease outlived, a gate taken without one, a row not written)   *)
(* nothing more is promised, which is the reservation the code's comments  *)
(* make themselves.                                                        *)
(***************************************************************************)
EXTENDS Integers

CONSTANTS Limit,     \* the account's exposure limit
          MaxOrder   \* the largest exposure one order may add

VARIABLES manual,    \* exposure recorded for the manual stack
          auto,      \* exposure recorded for the auto-trade supervisor
          lapsed     \* has a guarantee of the lock been given up

gateVars == <<manual, auto, lapsed>>

Init == manual = 0 /\ auto = 0 /\ lapsed = FALSE

(* One engine records an order: checked against the whole account.         *)
RecordManual == \E m \in 0 .. manual + MaxOrder :
                   /\ m + auto <= Limit \/ m <= manual
                   /\ manual' = m
                   /\ UNCHANGED <<auto, lapsed>>

RecordAuto == \E a \in 0 .. auto + MaxOrder :
                   /\ a + manual <= Limit \/ a <= auto
                   /\ auto' = a
                   /\ UNCHANGED <<manual, lapsed>>

Lapse == lapsed' = TRUE /\ UNCHANGED <<manual, auto>>

Unpromised == lapsed /\ lapsed' /\ manual' \in Nat /\ auto' \in Nat

Next == RecordManual \/ RecordAuto \/ Lapse \/ Unpromised

Spec == Init /\ [][Next]_gateVars
=============================================================================
