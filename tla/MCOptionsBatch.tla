--------------------------- MODULE MCOptionsBatch ---------------------------
(* OptionsBatch on small instances.                                        *)
EXTENDS OptionsBatch

CONSTANTS call, put

Leg(s, side, qty) == [sym |-> s, side |-> side, qty |-> qty]

(* A spread of one lot, a short straddle of unequal legs, a spread of two. *)
Strategies == { <<Leg(call, 1, 1), Leg(put, -1, 1)>>,
                <<Leg(call, -1, 2), Leg(put, -1, 1)>>,
                <<Leg(call, 1, 2), Leg(put, -1, 2)>> }

(* And one that asks for the same contract twice.                          *)
StrategiesAndTwins == Strategies \cup { <<Leg(call, -1, 1), Leg(call, -1, 1)>> }
=============================================================================
