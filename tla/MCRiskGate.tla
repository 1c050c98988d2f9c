---------------------------- MODULE MCRiskGate ----------------------------
EXTENDS RiskGate

\* Two symbols that move together; the auto-trade worker is short of one.
MCCorrelation == [s, t \in Symbols |-> IF s = t THEN 0 ELSE 1]
CONSTANTS Hedged
\* Entries at 2 and 4, at the market or limited at the other; the stop between, so on
\* the wrong side of half of them.
MCRequests == {o \in Orders : /\ o.stop = 3
                              /\ <<o.entry, o.limit>> \in {<<2, NoLimit>>, <<4, NoLimit>>, <<2, 4>>, <<4, 2>>}}
MCElsewhere == [s \in Symbols |-> IF s = Hedged THEN -1 ELSE 0]
=============================================================================
