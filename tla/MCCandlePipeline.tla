-------------------------- MODULE MCCandlePipeline ---------------------------
(* Two derived timeframes, as the worker has its 5m and 15m.               *)
EXTENDS CandlePipeline

MCTimeframes == <<2, 4>>
=============================================================================
