----------------------------- MODULE MCTradeLock -----------------------------
(* TradeLock on small instances: two handlers of the API and the worker.   *)
EXTENDS TradeLock, TLC

(* The handlers are interchangeable; the worker is not one of them.        *)
HandlerSymmetry == Permutations(ApiCalls)
=============================================================================
