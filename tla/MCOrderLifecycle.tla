--------------------------- MODULE MCOrderLifecycle ---------------------------
(* OrderLifecycle on small instances.                                      *)
EXTENDS OrderLifecycle

(* The handlers are interchangeable.                                       *)
HandlerSymmetry == Permutations(Handlers)
=============================================================================
