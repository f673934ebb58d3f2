----------------------------- MODULE MCExecutor -----------------------------
(* A script that goes back to its first step, and whose second is an action;  *)
(* one account, because no step touches two.                                  *)
EXTENDS Executor, TLC

Loop == (1 :> 2) @@ (2 :> 1)
=============================================================================
