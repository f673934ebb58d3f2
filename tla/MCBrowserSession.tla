-------------------------- MODULE MCBrowserSession --------------------------
(***************************************************************************)
(* The browsers of the accounts, for TLC: the pool (BrowserSession), and what   *)
(* keeps an account out of it after a checkpoint (Cooldown).  The pool takes    *)
(* the gate for a choice, and Cooldown takes the pool for one, so they share    *)
(* no variable: part says which of them a behaviour is about.                 *)
(***************************************************************************)
EXTENDS BrowserSession, TLC

CONSTANTS Caller, MaxFaults   \* as Call and MaxFaults of Cooldown

ASSUME CallerAssumption == IsFiniteSet(Caller) /\ MaxFaults \in Nat

VARIABLES part, row, caller, warned, after, wiped, faults

cooldownVars == <<row, caller, warned, after, wiped, faults>>

D == INSTANCE Cooldown WITH Call <- Caller, call <- caller

PoolInit == part \in {"pool", "cooldown"} /\ Init /\ D!Init

PoolNext ==
    \/ part = "pool" /\ Next /\ UNCHANGED <<part, cooldownVars>>
    \/ part = "cooldown" /\ D!Next /\ UNCHANGED <<part, vars>>

PoolSpec == PoolInit /\ [][PoolNext]_<<part, vars, cooldownVars>>

Interchangeable == Permutations(Call) \cup Permutations(Browser) \cup Permutations(Account)
-----------------------------------------------------------------------------
(* browser-session.service.ts 140-163, simple-tasks.controller.ts 523: once a   *)
(* checkpoint has been recorded, few browsers of the account are handed out.    *)
FewAfterCheckpoint == D!FewAfterCheckpoint
=============================================================================
