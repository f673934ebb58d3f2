----------------------------- MODULE MCAccounts -----------------------------
(***************************************************************************)
(* The rows a user owns, for TLC: his Facebook accounts (Accounts), his       *)
(* proxies and chat scripts (Configs), and the alerts and recovery logs of an  *)
(* account (Recovery).  They share no variable: part says which of them a      *)
(* behaviour is about, and the others rest.  As one part is in motion at a     *)
(* time, the parts use the same model values for their symmetric sets.        *)
(***************************************************************************)
EXTENDS Accounts, TLC

CONSTANTS NoVpn, PackSize, MaxAttempts, MaxManual, MaxCrashes

(* A user's proxies, the scripts of a pack, and the limits of recoveryConfig and of a behaviour      *)
ASSUME RowsAssumption ==
    /\ NoVpn \notin Id /\ PackSize \in Nat \ {0}
    /\ MaxAttempts \in Nat \ {0} /\ MaxManual \in Nat /\ MaxCrashes \in Nat

VARIABLES part,
          vpn, copies, task,
          status, sample, active, check, rec, ended, stuck, manuals, crashes

configVars == <<vpn, copies, task>>
recoveryVars == <<status, sample, active, check, rec, ended, stuck, manuals, crashes>>

C == INSTANCE Configs WITH Vpn <- Id, Lang <- {"zh", "en"}, Caller <- Request

(* Checks that overlap, and detections that overlap with one check.           *)
H == INSTANCE Recovery WITH Checker <- Request, Detector <- {}, Alert <- 1..2 * Cardinality(Request)

V == INSTANCE Recovery WITH Checker <- {"check"}, Detector <- Request, Alert <- 1..2 * Cardinality(Request)

RowsInit ==
    /\ part \in {"accounts", "vpn", "scripts", "alerts", "recovery"}
    /\ Init
    /\ part # "accounts" => quota = 1 /\ rows = [i \in Id |-> Unborn]
    /\ C!Init
    /\ part # "vpn" => vpn = [v \in Id |-> C!NoConfig]
    /\ IF part = "recovery" THEN V!Init ELSE H!Init

RowsNext ==
    \/ part = "accounts" /\ Next /\ UNCHANGED <<part, configVars, recoveryVars>>
    \/ part = "vpn" /\ (C!VpnNext \/ C!ConfigCrash) /\ UNCHANGED <<part, vars, recoveryVars>>
    \/ part = "scripts" /\ (C!ScriptNext \/ C!ConfigCrash) /\ UNCHANGED <<part, vars, recoveryVars>>
    \/ part = "alerts" /\ H!Next /\ UNCHANGED <<part, vars, configVars>>
    \/ part = "recovery" /\ V!Next /\ UNCHANGED <<part, vars, configVars>>

RowsSpec == RowsInit /\ [][RowsNext]_<<part, vars, configVars, recoveryVars>>

Symmetry == Permutations(Id) \cup Permutations(Email) \cup Permutations(Request)
-----------------------------------------------------------------------------
(* vpn.service.ts 32-121: the marks are cleared in one statement and one is set *)
(* in another, so default configurations are never more than calls overlap.    *)
DefaultsFew == C!DefaultsFew

(* chat-scripts.service.ts 22-186: a script number exists never more often than *)
(* the packs that are imported at once have items.                             *)
CopiesFew == C!CopiesFew

(* account-recovery.service.ts 104: the hour holds no more recovery logs than   *)
(* the limit allows plus what overlapping detections and manual requests add.  *)
AttemptsBounded == part = "recovery" => V!AttemptsBounded

(* account-health.service.ts 489-507: no more alerts are active than checks     *)
(* that looked together.                                                      *)
AlertsFew == part = "alerts" => H!AlertsFew
=============================================================================
