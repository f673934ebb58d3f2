------------------------------ MODULE MCWarmup ------------------------------
(***************************************************************************)
(* Warm-ups, for TLC: their rows (Warmup) and the minutes at which one acts   *)
(* (WarmupSchedule).  The two share no variable: Warmup lets a tick find a     *)
(* window open or not.  So part says which of them a behaviour is about, and   *)
(* the other rests.                                                          *)
(*                                                                         *)
(* One account, because no step touches two.  One slot starts and resets, the  *)
(* other starts, retires and resumes: every pair of operations overlaps but    *)
(* for two of the same kind other than a start.                                *)
(***************************************************************************)
EXTENDS Warmup, TLC

CONSTANTS r1, r2, Slot, Start, PackageDays, Horizon, MaxOff

(* A group has its number among the groups, an account its position in it.     *)
ASSUME ScheduleAssumption ==
    /\ \A s \in Slot : s[1] \in Nat \ {0} /\ s[2] \in 1..s[1] /\ s[3] \in Nat
    /\ Start \subseteq Nat /\ PackageDays \in Nat /\ Horizon \in Nat /\ MaxOff \in Nat

VARIABLES part,
          slot, now, startedAt, mode, lastFired, lastChecked, fired, missed, outage, cut

scheduleVars == <<slot, now, startedAt, mode, lastFired, lastChecked, fired, missed, outage, cut>>

TwoSlots == (r1 :> {"start", "reset"}) @@ (r2 :> {"start", "retire", "resume"})

(* Groups whose windows lie early, end before midnight, lie past midnight    *)
(* and (8 groups, the sixth) across it, on both sides of the limit of six    *)
(* groups; first, middle and last positions, and one too many.               *)
SomeSlots == {<<3, 1, 0>>, <<3, 1, 5>>, <<6, 4, 2>>, <<7, 2, 5>>,
              <<8, 6, 0>>, <<8, 6, 5>>, <<9, 9, 0>>, <<9, 9, 6>>}

W == INSTANCE WarmupSchedule

WarmupInit ==
    /\ part \in {"progress", "schedule"}
    /\ Init /\ (part = "schedule" => acct = [a \in Account |-> "grouped"])
    /\ W!Init /\ (part = "progress" => slot = <<3, 1, 0>> /\ startedAt = 492)

WarmupNext ==
    \/ part = "progress" /\ Next /\ UNCHANGED <<part, scheduleVars>>
    \/ part = "schedule" /\ W!Next /\ UNCHANGED <<part, vars>>

(* The cron fires for ever and every statement of a tick settles; nothing is  *)
(* asked of the schedule that needs fairness.                                *)
WarmupSpec ==
    /\ WarmupInit /\ [][WarmupNext]_<<part, vars, scheduleVars>>
    /\ Fairness
-----------------------------------------------------------------------------
(* warmup-windows.util.ts and the documentation, lines 84-96: a window fires    *)
(* for the first six accounts of a group unless the machine is off in it, and   *)
(* never for those behind them.                                              *)
Served == W!Served

(* A window fires once: after a restart, the turn to P3, and across midnight.  *)
FiresOnce == W!FiresOnce
=============================================================================
