------------------------------ MODULE TaskClaims ------------------------------
(***************************************************************************)
(* What the claim set of the task runner promises, without the runner: a task *)
(* is claimed by one tick of the cron handler, which hands it to one execution *)
(* or gives it back; the execution gives it back.  A claim whose tick comes to *)
(* grief is nobody's and keeps the task from being claimed until the process   *)
(* restarts.                                                                 *)
(***************************************************************************)
CONSTANTS Task, Tick, Job

VARIABLES
    tickOf,  \* the ticks that hold each task
    jobOf,   \* the executions that do
    lost     \* claimed by nobody

claims == <<tickOf, jobOf, lost>>

Nobody == [t \in Task |-> {}]

Init == tickOf = Nobody /\ jobOf = Nobody /\ lost = {}

Free(t) == tickOf[t] = {} /\ jobOf[t] = {} /\ t \notin lost

Take(t, k) ==
    /\ Free(t)
    /\ \A u \in Task : k \notin tickOf[u]
    /\ tickOf' = [tickOf EXCEPT ![t] = {k}]
    /\ UNCHANGED <<jobOf, lost>>

HandOver(t, k, j) ==
    /\ tickOf[t] = {k} /\ jobOf[t] = {}
    /\ \A u \in Task : j \notin jobOf[u]
    /\ tickOf' = [tickOf EXCEPT ![t] = {}]
    /\ jobOf' = [jobOf EXCEPT ![t] = {j}]
    /\ UNCHANGED lost

GiveBack(t) ==
    /\ ~Free(t) /\ t \notin lost
    /\ tickOf' = [tickOf EXCEPT ![t] = {}]
    /\ jobOf' = [jobOf EXCEPT ![t] = {}]
    /\ UNCHANGED lost

Lose(t, k) ==
    /\ tickOf[t] = {k}
    /\ tickOf' = [tickOf EXCEPT ![t] = {}]
    /\ lost' = lost \cup {t}
    /\ UNCHANGED jobOf

Restart == tickOf' = Nobody /\ jobOf' = Nobody /\ lost' = {}

Next ==
    \/ \E t \in Task :
        \/ \E k \in Tick : Take(t, k) \/ Lose(t, k) \/ \E j \in Job : HandOver(t, k, j)
        \/ GiveBack(t)
    \/ Restart

Spec == Init /\ [][Next]_claims
=============================================================================
