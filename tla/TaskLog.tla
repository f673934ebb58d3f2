------------------------------- MODULE TaskLog -------------------------------
(***************************************************************************)
(* The dialog of the tasks page that follows the log of one task: it asks      *)
(* once when it opens, then every two seconds without waiting for the answer    *)
(* before, until an answer says that the task has ended.  Closing the dialog    *)
(* or opening another task drops the answers under way.                        *)
(*                                                                         *)
(* Of an answer the model keeps the status, not the lines.  The list of tasks    *)
(* behind the dialog, which is told the last status, is left out.               *)
(***************************************************************************)
EXTENDS Naturals, Sequences, SequencesExt

CONSTANTS
    Task,
    NoTask,
    MaxPolls,   \* bound: requests for the log in flight
    MaxFailed   \* bound: requests that fail

VARIABLES
    row,      \* status of the tasks on the server
    opened,   \* the task whose log is open
    status,   \* the status shown
    polls,    \* requests for the log, in the order they were sent
    timer,    \* "first": the first answer is waited for
    stop,     \* the task asked to stop
    failed,
    late      \* auxiliary: "running" was answered after the timers had been stopped

logVars == <<row, opened, status, polls, timer, stop, failed, late>>

Final == {"ended", "cancelled"}

Unanswered == [said |-> "nothing"]

Init ==
    /\ row \in [Task -> {"pending", "running", "ended"}]
    /\ opened = NoTask /\ status = "running" /\ polls = <<>> /\ timer = "none"
    /\ stop = NoTask /\ failed = 0 /\ late = FALSE
-----------------------------------------------------------------------------
(* The runner, another window: a task is run, ends, is deleted.               *)
RowChanges(t) ==
    /\ \E s \in {"running", "ended", "gone"} :
        /\ s = "running" => row[t] \in {"pending", "ended", "cancelled"}
        /\ s = "ended" => row[t] \in {"running", "cancelled"}
        /\ s = "gone" => row[t] # "gone"
        /\ row' = [row EXCEPT ![t] = s]
    /\ UNCHANGED <<opened, status, polls, timer, stop, failed, late>>

OpenLog(t) ==
    /\ opened' = t /\ t # opened
    /\ status' = "running" /\ polls' = <<Unanswered>> /\ timer' = "first" /\ late' = FALSE
    /\ UNCHANGED <<row, stop, failed>>

CloseLog ==
    /\ opened # NoTask
    /\ opened' = NoTask /\ polls' = <<>> /\ timer' = "none" /\ late' = FALSE
    /\ UNCHANGED <<row, status, stop, failed>>

PollTick ==
    /\ timer = "polling" /\ Len(polls) < MaxPolls
    /\ polls' = Append(polls, Unanswered)
    /\ UNCHANGED <<row, opened, status, timer, stop, failed, late>>

(* A task that is gone is answered with 404 or without a status.              *)
ServerSays(i) ==
    /\ i \in DOMAIN polls /\ polls[i].said = "nothing"
    /\ polls' = [polls EXCEPT ![i].said = row[opened]]
    /\ UNCHANGED <<row, opened, status, timer, stop, failed, late>>

AfterOnceOnly(s) == IF s \in Final THEN "stopped" ELSE IF s = "nothing" THEN timer ELSE "polling"   \* mutation: .then is not reached

(* stopAllTimers, or the interval that is set up after the first answer        *)
After(s) == IF s \in Final THEN "stopped" ELSE IF timer = "first" THEN "polling" ELSE timer

LogArrives(i) ==
    /\ i \in DOMAIN polls /\ polls[i].said # "nothing"
    /\ status' = IF polls[i].said = "gone" THEN "running" ELSE polls[i].said
    /\ timer' = After(polls[i].said)
    /\ polls' = RemoveAt(polls, i)
    /\ late' = (late \/ (timer = "stopped" /\ polls[i].said \notin Final))
    /\ UNCHANGED <<row, opened, stop, failed>>

(* A failure counts as "running", and the status stays as it is.              *)
LogFails(i) ==
    /\ i \in DOMAIN polls /\ failed < MaxFailed
    /\ failed' = failed + 1
    /\ timer' = After("nothing")
    /\ polls' = RemoveAt(polls, i)
    /\ UNCHANGED <<row, opened, status, stop, late>>

(* handleStop: POST cancel sets the row's status at once, whatever the worker   *)
(* does; the timers go on.                                                    *)
AskStop ==
    /\ opened # NoTask /\ stop = NoTask /\ status \notin Final
    /\ stop' = opened
    /\ UNCHANGED <<row, opened, status, polls, timer, failed, late>>

StopDone ==
    /\ stop # NoTask
    /\ \/ row[stop] # "gone" /\ row' = [row EXCEPT ![stop] = "cancelled"] /\ status' = "cancelled"
       \/ UNCHANGED <<row, status>>   \* it failed
    /\ stop' = NoTask
    /\ UNCHANGED <<opened, polls, timer, failed, late>>

Next ==
    \/ \E t \in Task : RowChanges(t) \/ OpenLog(t)
    \/ CloseLog \/ PollTick
    \/ \E i \in 1..MaxPolls : ServerSays(i) \/ LogArrives(i) \/ LogFails(i)
    \/ AskStop \/ StopDone

(* The interval fires and requests are answered.                              *)
Fairness == WF_logVars(PollTick) /\ WF_logVars(ServerSays(1)) /\ WF_logVars(LogArrives(1))

Spec == Init /\ [][Next]_logVars /\ Fairness
-----------------------------------------------------------------------------
(* The dialog comes to show that the task has ended, unless it is closed, the   *)
(* task is run again, or an answer that was under way when the timers were       *)
(* stopped has come after: then it may show a running task for good.           *)
LogSettles ==
    \A t \in Task :
        (opened = t /\ row[t] \in Final) ~> (opened # t \/ row[t] \notin Final \/ status \in Final \/ late)
=============================================================================
