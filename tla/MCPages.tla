------------------------------ MODULE MCPages ------------------------------
(***************************************************************************)
(* The pages of the console, for TLC: their lists (Pages), the dialog that      *)
(* follows the log of a task (TaskLog) and the one that waits for a            *)
(* registration (RegisterForm).  They share no variable: part says which of     *)
(* them a behaviour is about, and the others rest, where their fairness asks    *)
(* for nothing: no timer runs and no request is under way.                    *)
(***************************************************************************)
EXTENDS Naturals

CONSTANTS
    View, First, NoView, MaxLists, MaxFailures,   \* as in Pages
    t1, t2, NoTask, a1, a2, NoOwner

ASSUME PagesAssumption ==
    /\ First \in View /\ NoView \notin View
    /\ MaxLists \in Nat \ {0} /\ MaxFailures \in Nat

VARIABLES
    part,
    page, view, rows, known, untold, claims, shown, lists, click, failures,
    row, opened, progress, polls, timer, stop, failed, late,
    account, open, phase, waited, start, asks, timers, ref, cancel, misses

listVars == <<page, view, rows, known, untold, claims, shown, lists, click, failures>>
logVars == <<row, opened, progress, polls, timer, stop, failed, late>>
formVars == <<account, open, phase, waited, start, asks, timers, ref, cancel, misses>>

P == INSTANCE Pages WITH MaxFaults <- MaxFailures, call <- click, faults <- failures

T == INSTANCE TaskLog WITH Task <- {t1, t2}, MaxPolls <- 2, MaxFailed <- 2, status <- progress

R == INSTANCE RegisterForm WITH Account <- {a1, a2}, MaxPolls <- 1, MaxFailed <- 1,
                                NoAccount <- NoOwner, row <- account, polls <- asks, failed <- misses

PagesInit ==
    /\ part \in {"list", "log", "form"}
    /\ P!Init
    /\ R!Init
    /\ T!Init /\ (part # "log" => row = [t \in {t1, t2} |-> "pending"])

PagesNext ==
    \/ part = "list" /\ P!Next /\ UNCHANGED <<part, logVars, formVars>>
    \/ part = "log" /\ T!Next /\ UNCHANGED <<part, listVars, formVars>>
    \/ part = "form" /\ R!Next /\ UNCHANGED <<part, listVars, logVars>>

PagesSpec ==
    /\ PagesInit /\ [][PagesNext]_<<part, listVars, logVars, formVars>>
    /\ P!Fairness /\ T!Fairness /\ R!Fairness
-----------------------------------------------------------------------------
(* When everything has been answered, in order and without a failure, the list  *)
(* on the page is the one of the view chosen, with every change of the page's    *)
(* own handlers but those that ask for no list, and nothing that the server has    *)
(* not but what a handler wrote into it since (TasksPage.tsx 495-510, 648-939,   *)
(* AccountsPage.tsx 1208-1215, ChatScriptsPage.tsx 46-162).                     *)
ShownAgrees == P!ShownAgrees

(* TasksPage.tsx 668-699, AccountsPage.tsx 77-86: a list with a timer comes to   *)
(* show what others changed.                                                 *)
PageCatchesUp == P!PageCatchesUp

(* TasksPage.tsx 422-488, RegistrationModal.tsx 62-83: the dialog on a task      *)
(* comes to show that it has ended, unless it is closed, the task is run again,  *)
(* or an answer that was under way when the timers were stopped has come after;  *)
(* the one on a registration comes to show a result, unless it is closed.        *)
DialogsSettle == T!LogSettles /\ R!FormSettles
=============================================================================
