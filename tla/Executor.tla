------------------------------ MODULE Executor ------------------------------
(***************************************************************************)
(* The account pool and the task executor                                  *)
(* (src/backend/src/modules/account-manager/account-manager.service.ts,    *)
(* task-executor/task-executor.service.ts and, under                       *)
(* task-executor/integrations, dialogue-script.service.ts and              *)
(* browser-automation.service.ts).  app.module.ts does not import the two  *)
(* modules at this commit: what acquires an account, executes a task for it *)
(* and releases it is outside src/ and is a worker here.                   *)
(*                                                                         *)
(* Each operation of the pool finds a row and saves its copy in a second   *)
(* statement; those are the steps.                                         *)
(***************************************************************************)
EXTENDS Naturals, FiniteSets

CONSTANTS
    Account,
    NoAccount,
    Worker,    \* callers of the pool and of executeTask
    Clerk,     \* slots for health checks, maintenance and restorations
    Step,      \* steps of the dialogue script, 1 the first
    NextStep,  \* nextStep of each, 0 where the script ends
    Critical,  \* steps of type action or condition
    MaxFaults  \* bound on crashes and failed statements

ASSUME ExecutorAssumption ==
    /\ NoAccount \notin Account
    /\ IsFiniteSet(Step) /\ 1 \in Step /\ 0 \notin Step
    /\ NextStep \in [Step -> Step \cup {0}] /\ Critical \subseteq Step
    /\ MaxFaults \in Nat

VARIABLES
    row,      \* account_status: the status and what the health score allows
    worker,   \* local state of each worker
    clerk,    \* local state of each clerk
    orphans,  \* browserInstances that no task works with, by account
    faults,   \* crashes and failed statements so far
    loose,    \* history: accounts of which an outdated copy was saved, or that
              \* were restored while a worker had them
    left      \* history: accounts whose worker went without releasing them

vars == <<row, worker, clerk, orphans, faults, loose, left>>

(* fit: the score is at least 70 *)
Row == [status: {"idle", "busy", "error", "maintenance"}, health: {"fit", "poor"}]

FreshRow == [status |-> "idle", health |-> "fit"]

(* save: the row as it will be saved, worked out from the row that was found;   *)
(* old: another save has come in between                                      *)
NoWork  == [pc |-> "idle", acct |-> NoAccount, save |-> FreshRow, old |-> FALSE,
            browser |-> "none", step |-> 0, count |-> 0]
NoClerk == [pc |-> "idle", acct |-> NoAccount, save |-> FreshRow, old |-> FALSE]

Init ==
    /\ row = [a \in Account |-> FreshRow]
    /\ worker = [w \in Worker |-> NoWork] /\ clerk = [c \in Clerk |-> NoClerk]
    /\ orphans = [a \in Account |-> {}]
    /\ faults = 0 /\ loose = {} /\ left = {}
-----------------------------------------------------------------------------
(* The pool *)

(* Worker w has account a from the save that takes it to the save that releases it. *)
Holds(w, a) == worker[w].acct = a /\ worker[w].pc \notin {"idle", "take"}

Holders(a) == {w \in Worker : Holds(w, a)}

(* A save makes what others are about to save outdated. *)
Outdates(a, f) ==
    [x \in DOMAIN f |-> IF f[x].acct = a /\ f[x].pc \in {"take", "leave", "change", "restore"}
                        THEN [f[x] EXCEPT !.old = TRUE] ELSE f[x]]

Writes(me) == row' = [row EXCEPT ![me.acct] = me.save]

Loosens(me, under) == loose' = IF me.old \/ under THEN loose \cup {me.acct} ELSE loose

Picks(w, a) ==
    /\ worker[w].pc = "idle"
    /\ worker' = [worker EXCEPT ![w] = [NoWork EXCEPT !.pc = "take", !.acct = a,
                                                      !.save = [row[a] EXCEPT !.status = "busy"]]]
    /\ UNCHANGED <<row, clerk, orphans, faults, loose, left>>

AnyFit(r) == r.health = "fit"   \* mutation

Available(r) == r.status = "idle" /\ r.health = "fit"

(* acquireAccount: an idle account whose score is at least 70 *)
Acquires(w, a) == Available(row[a]) /\ Picks(w, a)

(* assignTaskToAccount: an account that the caller names, if idle *)
Assigns(w, a) == row[a].status = "idle" /\ Picks(w, a)

Takes(w) ==
    LET me == worker[w]
    IN  /\ me.pc = "take"
        /\ Writes(me)
        /\ worker' = [Outdates(me.acct, worker) EXCEPT ![w] = [NoWork EXCEPT !.pc = "task", !.acct = me.acct]]
        /\ clerk' = Outdates(me.acct, clerk)
        /\ left' = left \ {me.acct}
        /\ Loosens(me, FALSE)
        /\ UNCHANGED <<orphans, faults>>

StillBusy(r) == r   \* mutation

(* The account becomes idle, whatever its status was. *)
Released(r) == [r EXCEPT !.status = "idle"]

ReleaseFinds(w) ==
    LET a == worker[w].acct
    IN  /\ worker[w].pc = "release"
        /\ worker' = [worker EXCEPT ![w] = [NoWork EXCEPT !.pc = "leave", !.acct = a, !.save = Released(row[a])]]
        /\ UNCHANGED <<row, clerk, orphans, faults, loose, left>>

ReleaseSaves(w) ==
    LET me == worker[w]
    IN  /\ me.pc = "leave"
        /\ Writes(me)
        /\ worker' = [Outdates(me.acct, worker) EXCEPT ![w] = NoWork]
        /\ clerk' = Outdates(me.acct, clerk)
        /\ Loosens(me, FALSE)
        /\ UNCHANGED <<orphans, faults, left>>

(* The find or the save of an operation is rejected: it returns null or false  *)
(* and changes nothing.  A caller that is taking has no account; one that is    *)
(* releasing is through with it, and the row stays as it is.                   *)
PoolFails(w) ==
    LET me == worker[w]
    IN  /\ me.pc \in {"take", "release", "leave"} /\ faults < MaxFaults
        /\ faults' = faults + 1
        /\ worker' = [worker EXCEPT ![w] = NoWork]
        /\ left' = IF me.pc = "take" THEN left ELSE left \cup {me.acct}
        /\ UNCHANGED <<row, clerk, orphans, loose>>

(* updateAccountHealth.  The cron checks every row and always arrives at a      *)
(* score from 70 to 100; a caller may report any score, and one below 30 marks *)
(* an account as in error unless it is in maintenance.                         *)
Checked(r) ==
    {[r EXCEPT !.health = h] : h \in {"fit", "poor"}}
        \cup (IF r.status = "maintenance" THEN {} ELSE {[status |-> "error", health |-> "poor"]})

(* A restoration adds 20 points to the score. *)
Restored(r) == {[status |-> "idle", health |-> h] : h \in {r.health, "fit"}}

ClerkFinds(c, a, pc, rows) ==
    /\ clerk[c].pc = "idle"
    /\ \E r \in rows : clerk' = [clerk EXCEPT ![c] = [pc |-> pc, acct |-> a, save |-> r, old |-> FALSE]]
    /\ UNCHANGED <<row, worker, orphans, faults, loose, left>>

HealthFinds(c, a) == ClerkFinds(c, a, "change", Checked(row[a]))

MaintenanceFinds(c, a) == ClerkFinds(c, a, "change", {[row[a] EXCEPT !.status = "maintenance"]})

RestoreFinds(c, a) == ClerkFinds(c, a, "restore", Restored(row[a]))

ClerkSaves(c) ==
    LET me == clerk[c]
    IN  /\ me.pc # "idle"
        /\ Writes(me)
        /\ worker' = Outdates(me.acct, worker)
        /\ clerk' = [Outdates(me.acct, clerk) EXCEPT ![c] = NoClerk]
        /\ Loosens(me, me.pc = "restore" /\ Holders(me.acct) # {})
        /\ UNCHANGED <<orphans, faults, left>>

ClerkFails(c) ==
    /\ clerk[c].pc # "idle" /\ faults < MaxFaults
    /\ faults' = faults + 1
    /\ clerk' = [clerk EXCEPT ![c] = NoClerk]
    /\ UNCHANGED <<row, worker, orphans, loose, left>>
-----------------------------------------------------------------------------
(* executeTask *)

Works(w, change) ==
    /\ worker' = [worker EXCEPT ![w] = change]
    /\ UNCHANGED <<row, clerk, orphans, faults, loose, left>>

(* The task is marked running and its start is logged.  What follows depends on *)
(* the task: a browser is initialised for its script, a dialogue begins, or an *)
(* integration of its own (Integrations) does everything at once.              *)
Launches(w) ==
    worker[w].pc = "task" /\ Works(w, [worker[w] EXCEPT !.pc = "login", !.browser = "ready"])

Converses(w) ==
    worker[w].pc = "task" /\ Works(w, [worker[w] EXCEPT !.pc = "dialogue", !.step = 1])

Integrates(w) ==
    worker[w].pc = "task" /\ Works(w, [worker[w] EXCEPT !.pc = "release"])

LogsIn(w) ==
    /\ worker[w].pc = "login"
    /\ Works(w, [worker[w] EXCEPT !.pc = "script", !.browser = "busy"])

RunsScript(w) ==
    /\ worker[w].pc = "script"
    /\ Works(w, [worker[w] EXCEPT !.pc = "close", !.browser = "ready"])

(* What a browser becomes when the login or the script throws *)
Broken == "error"

(* The task fails and nobody closes its browser. *)
Abandons(w, browser) ==
    /\ worker' = [worker EXCEPT ![w] = [NoWork EXCEPT !.pc = "release", !.acct = worker[w].acct]]
    /\ orphans' = [orphans EXCEPT ![worker[w].acct] = @ \cup ({browser} \ {"none"})]

BrowserThrows(w) ==
    /\ worker[w].pc \in {"login", "script"}
    /\ Abandons(w, Broken)
    /\ UNCHANGED <<row, clerk, faults, loose, left>>

(* A progress log or another statement of the execution fails. *)
LogFails(w) ==
    /\ worker[w].pc \in {"task", "login", "script", "close"} /\ faults < MaxFaults
    /\ faults' = faults + 1
    /\ Abandons(w, worker[w].browser)
    /\ UNCHANGED <<row, clerk, loose, left>>

Closes(w) ==
    /\ worker[w].pc = "close"
    /\ Works(w, [NoWork EXCEPT !.pc = "release", !.acct = worker[w].acct])

(* maxSteps: a script may point back to an earlier step. *)
TooLong(w) == worker[w].count >= 3 * Cardinality(Step)

Uncounted(n) == n   \* mutation

(* stepCount *)
Counted(n) == n + 1

(* executeStep: messages, questions, actions and conditions are simulated and   *)
(* succeed; what throws on the way, such as an unknown type, fails the step.    *)
StepSucceeds == BOOLEAN

(* executeScript: a failed step that is critical ends the script.  The result   *)
(* is returned, and logged as completed, either way.                           *)
StepRuns(w) ==
    LET me == worker[w]
        after == [me EXCEPT !.count = Counted(@), !.step = NextStep[me.step]]
        ended == [NoWork EXCEPT !.pc = "release", !.acct = me.acct]
    IN  /\ me.pc = "dialogue" /\ me.step # 0 /\ ~TooLong(w)
        /\ \E ok \in StepSucceeds :
              Works(w, IF ~ok /\ me.step \in Critical THEN ended ELSE after)

DialogueEnds(w) ==
    /\ worker[w].pc = "dialogue"
    /\ worker[w].step = 0 \/ TooLong(w)
    /\ Works(w, [NoWork EXCEPT !.pc = "release", !.acct = worker[w].acct])

(* cleanupIdleBrowsers closes what has been idle for half an hour and is not busy. *)
CleansUp(a) ==
    /\ orphans[a] \ {"busy"} # {}
    /\ orphans' = [orphans EXCEPT ![a] = @ \cap {"busy"}]
    /\ UNCHANGED <<row, worker, clerk, faults, loose, left>>

(* A crash forgets the browsers; initializeAccountPool leaves the rows as they are. *)
Crash ==
    /\ faults < MaxFaults
    /\ faults' = faults + 1
    /\ left' = left \cup {a \in Account : Holders(a) # {}}
    /\ worker' = [w \in Worker |-> NoWork] /\ clerk' = [c \in Clerk |-> NoClerk]
    /\ orphans' = [a \in Account |-> {}]
    /\ UNCHANGED <<row, loose>>

WorkerStep(w) ==
    \/ Takes(w) \/ ReleaseFinds(w) \/ ReleaseSaves(w)
    \/ Launches(w) \/ Converses(w) \/ Integrates(w) \/ LogsIn(w) \/ RunsScript(w) \/ Closes(w)
    \/ BrowserThrows(w) \/ StepRuns(w) \/ DialogueEnds(w)

Next ==
    \/ \E w \in Worker : WorkerStep(w) \/ LogFails(w) \/ PoolFails(w)
    \/ \E w \in Worker, a \in Account : Acquires(w, a) \/ Assigns(w, a)
    \/ \E c \in Clerk, a \in Account : HealthFinds(c, a) \/ MaintenanceFinds(c, a) \/ RestoreFinds(c, a)
    \/ \E c \in Clerk : ClerkSaves(c) \/ ClerkFails(c)
    \/ \E a \in Account : CleansUp(a)
    \/ Crash

Spec == Init /\ [][Next]_vars

(* What a worker awaits settles. *)
FairSpec == Spec /\ \A w \in Worker : WF_vars(WorkerStep(w))
-----------------------------------------------------------------------------
(* Properties *)

(* What the pool is for (account-manager.service.ts:69): two workers have an   *)
(* account at once, or one has an account that says idle, only after an         *)
(* outdated copy was saved or the account was restored under a worker.         *)
OneHolder ==
    \A a \in Account \ loose :
        /\ Cardinality(Holders(a)) <= 1
        /\ Holders(a) # {} => row[a].status # "idle"

(* Nothing looks for accounts that stay busy: a row that says busy is that of  *)
(* an account somebody has, or the last worker that had it went in a crash or   *)
(* had its release rejected (account-manager.service.ts:134), with the same     *)
(* exceptions.                                                                 *)
BusyIsHeld ==
    \A a \in Account \ loose :
        row[a].status = "busy" => Holders(a) # {} \/ a \in left

Executing == {"task", "login", "script", "close", "dialogue"}

(* Line 253 of dialogue-script.service.ts: whatever its script, a task comes to *)
(* its end and its worker may release the account.                             *)
TasksEnd == \A w \in Worker : worker[w].pc \in Executing ~> worker[w].pc \notin Executing
=============================================================================
