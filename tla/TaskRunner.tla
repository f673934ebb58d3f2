----------------------------- MODULE TaskRunner -----------------------------
(***************************************************************************)
(* The scheduled-task runner of the backend                                *)
(* (src/backend/src/modules/simple-tasks): the cron job that picks up due  *)
(* tasks every 30 seconds, the executions it starts, the HTTP handlers     *)
(* that execute, cancel, reset, create and remove tasks, and the restart   *)
(* of the process.                                                         *)
(*                                                                         *)
(* Node runs one callback at a time and yields at every await.  A step is  *)
(* one database statement together with the synchronous code that follows  *)
(* it, up to the next await; between two steps of one handler every other  *)
(* handler may run.  Two ticks overlap whenever the first still awaits     *)
(* when the cron fires again: @Cron does not wait for the previous call.   *)
(***************************************************************************)
EXTENDS Naturals

CONSTANTS
    Task,        \* rows the tasks table may hold
    Tick,        \* invocations of checkAndRunDueTasks that may overlap
    Job,         \* slots for concurrent executions (executeTask and runTask)
    NoTask,      \* "no current task"
    Recurring,   \* tasks with a daily, weekly or monthly repeat cycle
    Simulate,    \* auto_simulate tasks, the only ones that look for a cancel
    Warmup,      \* auto_warmup parent rows, kept running by WarmupService
    batchId,     \* the batch a task belongs to, NoBatch for a single task
    batchGroup,  \* its group inside the batch
    NoBatch,
    Events       \* the environment events of an instance, out of AllEvents

AllEvents == {"execute", "start", "cancel", "reset", "remove", "create",
              "stale", "license", "crash", "db"}

ASSUME ConstantsAssumption ==
    /\ NoTask \notin Task
    /\ Recurring \subseteq Task
    /\ Simulate \subseteq Task
    /\ Warmup \subseteq Task
    /\ batchGroup \in [Task -> Nat]
    /\ DOMAIN batchId = Task
    /\ Events \subseteq AllEvents

VARIABLES
    status,      \* tasks.status; "unborn" before INSERT, "removed" after DELETE
    scheduledAt, \* tasks.scheduledAt seen from the clock
    running,     \* TaskAutoRunnerService.running, the in-memory claim set
    tick,        \* local state of each invocation of the cron handler
    job,         \* local state of each execution
    licensed,    \* cache.valid of license-cache.json
    stranded,    \* history: the tasks a failed database call left behind
    ended        \* history: the tasks that came to an end, or were removed

vars == <<status, scheduledAt, running, tick, job, licensed, stranded, ended>>

Finished == {"completed", "failed", "cancelled"}
Row      == {"pending", "running"} \cup Finished
Status   == Row \cup {"unborn", "removed"}
Age      == {"future", "due", "stale"}   \* "stale": more than 24 hours ago

Exists(t) == status[t] \in Row

(* The rows of st that have come to an end, with those that did before.     *)
Ended(st) == ended \cup {t \in Task : st[t] \in Finished \cup {"removed"}}

(* UPDATE tasks SET status = s WHERE id = t, whatever the status is now. *)
Written(t, s) == IF Exists(t) THEN [status EXCEPT ![t] = s] ELSE status

Batched(t) == batchId[t] # NoBatch /\ batchGroup[t] > 0

Earlier(t) == {u \in Task : batchId[u] = batchId[t] /\ batchGroup[u] < batchGroup[t]}

(* handleModalOk of the tasks page numbers the groups of a batch in the order  *)
(* of its accounts, batchCreate inserts the rows one by one in that order.    *)
InOrder(st) == \A t \in Task : Batched(t) /\ st[t] # "unborn" => \A u \in Earlier(t) : st[u] # "unborn"

IdleTick == [pc |-> "loop", cur |-> NoTask, todo |-> {}, late |-> {}]
FreeJob  == [pc |-> "free", by |-> "none", task |-> NoTask, out |-> "none"]
NewJob(t, by, pc) == [pc |-> pc, by |-> by, task |-> t, out |-> "none"]

TickGoes(k, pc, cur) ==
    [tick EXCEPT ![k] = [pc |-> pc, cur |-> cur, todo |-> tick[k].todo, late |-> tick[k].late]]
JobGoes(j, pc, out) ==
    [job EXCEPT ![j] = [pc |-> pc, by |-> job[j].by, task |-> job[j].task, out |-> out]]

Init ==
    /\ status \in [Task -> {"pending", "running", "unborn"}]
    /\ \A t \in Task : /\ status[t] = "running" <=> t \in Warmup
                       /\ status[t] = "unborn" => "create" \in Events
    /\ InOrder(status)
    /\ scheduledAt \in [Task -> {"future", "due"}]
    /\ running = {}
    /\ tick = [k \in Tick |-> IdleTick]
    /\ job = [j \in Job |-> FreeJob]
    /\ licensed = TRUE
    /\ stranded = {}
    /\ ended = {}
-----------------------------------------------------------------------------
(* checkAndRunDueTasks, one action per await. *)

(* SELECT the pending rows whose scheduledAt has passed, with their age. *)
TickStart(k) ==
    LET due == {t \in Task : status[t] = "pending" /\ scheduledAt[t] # "future"}
    IN  /\ tick[k] = IdleTick
        /\ due # {}
        /\ tick' = [tick EXCEPT ![k] =
                      [pc   |-> "loop",
                       cur  |-> NoTask,
                       todo |-> due,
                       late |-> {t \in due : scheduledAt[t] = "stale"}]]
        /\ UNCHANGED <<status, scheduledAt, running, job, licensed, stranded, ended>>

HeldNever(t) == FALSE   \* mutation: no look at the claim set

(* if (this.running.has(task.id)) continue *)
Held(t) == t \in running

WithoutClaimLeaked(t) == running   \* mutation: a forgotten running.delete

(* this.running.delete(task.id) *)
WithoutClaim(t) == running \ {t}

SkipHeld(k, t) ==
    /\ tick[k].pc = "loop"
    /\ t \in tick[k].todo
    /\ Held(t)
    /\ tick' = [tick EXCEPT ![k] =
                  [pc   |-> "loop",
                   cur  |-> NoTask,
                   todo |-> tick[k].todo \ {t},
                   late |-> tick[k].late \ {t}]]
    /\ UNCHANGED <<status, scheduledAt, running, job, licensed, stranded, ended>>

(* license-cache.json is read synchronously; unreadable counts as invalid. *)
LicenseGate == IF licensed THEN "mark" ELSE "refuse"

Claim(k, t) ==
    /\ tick[k].pc = "loop"
    /\ t \in tick[k].todo
    /\ ~Held(t)
    /\ running' = running \cup {t}
    /\ tick' = [tick EXCEPT ![k] =
                  [pc   |-> IF t \in tick[k].late THEN "refuse"
                            ELSE IF Batched(t) THEN "guard" ELSE LicenseGate,
                   cur  |-> t,
                   todo |-> tick[k].todo \ {t},
                   late |-> tick[k].late \ {t}]]
    /\ UNCHANGED <<status, scheduledAt, job, licensed, stranded, ended>>

NextTask(k) == TickGoes(k, "loop", NoTask)

EarlierGroupRunning(t) == \E u \in Earlier(t) : status[u] = "running"   \* mutation

EarlierGroupActive(t) == \E u \in Earlier(t) : Exists(u) /\ status[u] \notin Finished

BatchGuard(k) ==
    /\ tick[k].pc = "guard"
    /\ IF EarlierGroupActive(tick[k].cur)
       THEN /\ running' = WithoutClaim(tick[k].cur)
            /\ tick' = NextTask(k)
       ELSE /\ tick' = TickGoes(k, LicenseGate, tick[k].cur)
            /\ UNCHANGED running
    /\ UNCHANGED <<status, scheduledAt, job, licensed, stranded, ended>>

(* saveTaskResult(FAILED): the row, then the logs, then running.delete. *)
Refuse(k) ==
    /\ tick[k].pc = "refuse"
    /\ status' = Written(tick[k].cur, "failed")
    /\ tick' = TickGoes(k, "refused", tick[k].cur)
    /\ ended' = Ended(status')
    /\ UNCHANGED <<scheduledAt, running, job, licensed, stranded>>

Release(k) ==
    /\ tick[k].pc = "refused"
    /\ running' = WithoutClaim(tick[k].cur)
    /\ tick' = NextTask(k)
    /\ UNCHANGED <<status, scheduledAt, job, licensed, stranded, ended>>

(* The UPDATE to RUNNING does not look at the present status, and the       *)
(* execution starts even when it matched no row.                            *)
Mark(k, j) ==
    /\ tick[k].pc = "mark"
    /\ job[j] = FreeJob
    /\ status' = Written(tick[k].cur, "running")
    /\ job' = [job EXCEPT ![j] = NewJob(tick[k].cur, "auto", "body")]
    /\ tick' = NextTask(k)
    /\ UNCHANGED <<scheduledAt, running, licensed, stranded, ended>>

(* A rejected await leaves the handler: nothing removes cur from running. *)
TickDbFails(k) ==
    /\ "db" \in Events
    /\ tick[k].pc \in {"guard", "refuse", "mark"}
    /\ tick' = [tick EXCEPT ![k] = IdleTick]
    /\ stranded' = stranded \cup {tick[k].cur}
    /\ UNCHANGED <<status, scheduledAt, running, job, licensed, ended>>
-----------------------------------------------------------------------------
(* Executions: executeTask (by = "auto") and runTask (by = "manual"). *)

(* An auto_simulate run reads its own status after its last action. *)
SimulateResults(t) == IF status[t] = "cancelled" THEN {"cancelled", "fail"} ELSE {"ok", "fail"}

(* The runner fails an action it does not know, such as auto_warmup, ...    *)
AutoResults(t) ==
    IF t \in Warmup THEN {"fail"} ELSE IF t \in Simulate THEN SimulateResults(t) ELSE {"ok", "fail"}

(* ... and the controller completes it. *)
ManualResults(t) ==
    IF t \in Warmup THEN {"ok"} ELSE IF t \in Simulate THEN SimulateResults(t) ELSE {"ok", "fail"}

Results(j) == IF job[j].by = "auto" THEN AutoResults(job[j].task) ELSE ManualResults(job[j].task)

(* Only the controller leaves a cancelled run's row alone. *)
JobEnds(j) ==
    /\ job[j].pc = "body"
    /\ \E out \in Results(j) :
          job' = IF out = "cancelled" /\ job[j].by = "manual"
                 THEN [job EXCEPT ![j] = FreeJob] ELSE JobGoes(j, "save", out)
    /\ UNCHANGED <<status, scheduledAt, running, tick, licensed, stranded, ended>>

ResultStatus(out) == IF out = "ok" THEN "completed" ELSE "failed"

JobSaves(j) ==
    /\ job[j].pc = "save"
    /\ status' = Written(job[j].task, ResultStatus(job[j].out))
    /\ job' = IF job[j].by = "auto"
              THEN JobGoes(j, "saved", job[j].out) ELSE [job EXCEPT ![j] = FreeJob]
    /\ ended' = Ended(status')
    /\ UNCHANGED <<scheduledAt, running, tick, licensed, stranded>>

RearmsOnSuccess(t) == t \in Recurring /\ status[t] = "completed"   \* mutation

(* rescheduleIfRecurring: back to PENDING, one period after the last time.  *)
Rearms(t) == t \in Recurring

(* executeTask(...).then(rescheduleIfRecurring).finally(running.delete) *)
JobReleases(j) ==
    LET t == job[j].task
    IN  /\ job[j].pc = "saved"
        /\ status' = IF Rearms(t) THEN Written(t, "pending") ELSE status
        /\ scheduledAt' = IF Rearms(t) /\ Exists(t)
                          THEN [scheduledAt EXCEPT ![t] = "future"] ELSE scheduledAt
        /\ running' = WithoutClaim(t)
        /\ job' = [job EXCEPT ![j] = FreeJob]
        /\ UNCHANGED <<tick, licensed, stranded, ended>>

(* Writing the result fails and so does its retry in the catch block, or    *)
(* the reschedule fails: .finally still releases the claim.  A request whose*)
(* UPDATE to RUNNING fails ends there.                                      *)
JobDbFails(j) ==
    /\ "db" \in Events
    /\ job[j].pc \in {"asked", "save", "saved"}
    /\ running' = IF job[j].by = "auto" THEN WithoutClaim(job[j].task) ELSE running
    /\ job' = [job EXCEPT ![j] = FreeJob]
    /\ stranded' = IF job[j].pc = "save" THEN stranded \cup {job[j].task} ELSE stranded
    /\ UNCHANGED <<status, scheduledAt, tick, licensed, ended>>
-----------------------------------------------------------------------------
(* SimpleTasksController *)

(* execute reads the row, refuses RUNNING, and awaits the UPDATE to RUNNING;*)
(* it neither consults nor joins the runner's claim set.                    *)
Asks(j, t) ==
    /\ job[j] = FreeJob
    /\ Exists(t) /\ status[t] # "running"
    /\ job' = [job EXCEPT ![j] = NewJob(t, "manual", "asked")]
    /\ UNCHANGED <<status, scheduledAt, running, tick, licensed, stranded, ended>>

Execute(j, t) == "execute" \in Events /\ licensed /\ Asks(j, t)

(* POST :id/start calls execute, but carries no SubscriptionGuard. *)
Start(j, t) == "start" \in Events /\ Asks(j, t)

ManualMark(j) ==
    /\ job[j].pc = "asked"
    /\ status' = Written(job[j].task, "running")
    /\ job' = JobGoes(j, "body", "none")
    /\ UNCHANGED <<scheduledAt, running, tick, licensed, stranded, ended>>

UserSets(t, s) ==
    /\ Exists(t)
    /\ status' = [status EXCEPT ![t] = s]
    /\ ended' = Ended(status')
    /\ UNCHANGED <<scheduledAt, running, tick, job, licensed, stranded>>

Cancel(t) == "cancel" \in Events /\ UserSets(t, "cancelled")
Reset(t)  == "reset" \in Events /\ UserSets(t, "pending")
Remove(t) == "remove" \in Events /\ UserSets(t, "removed")

Create(t) ==
    /\ licensed
    /\ status[t] = "unborn"
    /\ status' = [status EXCEPT ![t] = "pending"]
    /\ InOrder(status')
    /\ UNCHANGED <<scheduledAt, running, tick, job, licensed, stranded, ended>>
-----------------------------------------------------------------------------
(* The environment *)

(* Only a pending row's time is looked at: letting it pass there is enough. *)
TimePasses(t) ==
    /\ status[t] = "pending"
    /\ \/ scheduledAt[t] = "future" /\ scheduledAt' = [scheduledAt EXCEPT ![t] = "due"]
       \/ /\ "stale" \in Events
          /\ scheduledAt[t] = "due"
          /\ scheduledAt' = [scheduledAt EXCEPT ![t] = "stale"]
    /\ UNCHANGED <<status, running, tick, job, licensed, stranded, ended>>

LicenseChanges ==
    /\ "license" \in Events
    /\ licensed' = ~licensed
    /\ UNCHANGED <<status, scheduledAt, running, tick, job, stranded, ended>>

NeverStuck(t) == FALSE   \* mutation: no cleanup at startup

StuckAtStartup(t) == status[t] = "running" /\ t \notin Warmup

(* The process dies and comes back.  onModuleInit fails the rows left       *)
(* running, warm-up parents excepted; its own database error is only logged.*)
Restart ==
    /\ "crash" \in Events
    /\ \/ /\ status' = [t \in Task |-> IF StuckAtStartup(t) THEN "failed" ELSE status[t]]
          /\ stranded' = {}
       \/ /\ "db" \in Events
          /\ stranded' = {t \in Task : StuckAtStartup(t)}
          /\ UNCHANGED status
    /\ running' = {}
    /\ tick' = [k \in Tick |-> IdleTick]
    /\ job' = [j \in Job |-> FreeJob]
    /\ ended' = Ended(status')
    /\ UNCHANGED <<scheduledAt, licensed>>
-----------------------------------------------------------------------------
TickStep(k) ==
    \/ TickStart(k)
    \/ \E t \in Task : SkipHeld(k, t) \/ Claim(k, t)
    \/ BatchGuard(k)
    \/ Refuse(k)
    \/ Release(k)
    \/ \E j \in Job : Mark(k, j)

JobStep(j) == JobEnds(j) \/ JobSaves(j) \/ JobReleases(j) \/ ManualMark(j)

UserStep(t) ==
    \/ \E j \in Job : Execute(j, t) \/ Start(j, t)
    \/ Cancel(t) \/ Reset(t) \/ Remove(t) \/ Create(t)

Next ==
    \/ \E k \in Tick : TickStep(k) \/ TickDbFails(k)
    \/ \E j \in Job : JobStep(j) \/ JobDbFails(j)
    \/ \E t \in Task : UserStep(t) \/ TimePasses(t)
    \/ LicenseChanges
    \/ Restart

Spec == Init /\ [][Next]_vars

(* Cron keeps firing, every await settles (database calls and the browser   *)
(* operations carry timeouts) and the event loop runs each continuation.    *)
Fairness ==
    /\ \A k \in Tick : WF_vars(TickStep(k))
    /\ \A j \in Job : WF_vars(JobStep(j))
    /\ \A t \in Task : WF_vars(TimePasses(t))

FairSpec == Spec /\ Fairness
-----------------------------------------------------------------------------
(* Properties *)

AutoJob(j) == job[j].by = "auto"   \* an execution the runner started

TickState == [pc: {"loop", "guard", "refuse", "refused", "mark"},
              cur: Task \cup {NoTask}, todo: SUBSET Task, late: SUBSET Task]
JobState  == [pc: {"free", "asked", "body", "save", "saved"},
              by: {"none", "auto", "manual"},
              task: Task \cup {NoTask}, out: {"none", "ok", "fail", "cancelled"}]

RowsOK ==
    /\ status \in [Task -> Status]
    /\ scheduledAt \in [Task -> Age]
    /\ running \subseteq Task
    /\ licensed \in BOOLEAN
    /\ stranded \subseteq Task
    /\ ended \subseteq Task

TicksOK ==
    /\ tick \in [Tick -> TickState]
    /\ \A k \in Tick : tick[k].pc = "loop" <=> tick[k].cur = NoTask

JobsOK ==
    /\ job \in [Job -> JobState]
    /\ \A j \in Job : /\ job[j].pc = "free" <=> job[j] = FreeJob
                      /\ job[j].pc # "free" <=> job[j].task \in Task
                      /\ job[j].pc # "free" <=> job[j].by # "none"
                      /\ job[j].pc = "saved" => AutoJob(j)

(* Every variable has its type, a tick has a current task exactly between   *)
(* its claim and its release, a slot is clean exactly when it is free, and  *)
(* only executions of the runner go on to reschedule and release.           *)
TypeOK == RowsOK /\ TicksOK /\ JobsOK

(* The comment at task-auto-runner.service.ts:77-79: ticks that overlap never *)
(* work on one task at the same time, no tick picks up a task that an        *)
(* execution started by a tick still runs, and all of it is in the claim set.*)
ClaimExclusive ==
    /\ \A k1, k2 \in Tick : tick[k1].cur = tick[k2].cur /\ tick[k1].cur # NoTask => k1 = k2
    /\ \A j1, j2 \in Job : AutoJob(j1) /\ AutoJob(j2) /\ job[j1].task = job[j2].task => j1 = j2
    /\ \A k \in Tick, j \in Job : AutoJob(j) => tick[k].cur # job[j].task
    /\ \A k \in Tick : tick[k].cur # NoTask => tick[k].cur \in running
    /\ \A j \in Job : AutoJob(j) => job[j].task \in running

(* The claim set is the lock it is meant to be: every step of the runner, of   *)
(* its executions and of everything around them is a step of TaskClaims, or    *)
(* leaves the claims as they are.                                            *)
TicksOf(t) == {k \in Tick : tick[k].cur = t}
AutoJobsOf(t) == {j \in Job : AutoJob(j) /\ job[j].task = t}

Lock == INSTANCE TaskClaims WITH
    tickOf <- [t \in Task |-> TicksOf(t)],
    jobOf  <- [t \in Task |-> AutoJobsOf(t)],
    lost   <- {t \in running : TicksOf(t) = {} /\ AutoJobsOf(t) = {}}

ClaimsAreLocks == Lock!Spec

(* Every path out of the runner gives its claim back (the five              *)
(* running.delete calls): an id stays in the claim set only while a tick or  *)
(* an execution works on it, or because a database call was rejected.        *)
NoLeakedClaim ==
    \A t \in running : \/ \E k \in Tick : tick[k].cur = t
                       \/ \E j \in Job : AutoJob(j) /\ job[j].task = t
                       \/ t \in stranded

(* A row shows "running" only while some execution of it will still write a  *)
(* final status: whatever user requests, ticks and restarts interleave, only *)
(* a rejected database call leaves a task running for ever.                  *)
Working(t) == \E j \in Job : /\ job[j].task = t
                             /\ \/ job[j].pc = "body"
                                \/ job[j].pc = "save" /\ job[j].out # "cancelled"

RunningHasWorker ==
    \A t \in Task \ Warmup : status[t] = "running" => Working(t) \/ t \in stranded

(* The comment at lines 95-96: the runner works on a task of a batch only     *)
(* after every task of the groups before has come to an end, or was removed,    *)
(* whatever ticks overlap.  An earlier task may be under way again by then: a    *)
(* tick that read it as pending before, a repeat cycle or the user sets it back  *)
(* (PickedUpOnce).                                                          *)
BatchInTurn ==
    \A j \in Job : AutoJob(j) /\ Batched(job[j].task) => Earlier(job[j].task) \subseteq ended

(* A due task does not wait for ever: the ticks run it (or fail it), after   *)
(* the earlier groups of its batch.                                          *)
DueServed ==
    \A t \in Task : (status[t] = "pending" /\ scheduledAt[t] # "future") ~> status[t] # "pending"

(* A task with a repeat cycle that the runner executes comes back to wait    *)
(* for its next time, whether the run succeeds or fails.                     *)
RecurringRearmed ==
    \A t \in Recurring :
        (\E j \in Job : AutoJob(j) /\ job[j].task = t) ~> status[t] = "pending"

(* The claim of a tick is meant to keep overlapping ticks from picking up    *)
(* the same task: a tick starts a task only while its row still says pending.*)
PickedUpOnce ==
    [][\A k \in Tick, j \in Job : Mark(k, j) => status[tick[k].cur] = "pending"]_vars
=============================================================================
