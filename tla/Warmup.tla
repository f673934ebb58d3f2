------------------------------- MODULE Warmup -------------------------------
(***************************************************************************)
(* The progress of warm-ups (src/backend/src/modules/warmup/              *)
(* warmup.service.ts): a row of warmup_progress per account and a parent   *)
(* row in tasks, written by requests (start, retire, resume), by the cron  *)
(* tick and by the removal and factory reset of accounts                   *)
(* (src/backend/src/modules/facebook-accounts/facebook-accounts.service.ts)*)
(*                                                                         *)
(* A step is one database statement with the code around it.  What a       *)
(* window does, and when windows open, is the subject of WarmupSchedule;   *)
(* here a tick may or may not find an account's window open.  The tasks     *)
(* page, which writes any parent row as it likes, is left out.             *)
(***************************************************************************)
EXTENDS Naturals, FiniteSets

CONSTANTS
    Account,
    Task,      \* parent tasks that may ever be created
    Request,   \* slots for concurrent HTTP requests
    Ops,       \* bound: the operations each slot may be asked for
    NoAccount,
    NoTask,
    Events,    \* the environment events of an instance, out of AllEvents
    MaxFaults  \* bound on crashes and failed statements

(* "fail": a statement fails; "crash": the process restarts; "reset":        *)
(* factory resets.                                                           *)
AllEvents == {"fail", "crash", "reset"}

ASSUME WarmupAssumption ==
    /\ NoAccount \notin Account
    /\ NoTask \notin Task
    /\ Ops \in [Request -> SUBSET {"start", "retire", "resume", "reset"}]
    /\ Events \subseteq AllEvents
    /\ MaxFaults \in Nat

VARIABLES
    acct,    \* facebook_accounts: in a warm-up group, in none, or soft-deleted
    row,     \* warmup_progress, at most one row per account
    parent,  \* tasks.status of the parent rows
    of,      \* tasks.accountId of the parent rows
    over,    \* parents whose package of 7 or 14 days is over
    check,   \* tickOne of each account
    req,     \* local state of each request
    faults,  \* how many crashes and failed statements there have been
    loose    \* history: tasks that a stale copy, a failure or a retirement
             \* by the tick set apart from their progress

vars == <<acct, row, parent, of, over, check, req, faults, loose>>

NoRow   == [task |-> NoTask, status |-> "none", phase |-> "none"]
NoCheck == [pc |-> "none", does |-> "none", seen |-> NoRow]
NoReq   == [op |-> "none", pc |-> "none", acct |-> NoAccount, seen |-> NoRow]

Init ==
    /\ acct \in [Account -> {"grouped", "ungrouped"}]
    /\ row = [a \in Account |-> NoRow]
    /\ parent = [t \in Task |-> "unborn"]
    /\ of = [t \in Task |-> NoAccount]
    /\ over = {}
    /\ check = [a \in Account |-> NoCheck]
    /\ req = [r \in Request |-> NoReq]
    /\ faults = 0
    /\ loose = {}

With(p, status, phase) == [task |-> p.task, status |-> status, phase |-> phase]

(* progressRepo.save writes every column that differs from the table, so a   *)
(* stale copy wins; when its row is gone it is inserted again, unless the    *)
(* account has another row by now ("accountId" is UNIQUE).                   *)
Saves(a, p) ==
    /\ row[a].task \in {NoTask, p.task}
    /\ row' = [row EXCEPT ![a] = p]

Refused(a, p) == row[a].task \notin {NoTask, p.task}

Apart(a, seen) == IF row[a] = seen THEN {} ELSE {seen.task, row[a].task} \ {NoTask}
-----------------------------------------------------------------------------
(* Requests *)

Goes(r, pc, p) ==
    req' = [req EXCEPT ![r] = [op |-> req[r].op, pc |-> pc, acct |-> req[r].acct, seen |-> p]]

Ends(r) == req' = [req EXCEPT ![r] = NoReq]

(* Bound: no more starts than there are parent tasks left to create. *)
TasksLeft ==
    Cardinality({t \in Task : parent[t] = "unborn"}) > Cardinality({q \in Request : req[q].op = "start"})

(* The id of the next parent: which one it is makes no difference. *)
NewTask == CHOOSE t \in Task : parent[t] = "unborn"

Asks(r, op, a) ==
    /\ req[r] = NoReq
    /\ op = "start" => TasksLeft
    /\ op = "reset" => "reset" \in Events
    /\ req' = [req EXCEPT ![r] = [op |-> op, pc |-> "find", acct |-> a, seen |-> NoRow]]
    /\ UNCHANGED <<acct, row, parent, of, over, check, faults, loose>>

(* startWarmup: the account exists and has a group *)
StartFindsAccount(r) ==
    /\ req[r].op = "start" /\ req[r].pc = "find"
    /\ IF acct[req[r].acct] = "grouped" THEN Goes(r, "existing", NoRow) ELSE Ends(r)
    /\ UNCHANGED <<acct, row, parent, of, over, check, faults, loose>>

(* and has no active warm-up *)
StartFindsExisting(r) ==
    LET p == row[req[r].acct]
    IN  /\ req[r].op = "start" /\ req[r].pc = "existing"
        /\ IF p.status = "active" THEN Ends(r) ELSE Goes(r, "transaction", p)
        /\ UNCHANGED <<acct, row, parent, of, over, check, faults, loose>>

(* Mutation: two statements, of which the second may fail, outside a         *)
(* transaction.                                                              *)
BornAlone(r, t) ==
    LET a == req[r].acct
    IN  /\ parent' = [parent EXCEPT ![t] = "running"]
        /\ of' = [of EXCEPT ![t] = a]
        /\ row' = IF row[a].task \in {NoTask, req[r].seen.task}
                  THEN [row EXCEPT ![a] = [task |-> t, status |-> "active", phase |-> "package"]]
                  ELSE row

(* The transaction deletes the retired row it has seen, whatever it is now,  *)
(* and inserts the parent and the new row; a row of a concurrent start makes *)
(* it fail as a whole.                                                       *)
Born(r, t) ==
    LET a == req[r].acct
    IN  /\ row[a].task \in {NoTask, req[r].seen.task}
        /\ parent' = [parent EXCEPT ![t] = "running"]
        /\ of' = [of EXCEPT ![t] = a]
        /\ row' = [row EXCEPT ![a] = [task |-> t, status |-> "active", phase |-> "package"]]

StartCommits(r, t) ==
    LET a == req[r].acct
        late == acct[a] = "deleted" \/ \E q \in Request : req[q].op = "reset" /\ req[q].acct = a
    IN  /\ req[r].op = "start" /\ req[r].pc = "transaction"
        /\ t = NewTask /\ parent[t] = "unborn"
        /\ Born(r, t)
        /\ loose' = loose \cup Apart(a, req[r].seen) \cup (IF late THEN {t} ELSE {})
        /\ Ends(r)
        /\ UNCHANGED <<acct, over, check, faults>>

StartRollsBack(r) ==
    /\ req[r].op = "start" /\ req[r].pc = "transaction"
    /\ row[req[r].acct].task \notin {NoTask, req[r].seen.task}
    /\ Ends(r)
    /\ UNCHANGED <<acct, row, parent, of, over, check, faults, loose>>

(* retireWarmup and resumeWarmup find the row whatever its status. *)
Finds(r) ==
    LET p == row[req[r].acct]
    IN  /\ req[r].op \in {"retire", "resume"} /\ req[r].pc = "find"
        /\ IF p = NoRow THEN Ends(r) ELSE Goes(r, "save", p)
        /\ UNCHANGED <<acct, row, parent, of, over, check, faults, loose>>

Wanted(op) == IF op = "retire" THEN "retired" ELSE "active"

SavesProgress(r) ==
    LET a == req[r].acct
        p == req[r].seen
        q == With(p, Wanted(req[r].op), p.phase)
    IN  /\ req[r].op \in {"retire", "resume"} /\ req[r].pc = "save"
        /\ \/ Saves(a, q) /\ Goes(r, "parent", q) /\ loose' = loose \cup Apart(a, p)
           \/ Refused(a, q) /\ Ends(r) /\ UNCHANGED <<row, loose>>
        /\ UNCHANGED <<acct, parent, of, over, check, faults>>

ParentTold(op, t) ==
    IF parent[t] = "removed" THEN parent
    ELSE [parent EXCEPT ![t] = IF op = "retire" THEN "cancelled" ELSE "running"]

(* The second statement: a retired warm-up cancels its parent, a resumed one *)
(* sets it to running again.                                                 *)
TellsParent(r) ==
    LET a == req[r].acct
        t == req[r].seen.task
    IN  /\ req[r].op \in {"retire", "resume"} /\ req[r].pc = "parent"
        /\ parent' = ParentTold(req[r].op, t)
        /\ loose' = loose \cup Apart(a, req[r].seen)
        /\ Ends(r)
        /\ UNCHANGED <<acct, row, of, over, check, faults>>

(* factoryReset: the progress row, the tasks of the account, the account.    *)
(* It closes no browser and stops no action.                                 *)
ResetFinds(r) ==
    /\ req[r].op = "reset" /\ req[r].pc = "find"
    /\ IF acct[req[r].acct] = "deleted" THEN Ends(r) ELSE Goes(r, "progress", NoRow)
    /\ UNCHANGED <<acct, row, parent, of, over, check, faults, loose>>

ResetDeletesProgress(r) ==
    LET a == req[r].acct
    IN  /\ req[r].op = "reset" /\ req[r].pc = "progress"
        /\ row' = [row EXCEPT ![a] = NoRow]
        /\ Goes(r, "tasks", NoRow)
        /\ UNCHANGED <<acct, parent, of, over, check, faults, loose>>

TasksOf(a)  == {t \in Task : of[t] = a}

ResetDeletesTasks(r) ==
    LET a == req[r].acct
    IN  /\ req[r].op = "reset" /\ req[r].pc = "tasks"
        /\ parent' = [t \in Task |-> IF t \in TasksOf(a) THEN "removed" ELSE parent[t]]
        /\ loose' = loose \cup Apart(a, NoRow)
        /\ Goes(r, "account", NoRow)
        /\ UNCHANGED <<acct, row, of, over, check, faults>>

ResetDeletesAccount(r) ==
    LET a == req[r].acct
    IN  /\ req[r].op = "reset" /\ req[r].pc = "account"
        /\ acct' = [acct EXCEPT ![a] = "deleted"]
        /\ Ends(r)
        /\ UNCHANGED <<row, parent, of, over, check, faults, loose>>

(* A statement is rejected: the request ends where it is.                    *)
Interrupted(r) ==
    CASE req[r].pc = "parent" -> {req[r].seen.task}
      [] req[r].op = "reset" /\ req[r].pc = "tasks" -> TasksOf(req[r].acct)
      [] OTHER -> {}

RequestFails(r) ==
    /\ "fail" \in Events /\ faults < MaxFaults
    /\ faults' = faults + 1
    /\ req[r].pc \notin {"none", "find"}
    /\ loose' = loose \cup Interrupted(r)
    /\ Ends(r)
    /\ UNCHANGED <<acct, row, parent, of, over, check>>
-----------------------------------------------------------------------------
(* The cron tick *)

TickInFlight == \E a \in Account : check[a] # NoCheck

(* Every five minutes, unless the previous tick is under way: it lists the   *)
(* active rows and works on these copies.                                    *)
TickStarts ==
    LET listed == {a \in Account : row[a].status = "active"}
    IN  /\ ~TickInFlight
        /\ listed # {}
        /\ check' = [a \in Account |-> IF a \in listed
                                       THEN [pc |-> "listed", does |-> "none", seen |-> row[a]]
                                       ELSE NoCheck]
        /\ UNCHANGED <<acct, row, parent, of, over, req, faults, loose>>

CheckGoes(a, pc, does) ==
    check' = [check EXCEPT ![a] = [pc |-> pc, does |-> does, seen |-> check[a].seen]]

OnlyWindows(a) == {"look"}   \* mutation: neither retires nor goes to P3

(* What tickOne decides once it has read the account, its group and its      *)
(* place in it.                                                              *)
Decisions(a) ==
    LET p == check[a].seen
    IN  CASE acct[a] # "grouped" -> {"retire"}
          [] acct[a] = "grouped" /\ p.phase = "package" /\ p.task \in over -> {"toP3"}
          [] OTHER -> {"look"}

Decides(a) ==
    /\ check[a].pc = "listed"
    /\ \E d \in Decisions(a) : CheckGoes(a, "save", d)
    /\ UNCHANGED <<acct, row, parent, of, over, req, faults, loose>>

(* It saves its copy, whether or not the window is the account's.  The       *)
(* parent of a row that it retires is left as it is.                         *)
CheckSaves(a) ==
    LET c == check[a]
        p == CASE c.does = "retire" -> With(c.seen, "retired", c.seen.phase)
               [] c.does = "toP3"   -> With(c.seen, "active", "P3")
               [] OTHER             -> c.seen
    IN  /\ c.pc = "save"
        /\ \/ /\ Saves(a, p)
              /\ loose' = loose \cup Apart(a, c.seen)
                                \cup (IF c.does = "retire" THEN {p.task} ELSE {})
           \/ /\ Refused(a, p)
              /\ UNCHANGED <<row, loose>>
        /\ check' = [check EXCEPT ![a] = NoCheck]
        /\ UNCHANGED <<acct, parent, of, over, req, faults>>

(* One account's failure is logged and stops no other. *)
CheckFails(a) ==
    /\ "fail" \in Events /\ faults < MaxFaults
    /\ faults' = faults + 1
    /\ check[a].pc # "none"
    /\ check' = [check EXCEPT ![a] = NoCheck]
    /\ UNCHANGED <<acct, row, parent, of, over, req, loose>>
-----------------------------------------------------------------------------
(* Users, time and crashes *)

(* assignGroup and batchAssignGroup *)
AssignGroup(a) ==
    /\ acct[a] # "deleted"
    /\ acct' = [acct EXCEPT ![a] = IF acct[a] = "grouped" THEN "ungrouped" ELSE "grouped"]
    /\ UNCHANGED <<row, parent, of, over, check, req, faults, loose>>

(* remove: a soft delete that tells nobody *)
RemoveAccount(a) ==
    /\ acct[a] # "deleted"
    /\ acct' = [acct EXCEPT ![a] = "deleted"]
    /\ UNCHANGED <<row, parent, of, over, check, req, faults, loose>>

PackageIsOver(t) ==
    /\ t \notin over
    /\ \E a \in Account : row[a].task = t /\ row[a].phase = "package"
    /\ over' = over \cup {t}
    /\ UNCHANGED <<acct, row, parent, of, check, req, faults, loose>>

Orphans == {t \in Task : parent[t] = "running" /\ \A a \in Account : row[a].task # t}

(* onModuleInit cancels the running parents that no row refers to; the       *)
(* runner's own clean-up leaves warm-up parents alone.                       *)
Restart ==
    /\ "crash" \in Events /\ faults < MaxFaults
    /\ faults' = faults + 1
    /\ parent' = [t \in Task |-> IF t \in Orphans THEN "cancelled" ELSE parent[t]]
    /\ check' = [a \in Account |-> NoCheck]
    /\ req' = [r \in Request |-> NoReq]
    /\ loose' = loose \cup UNION {Interrupted(r) : r \in Request}
    /\ UNCHANGED <<acct, row, of, over>>
-----------------------------------------------------------------------------
RequestStep(r) ==
    \/ StartFindsAccount(r) \/ StartFindsExisting(r)
    \/ \E t \in Task : StartCommits(r, t)
    \/ StartRollsBack(r)
    \/ Finds(r) \/ SavesProgress(r) \/ TellsParent(r)
    \/ ResetFinds(r) \/ ResetDeletesProgress(r) \/ ResetDeletesTasks(r) \/ ResetDeletesAccount(r)
    \/ RequestFails(r)

CheckStep(a) == Decides(a) \/ CheckSaves(a)

TickStep == TickStarts \/ \E a \in Account : CheckStep(a)

Next ==
    \/ \E r \in Request, a \in Account : \E op \in Ops[r] : Asks(r, op, a)
    \/ \E r \in Request : RequestStep(r)
    \/ TickStep
    \/ \E a \in Account : CheckFails(a) \/ AssignGroup(a) \/ RemoveAccount(a)
    \/ \E t \in Task : PackageIsOver(t)
    \/ Restart

Spec == Init /\ [][Next]_vars

(* The cron fires for ever and every statement of a tick settles. *)
Fairness == WF_vars(TickStarts) /\ \A a \in Account : WF_vars(CheckStep(a))

FairSpec == Spec /\ Fairness
-----------------------------------------------------------------------------
(* Properties *)

Handled(a) == \E r \in Request : req[r].acct = a /\ req[r].pc \in {"parent", "tasks", "account"}

(* The promise of the transaction in startWarmup and of the second           *)
(* statements of retire and resume (lines 147, 258, 280): a parent runs      *)
(* exactly while the progress of its account is active and points to it,     *)
(* except after a failure between two statements, a copy that was stale when *)
(* saved, or a retirement by the tick.                                       *)
ParentAgrees ==
    \A t \in Task \ loose : \A a \in Account :
        of[t] = a /\ ~Handled(a) =>
            (parent[t] = "running" <=> row[a].task = t /\ row[a].status = "active")

(* Lines 379-393: when its package is over, an active warm-up in a group     *)
(* goes on in P3 (or is retired, or replaced).                               *)
PackageGoesOn ==
    \A a \in Account, t \in Task :
        (row[a] = [task |-> t, status |-> "active", phase |-> "package"] /\ t \in over)
            ~> row[a] # [task |-> t, status |-> "active", phase |-> "package"]
=============================================================================
