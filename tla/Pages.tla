-------------------------------- MODULE Pages --------------------------------
(***************************************************************************)
(* The pages of the console as lists of rows: what one shows while its        *)
(* handlers and timers ask for the list again, edit it in place, or leave it.  *)
(*                                                                         *)
(* A page is known by its list; "warmups" is the column of the accounts page    *)
(* that has a list, a timer and handlers of its own.  The server's rows are the *)
(* set of the changes made since the page was opened, by its own handlers ("me") *)
(* and by others (the runner, other pages).                                   *)
(* A list shows the changes of one view: a page of the accounts table, a       *)
(* language of the chat scripts; the other pages have one view.  Requests may   *)
(* be answered in any order, and a handler runs with the view that was chosen   *)
(* when it was clicked, as a React closure does.                               *)
(*                                                                         *)
(* One handler is in flight at a time, and it makes one change per view; a       *)
(* registration makes two, its row and its result.  The server lists the newest   *)
(* rows up to a limit (100 for the tasks): what is said here is about those.      *)
(* Left out: the statistics beside the lists, forms and their checks, the         *)
(* anti-detection page, which keeps its rows in memory only, and the pages       *)
(* without a handler.                                                          *)
(***************************************************************************)
EXTENDS Naturals, Sequences, SequencesExt

CONSTANTS
    View,      \* views of the pages that have several
    First,     \* the one a page opens with; for the scripts it is zh
    NoView,
    MaxLists,  \* bound: list requests in flight
    MaxFaults  \* bound: requests that fail

VARIABLES
    page,    \* the page open
    view,    \* its view
    rows,    \* changes made on the server
    known,   \* own changes that were answered
    untold,  \* history: those of known after which no list was asked for
    claims,  \* history: what handlers wrote into the list that the server did not say
    shown,   \* the list on the screen, and why it is there
    lists,   \* requests for the list, in the order they were sent
    call,    \* the handler in flight
    faults

pageVars == <<page, view, rows, known, untold, claims, shown, lists, call, faults>>

Mine(v) == [of |-> v, by |-> "me"]
Result(v) == [of |-> v, by |-> "result"]   \* of a registration
Guess(v) == [of |-> v, by |-> "guess"]     \* a status that is not the server's

NoHandler == [op |-> "none", at |-> "idle", view |-> NoView, target |-> NoView]
NoList == [of |-> NoView, has |-> {}, why |-> "fresh"]
Asked(v) == [of |-> v, has |-> {}, answered |-> FALSE, late |-> FALSE]

(* The login page: nothing is asked for before one has logged in.             *)
Init ==
    /\ page = "login" /\ view = First
    /\ rows = {} /\ known = {} /\ untold = {} /\ claims = {}
    /\ shown = NoList /\ lists = <<>> /\ call = NoHandler
    /\ faults = 0
-----------------------------------------------------------------------------
(* A route is taken: the page mounted before is gone with what it waited for.  *)
Open(p) ==
    /\ page' = p /\ view' = First
    /\ rows' = {} /\ known' = {} /\ untold' = {} /\ claims' = {} /\ shown' = NoList
    /\ lists' = <<Asked(First)>> /\ call' = NoHandler
    /\ UNCHANGED faults

(* The effects of mounting: every page asks for its list.                     *)
OpenTasks == Open("tasks")
OpenAccounts == Open("accounts")
OpenWarmups == Open("warmups")
OpenStatus == Open("status")
OpenVpn == Open("vpn")
OpenLicenses == Open("licenses")
OpenScripts == Open("scripts")

(* Logging out, or an answer 401: api.ts drops the token and loads the login  *)
(* page, ProtectedRoute lets no other be seen.                               *)
SignedOut ==
    /\ page # "login"
    /\ page' = "login" /\ view' = First
    /\ rows' = {} /\ known' = {} /\ untold' = {} /\ claims' = {}
    /\ shown' = NoList /\ lists' = <<>> /\ call' = NoHandler
    /\ UNCHANGED faults

(* The list of a view is asked for.                                           *)
Asks(v) ==
    /\ Len(lists) < MaxLists
    /\ lists' = Append(lists, Asked(v))
    /\ untold' = {c \in untold : c.of # v}

Views == IF page \in {"accounts", "scripts"} THEN View ELSE {First}

(* setPage, the tabs: the effect that depends on them asks again, the rows     *)
(* shown stay until it is answered.  The dialog of a registration covers them.   *)
Turn(v) ==
    /\ page # "login" /\ v \in Views \ {view} /\ call.at \notin {"waits", "over"}
    /\ view' = v
    /\ Asks(v)
    /\ UNCHANGED <<page, rows, known, claims, shown, call, faults>>

RefreshedStatusOnly == {"status"}   \* mutation: the tasks page has no timer

(* setInterval: tasks and status every 30 seconds, warm-ups every 60           *)
Refreshed == {"tasks", "status", "warmups"}

Tick ==
    /\ page \in Refreshed
    /\ Asks(view)
    /\ UNCHANGED <<page, view, rows, known, claims, shown, call, faults>>

(* findAll and its like *)
ServerLists(i) ==
    /\ i \in DOMAIN lists /\ ~lists[i].answered
    /\ lists' = [lists EXCEPT ![i].answered = TRUE, ![i].has = {c \in rows : c.of = lists[i].of}]
    /\ UNCHANGED <<page, view, rows, known, untold, claims, shown, call, faults>>

(* What was asked before the answer that is there has become old.             *)
Rest(i) == RemoveAt([j \in DOMAIN lists |-> IF j < i THEN [lists[j] EXCEPT !.late = TRUE] ELSE lists[j]], i)

ListArrives(i) ==
    /\ i \in DOMAIN lists /\ lists[i].answered
    /\ shown' = [of |-> lists[i].of, has |-> lists[i].has,
                 why |-> IF lists[i].late THEN "late" ELSE IF lists[i].of # view THEN "elsewhere" ELSE "fresh"]
    /\ lists' = Rest(i)
    /\ claims' = {}
    /\ UNCHANGED <<page, view, rows, known, untold, call, faults>>

(* The rows stay, but for the scripts.                                        *)
ListFails(i) ==
    /\ i \in DOMAIN lists /\ faults < MaxFaults
    /\ faults' = faults + 1
    /\ shown' = IF page = "scripts" THEN [of |-> view, has |-> {}, why |-> "failed"] ELSE [shown EXCEPT !.why = "failed"]
    /\ lists' = Rest(i)
    /\ UNCHANGED <<page, view, rows, known, untold, claims, call>>

(* Bound: others change the rows of the first view only.                       *)
Others ==
    /\ page # "login"
    /\ rows' = rows \cup {[of |-> First, by |-> "other"]}
    /\ UNCHANGED <<page, view, known, untold, claims, shown, lists, call, faults>>
-----------------------------------------------------------------------------
(* The handlers of a page are told apart by what they do with the answer:       *)
(* "refetch" asks for the list again, "create", "edit", "stop" and "delete"      *)
(* change it in place, "register" opens a dialog that waits for the result.      *)
TaskButtons == {"create", "edit", "stop", "delete", "refetch"}
ScriptButtons == {"import"} \cup (IF view = First THEN {"reset"} ELSE {"clear"})

Offered ==
    CASE page = "tasks" -> TaskButtons
      [] page = "scripts" -> ScriptButtons
      [] page = "accounts" -> {"refetch", "register"}
      [] page = "login" -> {}
      [] OTHER -> {"refetch"}

(* Bound: a registration is started from the first page of the accounts.        *)
Click(op, v) ==
    /\ call = NoHandler /\ op \in Offered
    /\ op = "register" => view = First
    /\ v \in IF op = "import" THEN View ELSE {view}
    /\ Mine(v) \notin rows
    /\ call' = [op |-> op, at |-> "sent", view |-> view, target |-> v]
    /\ UNCHANGED <<page, view, rows, known, untold, claims, shown, lists, faults>>

(* The routes of the license server are behind a proxy, which may be told no   *)
(* or nothing after the server has served.                                   *)
Forwards ==
    /\ page = "licenses" /\ call.at = "sent"
    /\ call' = [call EXCEPT !.at = "forwarded"]
    /\ UNCHANGED <<page, view, rows, known, untold, claims, shown, lists, faults>>

ServerServes ==
    /\ call.at = IF page = "licenses" THEN "forwarded" ELSE "sent"
    /\ rows' = rows \cup {Mine(call.target)}
    /\ call' = [call EXCEPT !.at = "served"]
    /\ UNCHANGED <<page, view, known, untold, claims, shown, lists, faults>>

(* execute: the task is gone, or runs already.  Nothing is changed, and the      *)
(* answer is not an error.                                                    *)
ServerRefuses ==
    /\ page = "tasks" /\ call.op = "edit" /\ call.at = "sent"
    /\ call' = [call EXCEPT !.at = "refused"]
    /\ UNCHANGED <<page, view, rows, known, untold, claims, shown, lists, faults>>

Answered(op) ==
    /\ call.op = op /\ call.at = "served"
    /\ known' = known \cup {Mine(call.target)}
    /\ call' = NoHandler
    /\ UNCHANGED <<page, rows, faults>>

Forgets == UNCHANGED <<lists, view, shown, untold, claims>>   \* mutation: the batch of tasks is not asked for

Refetches ==
    /\ Asks(call.view)
    /\ UNCHANGED <<view, shown, claims>>

(* A list read before an edit in place loses the edit when it comes.           *)
Overtaken == [i \in DOMAIN lists |-> IF lists[i].answered /\ Mine(call.target) \notin lists[i].has
                                     THEN [lists[i] EXCEPT !.late = TRUE] ELSE lists[i]]

(* setTasks(prev => ...) *)
EditsInPlace ==
    /\ shown' = [shown EXCEPT !.has = @ \cup {Mine(call.target)}]
    /\ lists' = Overtaken
    /\ UNCHANGED <<view, untold, claims>>

(* A handler writes c into the list, on its own word.                          *)
Claims(c) ==
    /\ shown' = [shown EXCEPT !.has = @ \cup {c}]
    /\ claims' = claims \cup {c}

(* handleModalOk for one task; for a batch of tasks or warm-ups               *)
TaskCreated == Answered("create") /\ EditsInPlace
TasksCreated == page = "tasks" /\ Answered("refetch") /\ Refetches

(* handleExecute and handleReset *)
TaskSet == Answered("edit") /\ EditsInPlace

(* handleExecute does not look at success: the task is shown as running.       *)
RefusalIgnored ==
    /\ call.at = "refused"
    /\ Claims(Mine(call.target))
    /\ call' = NoHandler
    /\ UNCHANGED <<page, view, rows, known, untold, lists, faults>>

(* handleStop: the server has cancelled the task, the list says that it failed. *)
TaskStopped ==
    /\ Answered("stop")
    /\ Claims(Guess(call.target))
    /\ untold' = untold \cup {Mine(call.target)}
    /\ lists' = Overtaken
    /\ UNCHANGED view

(* Until the dialog with its log, if it is still open, is told the status.      *)
DialogTells ==
    /\ Guess(First) \in claims
    /\ shown' = [shown EXCEPT !.has = (@ \ {Guess(First)}) \cup {Mine(First)}]
    /\ claims' = claims \ {Guess(First)}
    /\ UNCHANGED <<page, view, rows, known, untold, lists, call, faults>>

TaskDeleted == Answered("delete") /\ EditsInPlace

(* handleDelete, handleSync, handleLogin, handleLogout, handleSubmit, and       *)
(* those written in place: the group, the batch of groups, the factory reset.  *)
AccountDone == page = "accounts" /\ Answered("refetch") /\ Refetches

(* RegistrationModal: once the registration is under way its dialog waits for    *)
(* the result.  The list, which lacks the new row, is not asked for.             *)
RegistrationStarts ==
    /\ call.op = "register" /\ call.at = "served"
    /\ known' = known \cup {Mine(call.target)}
    /\ untold' = untold \cup {Mine(call.target)}
    /\ call' = [call EXCEPT !.at = "waits"]
    /\ UNCHANGED <<page, view, rows, claims, shown, lists, faults>>

(* The registration succeeds, fails, or is cancelled by the user.               *)
RegistrationEnds ==
    /\ call.at = "waits"
    /\ rows' = rows \cup {Result(call.target)}
    /\ call' = [call EXCEPT !.at = "over"]
    /\ UNCHANGED <<page, view, known, untold, claims, shown, lists, faults>>

(* A success is followed by onSuccess.                                        *)
RegistrationSeen ==
    /\ call.at = "over"
    /\ known' = known \cup {Result(call.target)}
    /\ Refetches
    /\ call' = NoHandler
    /\ UNCHANGED <<page, rows, faults>>

(* Nothing follows a failure or a cancellation but the dialog's own message.     *)
RegistrationUntold ==
    /\ call.at = "over"
    /\ known' = known \cup {Result(call.target)}
    /\ untold' = untold \cup {Result(call.target)}
    /\ call' = NoHandler
    /\ UNCHANGED <<page, view, rows, claims, shown, lists, faults>>

(* Starting, resuming or retiring a warm-up                                   *)
WarmupDone == page = "warmups" /\ Answered("refetch") /\ Refetches

(* The login and logout of the status page                                   *)
StatusDone == page = "status" /\ Answered("refetch") /\ Refetches
VpnDone == page = "vpn" /\ Answered("refetch") /\ Refetches
LicenseDone == page = "licenses" /\ Answered("refetch") /\ Refetches

(* resetToDefault: zh was chosen at the click, zh is asked for.                *)
ResetDone == Answered("reset") /\ Refetches

(* The scripts of the language chosen at the click are gone: an empty list.    *)
ClearDone ==
    /\ Answered("clear")
    /\ shown' = [of |-> call.view, has |-> {Mine(call.view)},
                 why |-> IF call.view = view THEN "cleared" ELSE "elsewhere"]
    /\ lists' = Overtaken
    /\ UNCHANGED <<view, untold, claims>>

(* The tab of the language imported is chosen, which asks for its list.        *)
ImportDone ==
    /\ Answered("import") /\ view # call.target
    /\ view' = call.target
    /\ Asks(call.target)
    /\ UNCHANGED <<shown, claims>>

(* If it was chosen before, nothing changes and nothing is asked for.          *)
ImportUnseen ==
    /\ call.op = "import" /\ call.at = "served" /\ view = call.target
    /\ call' = NoHandler
    /\ UNCHANGED <<page, view, rows, known, untold, claims, shown, lists, faults>>

(* The request failed before or after it was served: a message is shown, and   *)
(* a task to be deleted is taken off the list all the same.                   *)
CallFails ==
    /\ call.at \in {"sent", "forwarded", "served"} /\ faults < MaxFaults
    /\ faults' = faults + 1
    /\ call' = NoHandler
    /\ IF call.op = "delete" THEN Claims(Mine(call.target)) ELSE UNCHANGED <<shown, claims>>
    /\ UNCHANGED <<page, view, rows, known, untold, lists>>

Buttons == {"create", "edit", "stop", "delete", "refetch", "register", "reset", "clear", "import"}

Next ==
    \/ OpenTasks \/ OpenAccounts \/ OpenWarmups \/ OpenStatus \/ OpenVpn \/ OpenLicenses \/ OpenScripts
    \/ SignedOut
    \/ \E v \in View : Turn(v)
    \/ Tick \/ Others
    \/ \E i \in 1..MaxLists : ServerLists(i) \/ ListArrives(i) \/ ListFails(i)
    \/ \E v \in View, op \in Buttons : Click(op, v)
    \/ Forwards \/ ServerServes \/ ServerRefuses
    \/ TaskCreated \/ TasksCreated \/ TaskSet \/ RefusalIgnored \/ TaskStopped \/ DialogTells \/ TaskDeleted
    \/ RegistrationStarts \/ RegistrationEnds \/ RegistrationSeen \/ RegistrationUntold
    \/ AccountDone \/ WarmupDone \/ StatusDone \/ VpnDone \/ LicenseDone
    \/ ResetDone \/ ClearDone \/ ImportDone \/ ImportUnseen
    \/ CallFails

Spec == Init /\ [][Next]_pageVars

(* Timers fire and requests are answered.                                     *)
Fairness == WF_pageVars(Tick) /\ WF_pageVars(ServerLists(1)) /\ WF_pageVars(ListArrives(1))

FairSpec == Spec /\ Fairness
-----------------------------------------------------------------------------
(* Nothing is under way but, perhaps, a registration.                           *)
Quiet == lists = <<>> /\ call.at \in {"idle", "waits"}

(* When everything has been answered, in order and without a failure, the list  *)
(* is the one of the view chosen; it has every change of the page's own handlers, *)
(* but an import into the language chosen, the start, failure or cancellation of  *)
(* a registration and the stop of a task, as long as no list was asked for since; *)
(* and it has nothing that the server has not, but what a handler wrote into it   *)
(* since the last list: a stopped task as failed, a task that was not started as  *)
(* running, a task that was not deleted as gone.                              *)
ShownAgrees ==
    page # "login" /\ Quiet /\ shown.why = "fresh"
        => /\ shown.of = view
           /\ {c \in known \ untold : c.of = view} \subseteq shown.has
           /\ shown.has \subseteq rows \cup claims

(* The lists with a timer show what others changed while they stay open.       *)
PageCatchesUp ==
    \A c \in [of: {First}, by: {"me", "other"}] :
        (page \in {"tasks", "status", "warmups"} /\ c \in rows) ~> (c \in shown.has \/ c \notin rows)
=============================================================================
