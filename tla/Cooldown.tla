------------------------------ MODULE Cooldown ------------------------------
(***************************************************************************)
(* One account on which Facebook shows a checkpoint: what the calls that     *)
(* open its browser do with it.  A task started by hand and the window shown *)
(* for a task look for the checkpoint and put the account off for 24 hours;  *)
(* the runner and the login do not look, but no browser is handed out while  *)
(* the account is put off, or banned (getOrLaunchSession).                   *)
(*                                                                         *)
(* A step runs from one await to the next.  The browser itself is the subject  *)
(* of BrowserSession, and what is done with it once logged in that of         *)
(* Integrations.  Of the row the model keeps whether cooldownUntil is in the   *)
(* future and the status, "open" for every status but suspicious and banned.  *)
(***************************************************************************)
EXTENDS Naturals, FiniteSets

CONSTANTS
    Call,      \* slots for concurrent calls
    MaxFaults  \* bound: statements that fail

VARIABLES
    row,     \* status, and whether cooldownUntil is in the future
    call,
    warned,  \* history: a checkpoint was recorded and its 24 hours are not over
    after,   \* history: browsers handed out since, while the row says so
    wiped,   \* history: a later write has taken the record off the row
    faults

cooldownVars == <<row, call, warned, after, wiped, faults>>

Fresh == [status |-> "open", cooling |-> FALSE]
NoCall == [kind |-> "none", at |-> "idle", sees |-> "none", copy |-> Fresh]

Init ==
    /\ row = Fresh
    /\ call = [c \in Call |-> NoCall]
    /\ warned = FALSE /\ after = 0 /\ wiped = FALSE /\ faults = 0

Goes(c, at) == call' = [call EXCEPT ![c].at = at]
Returns(c) == call' = [call EXCEPT ![c] = NoCall]
At(c, at) == call[c].at = at

(* The record of a checkpoint, in one of its two forms                        *)
Barred(r) == r.cooling \/ r.status = "banned"

Takes(r) ==
    /\ row' = r
    /\ wiped' = (wiped \/ (warned /\ Barred(row) /\ ~Barred(r)))
-----------------------------------------------------------------------------
Asks(c, kind) ==
    /\ call[c] = NoCall
    /\ call' = [call EXCEPT ![c] = [NoCall EXCEPT !.kind = kind,
                                    !.at = CASE kind = "login" -> "mark"
                                             [] kind = "edit" -> "find"
                                             [] kind = "logout" -> "write"
                                             [] OTHER -> "gate"]]
    /\ UNCHANGED <<row, warned, after, wiped, faults>>

(* The login writes 'idle' before it asks for the browser: a ban is forgotten,  *)
(* a cooldown is not.                                                        *)
LoginMarks(c) ==
    /\ At(c, "mark")
    /\ Takes([row EXCEPT !.status = "open"])
    /\ Goes(c, "gate")
    /\ UNCHANGED <<warned, after, faults>>

GateByStatus(r) == r.status \in {"suspicious", "banned"}   \* mutation: the status alone is asked

Refuses(r) == Barred(r)

Throws(c) == IF call[c].kind = "login" THEN Goes(c, "failed") ELSE Returns(c)

(* An error other than the two refusals lets the call go on.                  *)
Gate(c) ==
    /\ At(c, "gate")
    /\ \/ ~Refuses(row) /\ Goes(c, "launch") /\ UNCHANGED faults
       \/ Refuses(row) /\ Throws(c) /\ UNCHANGED faults
       \/ faults < MaxFaults /\ faults' = faults + 1 /\ Goes(c, "launch")
    /\ UNCHANGED <<row, warned, after, wiped>>

Handed(c) ==
    /\ Goes(c, IF call[c].kind = "login" THEN "waits" ELSE "look")
    /\ after' = IF warned /\ ~wiped THEN after + 1 ELSE after
    /\ UNCHANGED <<row, warned, wiped, faults>>

(* The browser there is, or the one that another call is starting             *)
Reuses(c) ==
    /\ At(c, "launch")
    /\ Handed(c)

(* resolveAccountProxy: an account with a usable VPN gets its proxy, which is    *)
(* tried first.  One without it, or whose rows cannot be read, is sent to       *)
(* Facebook directly.                                                        *)
ResolvesProxy(c) ==
    /\ At(c, "launch")
    /\ Goes(c, "ping") \/ Goes(c, "start")
    /\ UNCHANGED <<row, warned, after, wiped, faults>>

PingAnswers(c) ==
    /\ At(c, "ping")
    /\ Goes(c, "start")
    /\ UNCHANGED <<row, warned, after, wiped, faults>>

HandsOut(c) ==
    /\ At(c, "start")
    /\ Handed(c)

(* Too many browsers, or another call's does not come; the proxy does not       *)
(* answer; Chrome does not start.                                             *)
LaunchFails(c) ==
    /\ call[c].at \in {"launch", "ping", "start"}
    /\ Throws(c)
    /\ UNCHANGED <<row, warned, after, wiped, faults>>

(* The login's catch writes 'error'.                                          *)
LoginFails(c) ==
    /\ At(c, "failed")
    /\ Takes([row EXCEPT !.status = "open"])
    /\ Returns(c)
    /\ UNCHANGED <<warned, after, faults>>

(* The user logs in, or two minutes pass; the checkpoint is not looked for.    *)
LoginEnds(c) ==
    /\ At(c, "waits")
    /\ Takes([row EXCEPT !.status = "open"])
    /\ Returns(c)
    /\ UNCHANGED <<warned, after, faults>>
-----------------------------------------------------------------------------
(* ensureLoggedIn.  A page without a form for the password counts as logged     *)
(* in and is not looked at: the task goes to work.                            *)
AlreadyIn(c) ==
    /\ At(c, "look")
    /\ Returns(c)
    /\ UNCHANGED <<row, warned, after, wiped, faults>>

(* Otherwise the cookies are tried, and then the password.                    *)
TriesToLogIn(c) ==
    /\ At(c, "look")
    /\ Goes(c, "tried")
    /\ UNCHANGED <<row, warned, after, wiped, faults>>

(* In, or out: no cookies and no password, or a page that no pattern describes  *)
GoesOn(c) ==
    /\ At(c, "tried")
    /\ Returns(c)
    /\ UNCHANGED <<row, warned, after, wiped, faults>>

(* detectCheckpoint: the address, then the text of the page.  Of the two        *)
(* copies of ensureLoggedIn, the runner's does not call it.                   *)
Looks == {"manual"}

Detects(c, kind) ==
    /\ At(c, "tried") /\ call[c].kind \in Looks
    /\ call' = [call EXCEPT ![c].at = "record", ![c].sees = kind]
    /\ UNCHANGED <<row, warned, after, wiped, faults>>

(* applyCheckpointToAccount: no cooldown for an account that is disabled.      *)
Recorded(kind) ==
    IF kind = "account_disabled" THEN [status |-> "banned", cooling |-> FALSE]
    ELSE [status |-> "suspicious", cooling |-> TRUE]

Records(c) ==
    /\ At(c, "record")
    /\ row' = Recorded(call[c].sees)
    /\ warned' = TRUE
    /\ IF warned /\ ~wiped THEN UNCHANGED <<after, wiped>> ELSE after' = 0 /\ wiped' = FALSE
    /\ Returns(c)
    /\ UNCHANGED faults

(* The error is logged.                                                       *)
RecordFails(c) ==
    /\ At(c, "record") /\ faults < MaxFaults
    /\ faults' = faults + 1
    /\ Returns(c)
    /\ UNCHANGED <<row, warned, after, wiped>>

-----------------------------------------------------------------------------
(* logout, and getLoginStatus when the session is gone: status 'idle'          *)
Logout(c) ==
    /\ At(c, "write")
    /\ Takes([row EXCEPT !.status = "open"])
    /\ Returns(c)
    /\ UNCHANGED <<warned, after, faults>>

(* An edit of the account saves the whole row it has read, with the status it  *)
(* was given, if any; refreshing its token and synchronising it do likewise.    *)
EditFinds(c) ==
    /\ At(c, "find")
    /\ call' = [call EXCEPT ![c].at = "save", ![c].copy = row]
    /\ UNCHANGED <<row, warned, after, wiped, faults>>

EditSaves(c) ==
    /\ At(c, "save")
    /\ Takes(call[c].copy) \/ Takes([call[c].copy EXCEPT !.status = "open"])
    /\ Returns(c)
    /\ UNCHANGED <<warned, after, faults>>

(* 24 hours                                                                  *)
CooldownEnds ==
    /\ row.cooling
    /\ row' = [row EXCEPT !.cooling = FALSE]
    /\ warned' = FALSE /\ after' = 0 /\ wiped' = FALSE
    /\ UNCHANGED <<call, faults>>

Kinds == {"manual", "runner", "login", "logout", "edit"}

Next ==
    \/ \E c \in Call :
        \/ \E kind \in Kinds : Asks(c, kind)
        \/ LoginMarks(c) \/ Gate(c) \/ Reuses(c) \/ ResolvesProxy(c) \/ PingAnswers(c) \/ HandsOut(c)
        \/ LaunchFails(c) \/ LoginFails(c) \/ LoginEnds(c)
        \/ AlreadyIn(c) \/ TriesToLogIn(c) \/ GoesOn(c)
        \/ \E kind \in {"security_check", "account_disabled"} : Detects(c, kind)
        \/ Records(c) \/ RecordFails(c)
        \/ Logout(c) \/ EditFinds(c) \/ EditSaves(c)
    \/ CooldownEnds

Spec == Init /\ [][Next]_cooldownVars
-----------------------------------------------------------------------------
(* The comments at browser-session.service.ts 140 and                         *)
(* simple-tasks.controller.ts 523: once a checkpoint has been recorded, no      *)
(* browser is handed out but to the calls that had passed the gate before, at    *)
(* most the others under way, and to those that could not read the row, until    *)
(* 24 hours are over or a write takes the record away: a login or a logout       *)
(* after a ban, an edit of the status, or the save of a row read before.        *)
FewAfterCheckpoint ==
    warned /\ ~wiped => after < Cardinality(Call) + faults
=============================================================================
