------------------------------- MODULE Logins -------------------------------
(***************************************************************************)
(* Logins and registrations of Facebook accounts: facebook-login.service.ts *)
(* and facebook-registration.service.ts under                               *)
(* src/backend/src/modules/facebook-accounts, as they write the columns      *)
(* status, loginStatus and deletedAt of an account and share its browser.    *)
(*                                                                         *)
(* The pool of browsers is the subject of BrowserSession; here a browser     *)
(* opens, closes or exits in one step, and what is on its pages is a choice: *)
(* whether the user has got through (the cookie c_user), and whether a call   *)
(* to the page throws.                                                       *)
(***************************************************************************)
EXTENDS Naturals, FiniteSets

CONSTANTS
    Account,
    MaxCalls,   \* bound on login, logout, cancel and status requests
    MaxTicks,   \* bound on the ticks of a watcher that overlap
    NoAccount,
    MaxFaults   \* bound on crashes and rejected statements

ASSUME LoginsAssumption ==
    /\ NoAccount \notin Account
    /\ MaxCalls \in Nat /\ MaxTicks \in Nat /\ MaxFaults \in Nat

Call == 1..MaxCalls   \* requests, in the order in which they are made
Tick == 1..MaxTicks

VARIABLES
    status,    \* facebook_accounts.status
    in,        \* accounts with loginStatus = true
    deleted,   \* accounts with a deletedAt
    guard,     \* loginInProgress
    call,      \* local state of each request
    reg,       \* the background part of each registration
    watcher,   \* watchers: accounts with an interval
    tick,      \* the ticks of each watcher
    old,       \* accounts whose registration began 30 minutes ago
    browser,   \* accounts with an open browser
    cookie,    \* accounts whose profile has c_user
    taken,     \* accounts whose Facebook ID another row has already
    faults,
    doubled,   \* history: accounts with two logins past the guard
    leaked,    \* history: accounts whose login was rejected by the database at line 75
    raced,     \* history: accounts that succeeded while a failure was on its way
    early,     \* history: accounts cancelled before their watcher started
    stuck      \* history: registrations cut off by a crash or a rejected statement

rowVars  == <<status, in, deleted>>
memory   == <<guard, call, reg, watcher, tick>>
world    == <<old, browser, cookie, taken, faults>>
history  == <<doubled, leaked, raced, early, stuck>>
vars     == <<rowVars, memory, world, history>>

NoCall == [op |-> "none", pc |-> "none", acct |-> NoAccount]
Ended  == [NoCall EXCEPT !.pc = "ended"]

Init ==
    /\ status \in [Account -> {"unborn", "idle"}]
    /\ in = {} /\ deleted = {}
    /\ guard = {}
    /\ call = [c \in Call |-> NoCall]
    /\ reg = [a \in Account |-> "none"]
    /\ watcher = {}
    /\ tick = [a \in Account |-> [k \in Tick |-> "none"]]
    /\ old = {} /\ browser = {} /\ cookie = {}
    /\ taken \in SUBSET Account
    /\ faults = 0
    /\ doubled = {} /\ leaked = {} /\ raced = {} /\ early = {} /\ stuck = {}

(* A failure of account a that may still be written: a tick that has looked, *)
(* or the background part of the registration.                               *)
FailurePending(a) ==
    reg[a] # "none" \/ \E k \in Tick : tick[a][k] \in {"closed", "fail"}

Faulty == faults < MaxFaults /\ faults' = faults + 1

(* A login whose browser goes loses its page: the next call to it throws. *)
WithoutPages(a, cs) ==
    [c \in Call |->
        IF cs[c].acct # a THEN cs[c]
        ELSE CASE cs[c].pc = "page"  -> [cs[c] EXCEPT !.pc = "lost"]
               [] cs[c].pc = "saved"            -> [cs[c] EXCEPT !.pc = "saved, lost"]
               [] OTHER                         -> cs[c]]

To(c, pc) == [call EXCEPT ![c].pc = pc]
-----------------------------------------------------------------------------
(* login *)

FreeToLogIn(a) == a \notin guard

Asks(c, op, a) ==
    /\ call[c] = NoCall /\ \A d \in 1..(c - 1) : call[d] # NoCall
    /\ status[a] # "unborn"
    /\ op = "login" => FreeToLogIn(a)
    /\ call' = [call EXCEPT ![c] = [NoCall EXCEPT !.op = op, !.acct = a, !.pc = "find"]]
    /\ UNCHANGED <<rowVars, guard, reg, watcher, tick, world, history>>

(* The row is found after an await; only then is the account put in the set, *)
(* where another login may have put it meanwhile.                            *)
LoginFinds(c) ==
    LET a == call[c].acct
    IN  /\ call[c].op = "login" /\ call[c].pc = "find"
        /\ IF a \in deleted
           THEN /\ call' = [call EXCEPT ![c] = Ended]
                /\ UNCHANGED <<guard, doubled>>
           ELSE /\ call' = To(c, "mark")
                /\ guard' = guard \cup {a}
                /\ doubled' = IF \E d \in Call \ {c} : call[d].acct = a /\ call[d].op = "login" /\ call[d].pc = "find"
                              THEN doubled \cup {a} ELSE doubled
        /\ UNCHANGED <<rowVars, reg, watcher, tick, world, leaked, raced, early, stuck>>

(* The UPDATE at line 75 is outside the try. *)
LoginMarks(c) ==
    LET a == call[c].acct
    IN  /\ call[c].pc = "mark"
        /\ \/ /\ status' = [status EXCEPT ![a] = "idle"]
              /\ call' = To(c, "launch")
              /\ UNCHANGED <<faults, leaked>>
           \/ /\ Faulty
              /\ call' = [call EXCEPT ![c] = Ended]
              /\ leaked' = leaked \cup {a}
              /\ UNCHANGED status
        /\ UNCHANGED <<in, deleted, guard, reg, watcher, tick, old, browser, cookie, taken,
                       doubled, raced, early, stuck>>

(* getOrLaunchSession and newPage *)
LoginLaunches(c) ==
    LET a == call[c].acct
    IN  /\ call[c].pc = "launch"
        /\ call' = [call EXCEPT ![c].pc = "page"]
        /\ browser' = browser \cup {a}
        /\ UNCHANGED <<rowVars, guard, reg, watcher, tick, old, cookie, taken, faults, history>>

(* The profile is logged in already, or the form is filled in and the user   *)
(* gets through within 15 minutes, or does not.                              *)
LoginWaits(c) ==
    /\ call[c].pc = "page"
    /\ call' = To(c, IF call[c].acct \in cookie THEN "save" ELSE "timeout")
    /\ UNCHANGED <<rowVars, guard, reg, watcher, tick, world, history>>

GuardKept(a) == guard   \* mutation: not deleted

GuardLeft(a) == guard \ {a}

(* saveLoginSuccess; the page is closed next, and the guard is left. *)
LoginSaves(c) ==
    LET a == call[c].acct
    IN  /\ call[c].pc = "save" /\ a \notin taken
        /\ status' = [status EXCEPT ![a] = "active"]
        /\ in' = in \cup {a}
        /\ raced' = IF FailurePending(a) THEN raced \cup {a} ELSE raced
        /\ call' = To(c, "saved")
        /\ UNCHANGED <<deleted, guard, reg, watcher, tick, world, doubled, leaked, early, stuck>>

LoginEnds(c) ==
    /\ call[c].pc \in {"saved", "saved, lost"}
    /\ guard' = GuardLeft(call[c].acct)
    /\ call' = [call EXCEPT ![c] = Ended]
    /\ UNCHANGED <<rowVars, reg, watcher, tick, world, history>>

(* The time is up: the delayed close is armed, the row written, and then the *)
(* guard left.                                                               *)
LoginTimesOut(c) ==
    LET a == call[c].acct
    IN  /\ call[c].pc = "timeout"
        /\ status' = [status EXCEPT ![a] = "error"]
        /\ in' = in \ {a}
        /\ guard' = GuardLeft(a)
        /\ call' = To(c, "timer")
        /\ UNCHANGED <<deleted, reg, watcher, tick, world, history>>

(* Anything in the try may throw: a page or a browser that is gone, a launch *)
(* that fails, the unique index on facebookId, or the database.  The guard    *)
(* is left before the row is written.                                        *)
LoginThrows(c) ==
    /\ call[c].op = "login"
    /\ \/ call[c].pc \in {"launch", "page", "lost", "saved, lost"} /\ UNCHANGED faults
       \/ call[c].pc = "save" /\ call[c].acct \in taken /\ UNCHANGED faults
       \/ call[c].pc \in {"save", "timeout"} /\ Faulty
    /\ guard' = GuardLeft(call[c].acct)
    /\ call' = To(c, "failed")
    /\ UNCHANGED <<rowVars, reg, watcher, tick, old, browser, cookie, taken, history>>

LoginFailed(c) ==
    LET a == call[c].acct
    IN  /\ call[c].pc = "failed"
        /\ \/ /\ status' = [status EXCEPT ![a] = "error"]
              /\ in' = in \ {a}
              /\ UNCHANGED faults
           \/ /\ Faulty
              /\ UNCHANGED <<status, in>>
        /\ call' = To(c, "timer")
        /\ UNCHANGED <<deleted, guard, reg, watcher, tick, old, browser, cookie, taken, history>>

(* The delayed close, two minutes later, whoever has the browser by then. *)
LoginTimer(c) ==
    LET a == call[c].acct
    IN  /\ call[c].pc = "timer"
        /\ browser' = browser \ {a}
        /\ call' = [WithoutPages(a, call) EXCEPT ![c] = Ended]
        /\ UNCHANGED <<rowVars, guard, reg, watcher, tick, old, cookie, taken, faults, history>>
-----------------------------------------------------------------------------
(* logout, checkLoginStatus, cancelRegistration: two statements each, or one  *)
(* and the browser.                                                          *)

LogoutCloses(c) ==
    LET a == call[c].acct
    IN  /\ call[c].op = "logout" /\ call[c].pc = "find"
        /\ browser' = browser \ {a}
        /\ call' = [WithoutPages(a, call) EXCEPT ![c].pc = "write"]
        /\ UNCHANGED <<rowVars, guard, reg, watcher, tick, old, cookie, taken, faults, history>>

(* A session that was found to have expired is written like a logout. *)
StatusFinds(c) ==
    /\ call[c].op = "status" /\ call[c].pc = "find"
    /\ call' = IF call[c].acct \in in THEN To(c, "write") ELSE [call EXCEPT ![c] = Ended]
    /\ UNCHANGED <<rowVars, guard, reg, watcher, tick, world, history>>

LoggedOut(c) ==
    LET a == call[c].acct
    IN  /\ call[c].op \in {"logout", "status"} /\ call[c].pc = "write"
        /\ status' = [status EXCEPT ![a] = "idle"]
        /\ in' = in \ {a}
        /\ call' = [call EXCEPT ![c] = Ended]
        /\ UNCHANGED <<deleted, guard, reg, watcher, tick, world, history>>

WatcherKept(a) == watcher   \* mutation: not stopped

WatcherStopped(a) == watcher \ {a}

CancelStops(c) ==
    LET a == call[c].acct
    IN  /\ call[c].op = "cancel" /\ call[c].pc = "find"
        /\ IF a \in deleted
           THEN /\ call' = [call EXCEPT ![c] = Ended]
                /\ UNCHANGED <<watcher, browser, early>>
           ELSE /\ watcher' = WatcherStopped(a)
                /\ browser' = browser \ {a}
                /\ call' = [WithoutPages(a, call) EXCEPT ![c].pc = "delete"]
                /\ early' = IF reg[a] # "none" THEN early \cup {a} ELSE early
        /\ UNCHANGED <<rowVars, guard, reg, tick, old, cookie, taken, faults,
                       doubled, leaked, raced, stuck>>

CancelDeletes(c) ==
    /\ call[c].op = "cancel" /\ call[c].pc = "delete"
    /\ deleted' = deleted \cup {call[c].acct}
    /\ call' = [call EXCEPT ![c] = Ended]
    /\ UNCHANGED <<status, in, guard, reg, watcher, tick, world, history>>
(* The second statement is rejected: the first part is not undone. *)
CallRejected(c) ==
    /\ call[c].pc \in {"write", "delete"} /\ Faulty
    /\ stuck' = IF call[c].pc = "delete" THEN stuck \cup {call[c].acct} ELSE stuck
    /\ call' = [call EXCEPT ![c] = Ended]
    /\ UNCHANGED <<rowVars, guard, reg, watcher, tick, old, browser, cookie, taken,
                   doubled, leaked, raced, early>>
-----------------------------------------------------------------------------
(* Registrations *)

(* startRegistration: the row is created with status idle (see Accounts). *)
RegistrationCreates(a) ==
    /\ status[a] = "unborn"
    /\ status' = [status EXCEPT ![a] = "idle"]
    /\ reg' = [reg EXCEPT ![a] = "mark"]
    /\ UNCHANGED <<in, deleted, guard, call, watcher, tick, world, history>>

RegistrationMarks(a) ==
    /\ reg[a] = "mark"
    /\ status' = [status EXCEPT ![a] = "registering"]
    /\ reg' = [reg EXCEPT ![a] = "launch"]
    /\ UNCHANGED <<in, deleted, guard, call, watcher, tick, world, history>>

(* launchBrowserAndStartWatcher, after the answer to the request *)
RegistrationLaunches(a) ==
    /\ reg[a] = "launch"
    /\ reg' = [reg EXCEPT ![a] = "open"]
    /\ browser' = browser \cup {a}
    /\ UNCHANGED <<rowVars, guard, call, watcher, tick, old, cookie, taken, faults, history>>

(* The page for signing up has loaded.                                       *)
RegistrationOpens(a) ==
    /\ reg[a] = "open"
    /\ reg' = [reg EXCEPT ![a] = "prefill"]
    /\ UNCHANGED <<rowVars, guard, call, watcher, tick, world, history>>

(* prefillRegistrationForm types into the fields it finds, and never throws:  *)
(* a browser that was closed meanwhile, by a cancellation too, only leaves    *)
(* them empty.                                                               *)
RegistrationPrefills(a) ==
    /\ reg[a] = "prefill"
    /\ reg' = [reg EXCEPT ![a] = "watch"]
    /\ UNCHANGED <<rowVars, guard, call, watcher, tick, world, history>>

RegistrationWatches(a) ==
    /\ reg[a] = "watch"
    /\ reg' = [reg EXCEPT ![a] = "none"]
    /\ watcher' = watcher \cup {a}
    /\ UNCHANGED <<rowVars, guard, call, tick, world, history>>

RegistrationThrows(a) ==
    /\ reg[a] \in {"launch", "open"}
    /\ reg' = [reg EXCEPT ![a] = "failed"]
    /\ UNCHANGED <<rowVars, guard, call, watcher, tick, world, history>>

RegistrationFailed(a) ==
    /\ reg[a] = "failed"
    /\ \/ status' = [status EXCEPT ![a] = "registration_failed"] /\ UNCHANGED <<faults, stuck>>
       \/ Faulty /\ stuck' = stuck \cup {a} /\ UNCHANGED status
    /\ reg' = [reg EXCEPT ![a] = "none"]
    /\ UNCHANGED <<in, deleted, guard, call, watcher, tick, old, browser, cookie, taken,
                   doubled, leaked, raced, early>>

(* The request fails at its second statement: the account stays idle. *)
RegistrationRejected(a) ==
    /\ reg[a] = "mark" /\ Faulty
    /\ reg' = [reg EXCEPT ![a] = "none"]
    /\ UNCHANGED <<rowVars, guard, call, watcher, tick, old, browser, cookie, taken, history>>
-----------------------------------------------------------------------------
(* A tick of the cookie watcher, every three seconds whether or not the one   *)
(* before has ended.                                                         *)

TickTo(a, k, pc) == tick' = [tick EXCEPT ![a][k] = pc]

NoTimeout(a) == FALSE   \* mutation: the 30 minutes are not looked at

OutOfTime(a) == a \in old

(* It looks whether there is a browser, and then at the cookies of its pages, *)
(* which is where it fails with a warning if the browser goes meanwhile.     *)
TickLooks(a, k) ==
    /\ a \in watcher /\ tick[a][k] = "none" /\ \A j \in 1..(k - 1) : tick[a][j] # "none"
    /\ TickTo(a, k, CASE a \notin browser -> "closed"
                      [] a \in browser \cap cookie -> "save"
                      [] a \in browser \ cookie -> IF OutOfTime(a) THEN "fail" ELSE "none")
    /\ UNCHANGED <<rowVars, guard, call, reg, watcher, world, history>>

AnyStatus(a) == TRUE   \* mutation: marked failed whatever the row says

StillRegistering(a) == status[a] = "registering"

(* handleBrowserClosedBeforeSuccess *)
TickFindsClosed(a, k) ==
    /\ tick[a][k] = "closed"
    /\ TickTo(a, k, IF StillRegistering(a) THEN "fail" ELSE "stop")
    /\ UNCHANGED <<rowVars, guard, call, reg, watcher, world, history>>

(* saveRegistrationSuccess *)
TickSaves(a, k) ==
    /\ tick[a][k] = "save" /\ a \notin taken
    /\ status' = [status EXCEPT ![a] = "idle"]
    /\ in' = in \cup {a}
    /\ raced' = IF FailurePending(a) THEN raced \cup {a} ELSE raced
    /\ TickTo(a, k, "stop")
    /\ UNCHANGED <<deleted, guard, call, reg, watcher, world, doubled, leaked, early, stuck>>

(* markFailed *)
TickMarksFailed(a, k) ==
    /\ tick[a][k] = "fail"
    /\ status' = [status EXCEPT ![a] = "registration_failed"]
    /\ TickTo(a, k, "stop")
    /\ UNCHANGED <<in, deleted, guard, call, reg, watcher, world, history>>

TickStops(a, k) ==
    /\ tick[a][k] = "stop"
    /\ watcher' = WatcherStopped(a)
    /\ TickTo(a, k, "none")
    /\ UNCHANGED <<rowVars, guard, call, reg, world, history>>

(* A rejected statement is logged, and the interval goes on. *)
TickRejected(a, k) ==
    /\ \/ tick[a][k] = "save" /\ a \in taken /\ UNCHANGED faults
       \/ tick[a][k] \in {"save", "fail", "closed"} /\ Faulty
    /\ TickTo(a, k, "none")
    /\ UNCHANGED <<rowVars, guard, call, reg, watcher, old, browser, cookie, taken, history>>
-----------------------------------------------------------------------------
(* The user, time and crashes *)

GetsThrough(a) ==
    /\ a \in browser \ cookie
    /\ cookie' = cookie \cup {a}
    /\ UNCHANGED <<rowVars, memory, old, browser, taken, faults, history>>

BrowserExits(a) ==
    /\ a \in browser
    /\ browser' = browser \ {a}
    /\ call' = WithoutPages(a, call)
    /\ UNCHANGED <<rowVars, guard, reg, watcher, tick, old, cookie, taken, faults, history>>

ThirtyMinutes(a) ==
    /\ a \in watcher \ old
    /\ old' = old \cup {a}
    /\ UNCHANGED <<rowVars, memory, browser, cookie, taken, faults, history>>

(* Nothing at startup looks for registrations that were under way. *)
Crash ==
    /\ Faulty
    /\ guard' = {} /\ watcher' = {} /\ browser' = {}
    /\ call' = [c \in Call |-> IF call[c] = NoCall THEN NoCall ELSE Ended]
    /\ stuck' = stuck \cup {a \in Account : reg[a] # "none" \/ status[a] = "registering"}
    /\ reg' = [a \in Account |-> "none"]
    /\ tick' = [a \in Account |-> [k \in Tick |-> "none"]]
    /\ UNCHANGED <<rowVars, old, cookie, taken, doubled, leaked, raced, early>>
-----------------------------------------------------------------------------
LoginStep(c) ==
    \/ LoginFinds(c) \/ LoginMarks(c) \/ LoginLaunches(c) \/ LoginWaits(c)
    \/ LoginSaves(c) \/ LoginEnds(c) \/ LoginTimesOut(c) \/ LoginThrows(c) \/ LoginFailed(c)
    \/ LoginTimer(c)

CallStep(c) ==
    \/ LogoutCloses(c) \/ StatusFinds(c) \/ LoggedOut(c) \/ CancelStops(c) \/ CancelDeletes(c)

RegistrationStep(a) ==
    \/ RegistrationMarks(a) \/ RegistrationLaunches(a)
    \/ RegistrationOpens(a) \/ RegistrationPrefills(a) \/ RegistrationWatches(a)
    \/ RegistrationThrows(a) \/ RegistrationFailed(a)

TickStep(a, k) ==
    \/ TickLooks(a, k) \/ TickFindsClosed(a, k) \/ TickSaves(a, k)
    \/ TickMarksFailed(a, k) \/ TickStops(a, k) \/ TickRejected(a, k)

Next ==
    \/ \E c \in Call, op \in {"login", "logout", "status", "cancel"}, a \in Account : Asks(c, op, a)
    \/ \E c \in Call : LoginStep(c) \/ CallStep(c) \/ CallRejected(c)
    \/ \E a \in Account :
        \/ RegistrationCreates(a) \/ RegistrationStep(a) \/ RegistrationRejected(a)
        \/ \E k \in Tick : TickStep(a, k)
        \/ GetsThrough(a) \/ BrowserExits(a) \/ ThirtyMinutes(a)
    \/ Crash

Spec == Init /\ [][Next]_vars

(* Statements settle, the interval fires again, and time passes.  Nothing is  *)
(* assumed of users and browsers.                                            *)
FairSpec ==
    /\ Spec
    /\ \A c \in Call : WF_vars(CallStep(c))
    /\ \A a \in Account :
        /\ WF_vars(RegistrationStep(a))
        /\ WF_vars(ThirtyMinutes(a))
        /\ \A k \in Tick : WF_vars(TickStep(a, k))
-----------------------------------------------------------------------------
(* Properties *)

InProgress(c) == call[c].op = "login" /\ call[c].pc \notin {"find", "failed", "timer"}

(* "Prevents concurrent logins of one account" (lines 16, 29): as long as no *)
(* two logins have passed the check before either was in the set, the set    *)
(* holds an account exactly while one login works on it, so none runs beside *)
(* another and none is locked out; a statement rejected at line 75 excepted. *)
GuardExact ==
    \A a \in Account \ (doubled \cup leaked) :
        /\ a \in guard <=> \E c \in Call : InProgress(c) /\ call[c].acct = a
        /\ \A c, d \in Call :
            InProgress(c) /\ InProgress(d) /\ call[c].acct = a /\ call[d].acct = a => c = d

(* The check at line 349 of the registration: a failure is not written over  *)
(* a success, unless it was on its way when the success was written.         *)
SuccessKept ==
    \A a \in in \ raced : status[a] # "registration_failed"

(* Lines 180-186: once a registration has been cancelled nobody watches it,  *)
(* unless it was cancelled before its watcher had started.                   *)
CancelledIsQuiet ==
    \A a \in deleted : a \in watcher => a \in early

(* The header of the registration service: a registration comes to its end,  *)
(* by success, the user's browser, 30 minutes or a cancel; a crash, a        *)
(* database that rejects the failure or the cancel, and a Facebook ID that   *)
(* another row has (every tick is rejected while the browser stays open)     *)
(* excepted.                                                                 *)
RegistrationSettles ==
    \A a \in Account :
        status[a] = "registering" ~> status[a] # "registering" \/ a \in deleted \cup stuck \cup taken
=============================================================================
