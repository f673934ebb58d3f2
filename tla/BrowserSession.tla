--------------------------- MODULE BrowserSession ---------------------------
(***************************************************************************)
(* The pool of Chrome processes, one per Facebook account                  *)
(* (src/backend/src/modules/facebook-accounts/browser-session.service.ts), *)
(* and the callers that share it: tasks get a session, open a page on it   *)
(* and release it in a finally block; logins, registrations and the        *)
(* "show browser" window get one and keep it open.                         *)
(*                                                                         *)
(* A step runs from one await to the next.  The cooldown and proxy checks  *)
(* only refuse a call, so they are choices here; no caller passes          *)
(* maxUserSessions, so the per-user limit never applies.                   *)
(***************************************************************************)
EXTENDS Naturals, FiniteSets

CONSTANTS
    Account,     \* facebook_accounts rows, each with its own profile directory
    Call,        \* slots for concurrent callers
    Browser,     \* Chrome processes that may exist at the same time
    NoAccount,
    NoBrowser,
    MaxSessions, \* MAX_SESSIONS_GLOBAL
    Events       \* the environment events of an instance, out of AllEvents

(* "keep": show-browser, login or registration; "dual": a chat of two       *)
(* accounts; "close": logout or cancelled registration; "hang": a browser   *)
(* stops answering without exiting; "exit": a browser exits on its own.     *)
AllEvents == {"keep", "dual", "close", "hang", "exit"}

ASSUME PoolAssumption ==
    /\ NoAccount \notin Account
    /\ NoBrowser \notin Browser
    /\ MaxSessions \in Nat \ {0}
    /\ Events \subseteq AllEvents

VARIABLES
    session,   \* BrowserSessionService.sessions
    launching, \* BrowserSessionService.launching
    timer,     \* BrowserSessionService.idleTimers
    delayed,   \* accounts whose failed login closes the browser in 2 minutes
    closing,   \* closeSession calls that await browser.close()
    alive,     \* the Chrome processes, with the account of their profile
    listening, \* browsers whose 'disconnected' listener is attached
    call,      \* local state of each caller
    kept,      \* history: accounts whose last caller left without a release
    lost,      \* history: live browsers the map forgot
    suspect    \* history: browsers that once did not answer or close, or had company at their launch

vars == <<session, launching, timer, delayed, closing, alive, listening, call, kept, lost, suspect>>

NoSession == [b |-> NoBrowser, status |-> "none"]
NoCall    == [pc |-> "idle", kind |-> "none", acct |-> NoAccount, b |-> NoBrowser]

(* this.sessions.delete(accountId) *)
Deleted(m, a) == [m EXCEPT ![a] = NoSession]

InMap(m) == {a \in Account : m[a] # NoSession}
Live     == {b \in Browser : alive[b] # NoAccount}
BeingClosed(b) == \E a \in Account : <<a, b>> \in closing

CallGoes(c, pc, b) ==
    [call EXCEPT ![c] = [pc |-> pc, kind |-> call[c].kind, acct |-> call[c].acct, b |-> b]]

Init ==
    /\ session = [a \in Account |-> NoSession]
    /\ launching = {}
    /\ timer = {}
    /\ delayed = {}
    /\ closing = {}
    /\ alive = [b \in Browser |-> NoAccount]
    /\ listening = {}
    /\ call = [c \in Call |-> NoCall]
    /\ kept = {}
    /\ lost = {}
    /\ suspect = {}
-----------------------------------------------------------------------------
(* The end of a call *)

TimersNever(a, m) == timer \ {a}   \* mutation: cancel the timer, arm no new one

(* releaseSession: restart the idle timer unless there is nothing to close. *)
TimersAfterRelease(a, m) == IF m[a].status = "ready" THEN timer \cup {a} ELSE timer \ {a}

(* The call on account a returns or throws while the map is m: a task's     *)
(* finally block releases; a failed login closes the browser later; the     *)
(* other callers, and a chat whose finally block has already run, just go.  *)
Leaves(c, m) ==
    LET a == call[c].acct
    IN  /\ call' = [call EXCEPT ![c] = NoCall]
        /\ \/ /\ call[c].kind = "task"
              /\ timer' = TimersAfterRelease(a, m)
              /\ kept' = kept \ {a}
              /\ UNCHANGED delayed
           \/ /\ call[c].kind \in {"keep", "gone"}
              /\ delayed' \in {delayed} \cup (IF call[c].kind = "keep" THEN {delayed \cup {a}} ELSE {})
              /\ kept' = kept \cup {a}
              /\ UNCHANGED timer
-----------------------------------------------------------------------------
(* getOrLaunchSession, from await to await *)

Request(c, a, kind) ==
    /\ call[c] = NoCall
    /\ kind = "keep" => "keep" \in Events
    /\ timer' = timer \ {a}
    /\ call' = [call EXCEPT ![c] = [pc |-> "gate", kind |-> kind, acct |-> a, b |-> NoBrowser]]
    /\ UNCHANGED <<session, launching, delayed, closing, alive, listening, kept, lost, suspect>>

LaunchesBlindly(a) == FALSE   \* mutation: no look at the launches in flight

OthersLaunch(a) == a \in launching

(* What follows the look at the existing session: wait for a launch in      *)
(* flight, give up when the map is full, or launch.                         *)
Continue(c, m) ==
    LET a == call[c].acct
    IN  /\ session' = m
        /\ \/ /\ OthersLaunch(a)
              /\ call' = CallGoes(c, "wait", NoBrowser)
              /\ UNCHANGED <<launching, timer, delayed, kept>>
           \/ /\ ~OthersLaunch(a)
              /\ Cardinality(InMap(m)) >= MaxSessions
              /\ Leaves(c, m)
              /\ UNCHANGED launching
           \/ /\ ~OthersLaunch(a)
              /\ Cardinality(InMap(m)) < MaxSessions
              /\ launching' = launching \cup {a}
              /\ call' = CallGoes(c, "launch", NoBrowser)
              /\ UNCHANGED <<timer, delayed, kept>>

(* The account is cooling down or banned. *)
GateRefuses(c) ==
    /\ call[c].pc = "gate"
    /\ Leaves(c, session)
    /\ UNCHANGED <<session, launching, closing, alive, listening, lost, suspect>>

GatePasses(c) ==
    LET s == session[call[c].acct]
    IN  /\ call[c].pc = "gate"
        /\ IF s.status = "ready"
           THEN /\ call' = CallGoes(c, "probe", s.b)
                /\ UNCHANGED <<session, launching, timer, delayed, kept>>
           ELSE Continue(c, session)
        /\ UNCHANGED <<closing, alive, listening, lost, suspect>>

(* await existing.browser.pages() *)
ProbeAnswers(c) ==
    /\ call[c].pc = "probe"
    /\ call[c].b \in Live
    /\ call' = CallGoes(c, "page", NoBrowser)
    /\ UNCHANGED <<session, launching, timer, delayed, closing, alive, listening, kept, lost, suspect>>

(* It throws: the map forgets whatever session the account has by now.      *)
ProbeThrows(c) ==
    LET a == call[c].acct
        b == session[a].b
    IN  /\ call[c].pc = "probe"
        /\ call[c].b \notin Live \/ BeingClosed(call[c].b) \/ "hang" \in Events
        /\ Continue(c, Deleted(session, a))
        /\ lost' = IF b \in Live /\ ~BeingClosed(b) THEN lost \cup {b} ELSE lost
        /\ suspect' = suspect \cup ({call[c].b} \cap Live)
        /\ UNCHANGED <<closing, alive, listening>>

(* A waiter polls the map every 500 ms, for a minute. *)
WaitReturns(c) ==
    /\ call[c].pc = "wait"
    /\ session[call[c].acct].status = "ready"
    /\ call' = CallGoes(c, "page", NoBrowser)
    /\ UNCHANGED <<session, launching, timer, delayed, closing, alive, listening, kept, lost, suspect>>

WaitTimesOut(c) ==
    /\ call[c].pc = "wait"
    /\ Leaves(c, session)
    /\ UNCHANGED <<session, launching, closing, alive, listening, lost, suspect>>

(* A name for the new process that nothing refers to any more. *)
Fresh(b) ==
    /\ b \notin Live
    /\ ~BeingClosed(b)
    /\ \A a \in Account : session[a].b # b
    /\ \A c \in Call : call[c].b # b

(* Another process of the profile is alive, or a call still closes one or    *)
(* waits for its answer, and will delete the map's entry when it is done.    *)
HasCompany(a) ==
    \/ \E b \in Browser : alive[b] = a \/ <<a, b>> \in closing
    \/ \E c \in Call : call[c].pc = "probe" /\ call[c].acct = a

LaunchReturns(c, b) ==
    LET a == call[c].acct
    IN  /\ call[c].pc = "launch"
        /\ Fresh(b)
        /\ alive' = [alive EXCEPT ![b] = a]
        /\ listening' = listening \cup {b}
        /\ session' = [session EXCEPT ![a] = [b |-> b, status |-> "ready"]]
        /\ launching' = launching \ {a}
        /\ call' = CallGoes(c, "page", NoBrowser)
        /\ suspect' = IF HasCompany(a) THEN suspect \cup {b} ELSE suspect \ {b}
        /\ UNCHANGED <<timer, delayed, closing, kept, lost>>

GuardKept(a) == launching   \* mutation: a failed launch leaves its guard behind

GuardCleared(a) == launching \ {a}

(* Unreachable proxy, launch timeout, missing executable. *)
LaunchFails(c) ==
    /\ call[c].pc = "launch"
    /\ launching' = GuardCleared(call[c].acct)
    /\ Leaves(c, session)
    /\ UNCHANGED <<session, closing, alive, listening, lost, suspect>>

(* newPage looks the session up again. *)
OpenPage(c) ==
    LET s == session[call[c].acct]
    IN  /\ call[c].pc = "page"
        /\ IF s.status = "ready" /\ s.b \in Live
           THEN call' = CallGoes(c, "use", s.b) /\ UNCHANGED <<timer, delayed, kept>>
           ELSE Leaves(c, session)
        /\ UNCHANGED <<session, launching, closing, alive, listening, lost, suspect>>

UseEnds(c) ==
    /\ call[c].pc = "use"
    /\ Leaves(c, session)
    /\ UNCHANGED <<session, launching, closing, alive, listening, lost, suspect>>

(* A chat launches the browsers of its two accounts with Promise.all: when  *)
(* the other launch fails, the finally block releases this one as well,     *)
(* while its getOrLaunchSession goes on with nobody waiting for it.         *)
Abandoned(c) ==
    LET a == call[c].acct
    IN  /\ "dual" \in Events
        /\ call[c].kind = "task"
        /\ call[c].pc \in {"gate", "probe", "wait", "launch"}
        /\ call' = [call EXCEPT ![c] = [pc   |-> call[c].pc,
                                        kind |-> "gone",
                                        acct |-> a,
                                        b    |-> call[c].b]]
        /\ timer' = TimersAfterRelease(a, session)
        /\ UNCHANGED <<session, launching, delayed, closing, alive, listening, kept, lost, suspect>>

(* It returns to nobody: no page is opened, nothing is released. *)
GoneReturns(c) ==
    /\ call[c].pc = "page"
    /\ call[c].kind = "gone"
    /\ Leaves(c, session)
    /\ UNCHANGED <<session, launching, closing, alive, listening, lost, suspect>>
-----------------------------------------------------------------------------
(* closeSession *)

CloseStart(a) ==
    /\ timer' = timer \ {a}
    /\ IF session[a] = NoSession
       THEN UNCHANGED <<closing, listening>>
       ELSE /\ closing' = closing \cup {<<a, session[a].b>>}
            /\ listening' = listening \ {session[a].b}
    /\ UNCHANGED <<session, launching, alive, call, kept, lost, suspect>>

IdleTimerFires(a) ==
    /\ a \in timer
    /\ CloseStart(a)
    /\ UNCHANGED delayed

LoginTimerFires(a) ==
    /\ a \in delayed
    /\ delayed' = delayed \ {a}
    /\ CloseStart(a)

Logout(a) ==
    /\ "close" \in Events
    /\ session[a] # NoSession
    /\ CloseStart(a)
    /\ UNCHANGED delayed

(* The entry that goes is the one the map has now.  browser.close() may     *)
(* fail, which is ignored.                                                  *)
CloseEnds(a, b) ==
    LET now == session[a].b
    IN  /\ <<a, b>> \in closing
        /\ closing' = closing \ {<<a, b>>}
        /\ session' = Deleted(session, a)
        /\ kept' = kept \ {a}
        /\ \/ /\ alive' = [alive EXCEPT ![b] = NoAccount]
              /\ lost' = (lost \ {b}) \cup (IF now # b /\ now \in Live THEN {now} ELSE {})
              /\ UNCHANGED suspect
           \/ /\ "hang" \in Events
              /\ lost' = lost \cup ({b, now} \cap Live)
              /\ suspect' = suspect \cup {b}
              /\ UNCHANGED alive
        /\ UNCHANGED <<launching, timer, delayed, listening, call>>

(* Chrome crashes or the user closes its window.  The listener marks        *)
(* whatever session the account has by then.                                *)
Exits(b) ==
    LET a   == alive[b]
        now == session[a].b
    IN  /\ "exit" \in Events
        /\ b \in Live
        /\ alive' = [alive EXCEPT ![b] = NoAccount]
        /\ listening' = listening \ {b}
        /\ IF b \in listening /\ session[a] # NoSession
           THEN /\ session' = [session EXCEPT ![a] = [b |-> now, status |-> "closed"]]
                /\ lost' = (lost \ {b}) \cup (IF now # b /\ now \in Live THEN {now} ELSE {})
           ELSE /\ lost' = lost \ {b}
                /\ UNCHANGED session
        /\ UNCHANGED <<launching, timer, delayed, closing, call, kept, suspect>>
-----------------------------------------------------------------------------
CallStep(c) ==
    \/ \E a \in Account, kind \in {"task", "keep"} : Request(c, a, kind)
    \/ GateRefuses(c) \/ GatePasses(c)
    \/ ProbeAnswers(c) \/ ProbeThrows(c)
    \/ WaitReturns(c) \/ WaitTimesOut(c)
    \/ \E b \in Browser : LaunchReturns(c, b)
    \/ LaunchFails(c)
    \/ (call[c].kind # "gone" /\ OpenPage(c)) \/ GoneReturns(c)
    \/ UseEnds(c)
    \/ Abandoned(c)

PoolStep(a) ==
    \/ IdleTimerFires(a) \/ LoginTimerFires(a) \/ Logout(a)
    \/ \E b \in Browser : CloseEnds(a, b)

Next ==
    \/ \E c \in Call : CallStep(c)
    \/ \E a \in Account : PoolStep(a)
    \/ \E b \in Browser : Exits(b)

Spec == Init /\ [][Next]_vars
-----------------------------------------------------------------------------
(* Properties *)

SessionState == [b: Browser \cup {NoBrowser}, status: {"none", "ready", "closed"}]
CallState    == [pc: {"idle", "gate", "probe", "wait", "launch", "page", "use"},
                 kind: {"none", "task", "keep", "gone"},
                 acct: Account \cup {NoAccount}, b: Browser \cup {NoBrowser}]

(* A map entry has a browser. *)
SessionsOK ==
    /\ session \in [Account -> SessionState]
    /\ \A a \in Account : session[a].status = "none" <=> session[a].b = NoBrowser

(* A caller works for an account until it leaves. *)
CallsOK ==
    /\ call \in [Call -> CallState]
    /\ \A c \in Call : call[c].pc # "idle" <=> call[c].acct \in Account

SetsOK ==
    /\ launching \subseteq Account
    /\ timer \subseteq Account
    /\ delayed \subseteq Account
    /\ closing \subseteq Account \X Browser
    /\ alive \in [Browser -> Account \cup {NoAccount}]
    /\ listening \subseteq Browser
    /\ kept \subseteq Account
    /\ lost \subseteq Browser
    /\ suspect \subseteq Browser

(* Every variable has its type; a map entry has a browser, a caller an       *)
(* account.                                                                  *)
TypeOK == SessionsOK /\ CallsOK /\ SetsOK

Launches(c, a) == call[c].pc = "launch" /\ call[c].acct = a

(* "Guard concurrent launches" (line 180): an account is marked as launching *)
(* exactly while one call launches its browser; a failed launch cannot leave *)
(* the mark behind and lock the account out.                                 *)
LaunchGuard ==
    \A a \in Account :
        /\ a \in launching <=> \E c \in Call : Launches(c, a)
        /\ \A c, d \in Call : Launches(c, a) /\ Launches(d, a) => c = d

(* One profile directory, one Chrome: two live processes share a profile     *)
(* only when one of them is being closed, or is one the map forgot (a        *)
(* browser that hangs, or a session replaced while the old one closes).      *)
OneBrowserPerProfile ==
    \A b, d \in Live \ lost :
        alive[b] = alive[d] /\ ~BeingClosed(b) /\ ~BeingClosed(d) => b = d

(* The comment at lines 365-369: once its callers are gone, a browser that   *)
(* was left to the tasks is closed by the idle timer: by failed launches,    *)
(* waiters that give up, refusals or overlapping callers, none is left open  *)
(* that nothing will close.  Two things are excepted.  The last to leave     *)
(* was a login, a registration, a shown window or an abandoned chat; or the  *)
(* browser once did not answer, did not close, or was launched while a call  *)
(* was still closing or asking an older one of the account, as lines 172 and *)
(* 428 then drop it from the map and it stays open.                          *)
NoForgottenBrowser ==
    \A b \in Live \ suspect :
        alive[b] \notin kept /\ (\A c \in Call : call[c].acct # alive[b]) =>
            \/ BeingClosed(b)
            \/ session[alive[b]] = [b |-> b, status |-> "ready"] /\ alive[b] \in timer
=============================================================================
