------------------------ MODULE BrowserSessionProofs ------------------------
(***************************************************************************)
(* Proofs about BrowserSession, for every set of accounts, callers and     *)
(* browsers, every limit and every choice of environment events; and, at    *)
(* the end, about the gate that keeps an account out of the pool after a     *)
(* checkpoint, for every finite set of callers and number of faults.        *)
(***************************************************************************)
EXTENDS MCBrowserSession, FiniteSetTheorems, TLAPS

(* The inductive strengthening of OneBrowserPerProfile: a live browser that  *)
(* nothing closes and nothing forgot is the one that the map has for its     *)
(* profile, and an account that is being launched has no usable session.     *)
MapKnowsBrowsers ==
    /\ \A b \in Live \ lost :
          ~BeingClosed(b) => session[alive[b]] = [b |-> b, status |-> "ready"]
    /\ \A a \in launching : session[a].status # "ready"

PoolInv == TypeOK /\ LaunchGuard /\ MapKnowsBrowsers

(* A map entry that is deleted is gone, and the others stay. *)
LEMMA DeletedType ==
    ASSUME SessionsOK, NEW a \in Account
    PROVE  /\ Deleted(session, a) \in [Account -> SessionState]
           /\ Deleted(session, a)[a] = NoSession
           /\ \A x \in Account \ {a} : Deleted(session, a)[x] = session[x]
           /\ \A x \in Account : Deleted(session, a)[x].status = "none"
                                    <=> Deleted(session, a)[x].b = NoBrowser
<1>1. NoSession \in SessionState /\ NoSession.status = "none" /\ NoSession.b = NoBrowser
    BY DEF NoSession, SessionState
<1> QED BY <1>1 DEF Deleted, SessionsOK

(* A caller moves to its next await. *)
LEMMA CallMoves ==
    ASSUME CallsOK, NEW c \in Call, NEW C \in CallState, C.pc # "idle", C.acct \in Account,
           call' = [call EXCEPT ![c] = C]
    PROVE  CallsOK' /\ call'[c] = C /\ \A d \in Call \ {c} : call'[d] = call[d]
BY DEF CallsOK

(* CallGoes keeps the account and the kind of the caller. *)
LEMMA CallGoesType ==
    ASSUME CallsOK, NEW c \in Call, call[c].pc # "idle",
           NEW pc \in {"probe", "wait", "launch", "page", "use"},
           NEW b \in Browser \cup {NoBrowser},
           call' = CallGoes(c, pc, b)
    PROVE  /\ CallsOK'
           /\ call'[c].pc = pc /\ call'[c].acct = call[c].acct
           /\ \A d \in Call \ {c} : call'[d] = call[d]
<1> DEFINE C == [pc |-> pc, kind |-> call[c].kind, acct |-> call[c].acct, b |-> b]
<1>1. /\ C \in CallState /\ C.pc # "idle" /\ C.acct \in Account
      /\ C.pc = pc /\ C.acct = call[c].acct
    BY DEF CallsOK, CallState
<1>2. call' = [call EXCEPT ![c] = C]
    BY DEF CallGoes
<1> HIDE DEF C
<1> QED BY <1>1, <1>2, CallMoves

(* The account of a caller that is not idle. *)
LEMMA BusyAccount ==
    ASSUME CallsOK, NEW c \in Call, call[c].pc # "idle"
    PROVE  call[c].acct \in Account
BY DEF CallsOK

(* A caller leaves: the slot is free, and its account has a timer, or        *)
(* nothing to close, or was left on purpose; other accounts see no change.   *)
LEMMA LeavesEffect ==
    ASSUME CallsOK, SetsOK, NEW c \in Call, call[c].pc # "idle", NEW m, Leaves(c, m)
    PROVE  /\ CallsOK'
           /\ call'[c].pc = "idle"
           /\ \A d \in Call \ {c} : call'[d] = call[d]
           /\ timer' \subseteq Account /\ delayed' \subseteq Account /\ kept' \subseteq Account
           /\ \A x \in Account \ {call[c].acct} :
                 (x \in timer' <=> x \in timer) /\ (x \in kept' <=> x \in kept)
           /\ \/ call[c].acct \in kept'
              \/ m[call[c].acct].status = "ready" => call[c].acct \in timer'
<1>1. call[c].acct \in Account
    BY BusyAccount
<1>2. NoCall \in CallState /\ NoCall.pc = "idle" /\ NoCall.acct \notin Account
    BY PoolAssumption DEF NoCall, CallState
<1>3. CallsOK' /\ call'[c] = NoCall /\ \A d \in Call \ {c} : call'[d] = call[d]
    BY <1>2 DEF Leaves, CallsOK
<1>4. CASE call[c].kind = "task"
    BY <1>1, <1>2, <1>3, <1>4 DEF Leaves, SetsOK, TimersAfterRelease
<1>5. CASE call[c].kind \in {"keep", "gone"}
    BY <1>1, <1>2, <1>3, <1>5 DEF Leaves, SetsOK
<1> QED BY <1>4, <1>5 DEF Leaves

(* A call looks on after the existing session: it waits, leaves or launches. *)
LEMMA ContinueType ==
    ASSUME TypeOK, NEW c \in Call, call[c].pc # "idle", NEW m \in [Account -> SessionState],
           \A x \in Account : m[x].status = "none" <=> m[x].b = NoBrowser,
           Continue(c, m),
           UNCHANGED <<closing, alive, listening>>,
           lost' \subseteq Browser, suspect' \subseteq Browser
    PROVE  TypeOK'
<1> USE DEF TypeOK
<1>1. SessionsOK'
    BY DEF Continue, SessionsOK
<1>2. call[c].acct \in Account
    BY BusyAccount
<1>3. CallsOK' /\ SetsOK'
  <2>1. CASE call' = CallGoes(c, "wait", NoBrowser) /\ UNCHANGED <<launching, timer, delayed, kept>>
    BY <2>1, CallGoesType DEF SetsOK
  <2>2. CASE Leaves(c, m) /\ UNCHANGED launching
    BY <2>2, LeavesEffect DEF SetsOK
  <2>3. CASE /\ launching' = launching \cup {call[c].acct}
             /\ call' = CallGoes(c, "launch", NoBrowser)
             /\ UNCHANGED <<timer, delayed, kept>>
    BY <1>2, <2>3, CallGoesType DEF SetsOK
  <2> QED BY <2>1, <2>2, <2>3 DEF Continue
<1> QED BY <1>1, <1>3

(* Initially every variable has its type. *)
LEMMA TypeInit == Init => TypeOK
<1> SUFFICES ASSUME Init PROVE TypeOK
    OBVIOUS
<1>1. SessionsOK
    BY DEF Init, SessionsOK, NoSession, SessionState
<1>2. CallsOK
    BY PoolAssumption DEF Init, CallsOK, NoCall, CallState
<1>3. SetsOK
    BY DEF Init, SetsOK
<1> QED BY <1>1, <1>2, <1>3 DEF TypeOK

(* The steps of a caller keep the types. *)
LEMMA TypeCall ==
    ASSUME TypeOK, NEW c \in Call, CallStep(c)
    PROVE  TypeOK'
<1> USE DEF TypeOK
<1>1. ASSUME NEW a \in Account, NEW kind \in {"task", "keep"}, Request(c, a, kind) PROVE TypeOK'
  <2> DEFINE C == [pc |-> "gate", kind |-> kind, acct |-> a, b |-> NoBrowser]
  <2>1. C \in CallState /\ C.pc # "idle" /\ C.acct \in Account
    BY DEF CallState
  <2>2. call' = [call EXCEPT ![c] = C]
    BY <1>1 DEF Request
  <2> HIDE DEF C
  <2>3. CallsOK'
    BY <2>1, <2>2, CallMoves
  <2> QED BY <1>1, <2>3 DEF Request, SessionsOK, SetsOK
<1>2. CASE GateRefuses(c)
  <2> QED BY <1>2, LeavesEffect DEF GateRefuses, SessionsOK, SetsOK
<1>3. CASE GatePasses(c)
  <2> DEFINE s == session[call[c].acct]
  <2>1. call[c].acct \in Account
    BY <1>3, BusyAccount DEF GatePasses
  <2>2. CASE s.status = "ready"
    <3>1. s.b \in Browser \cup {NoBrowser}
      BY <2>1 DEF SessionsOK, SessionState
    <3> QED BY <1>3, <2>2, <3>1, CallGoesType DEF GatePasses, SessionsOK, SetsOK
  <2>3. CASE s.status # "ready"
    BY <1>3, <2>3, ContinueType DEF GatePasses, SessionsOK, SetsOK
  <2> QED BY <2>2, <2>3
<1>4. CASE ProbeAnswers(c)
    BY <1>4, CallGoesType DEF ProbeAnswers, SessionsOK, SetsOK
<1>5. CASE ProbeThrows(c)
  <2>1. call[c].acct \in Account
    BY <1>5, BusyAccount DEF ProbeThrows
  <2>2. lost' \subseteq Browser /\ suspect' \subseteq Browser
    BY <1>5 DEF ProbeThrows, SetsOK, Live
  <2> QED BY <1>5, <2>1, <2>2, DeletedType, ContinueType DEF ProbeThrows
<1>6. CASE WaitReturns(c)
    BY <1>6, CallGoesType DEF WaitReturns, SessionsOK, SetsOK
<1>7. CASE WaitTimesOut(c)
    BY <1>7, LeavesEffect DEF WaitTimesOut, SessionsOK, SetsOK
<1>8. ASSUME NEW b \in Browser, LaunchReturns(c, b) PROVE TypeOK'
  <2>1. call[c].acct \in Account
    BY <1>8, BusyAccount DEF LaunchReturns
  <2>2. CallsOK'
    BY <1>8, CallGoesType DEF LaunchReturns
  <2>3. SessionsOK'
    BY <1>8, <2>1, PoolAssumption DEF LaunchReturns, SessionsOK, SessionState
  <2> QED BY <1>8, <2>1, <2>2, <2>3 DEF LaunchReturns, SetsOK
<1>9. CASE LaunchFails(c)
    BY <1>9, LeavesEffect DEF LaunchFails, GuardCleared, SessionsOK, SetsOK
<1>10. CASE OpenPage(c)
  <2>1. CASE /\ session[call[c].acct].b \in Live
             /\ call' = CallGoes(c, "use", session[call[c].acct].b)
             /\ UNCHANGED <<timer, delayed, kept>>
    BY <1>10, <2>1, CallGoesType DEF OpenPage, SessionsOK, SetsOK, Live
  <2>2. CASE Leaves(c, session)
    BY <1>10, <2>2, LeavesEffect DEF OpenPage, SessionsOK, SetsOK
  <2> QED BY <1>10, <2>1, <2>2 DEF OpenPage
<1>11. CASE GoneReturns(c)
    BY <1>11, LeavesEffect DEF GoneReturns, SessionsOK, SetsOK
<1>12. CASE UseEnds(c)
    BY <1>12, LeavesEffect DEF UseEnds, SessionsOK, SetsOK
<1>13. CASE Abandoned(c)
  <2> DEFINE C == [pc |-> call[c].pc, kind |-> "gone", acct |-> call[c].acct, b |-> call[c].b]
  <2>1. call[c].pc # "idle" /\ call[c].acct \in Account
    BY <1>13, BusyAccount DEF Abandoned
  <2>2. C \in CallState /\ C.pc # "idle" /\ C.acct \in Account
    BY <2>1 DEF CallsOK, CallState
  <2>3. call' = [call EXCEPT ![c] = C]
    BY <1>13 DEF Abandoned
  <2> HIDE DEF C
  <2>4. CallsOK'
    BY <2>2, <2>3, CallMoves
  <2> QED BY <1>13, <2>1, <2>4 DEF Abandoned, TimersAfterRelease, SessionsOK, SetsOK
<1> QED
    BY <1>1, <1>2, <1>3, <1>4, <1>5, <1>6, <1>7, <1>8, <1>9, <1>10, <1>11, <1>12, <1>13
       DEF CallStep

(* closeSession stops the timer and, when the account has a session, takes   *)
(* the browser of that session to close.                                     *)
LEMMA CloseStartEffect ==
    ASSUME TypeOK, NEW a \in Account, CloseStart(a)
    PROVE  /\ timer' = timer \ {a}
           /\ closing \subseteq closing' /\ closing' \subseteq Account \X Browser
           /\ listening' \subseteq Browser
           /\ session[a] # NoSession =>
                 session[a].b \in Browser /\ <<a, session[a].b>> \in closing'
<1>1. session[a] # NoSession => session[a].b \in Browser
    BY DEF TypeOK, SessionsOK, SessionState, NoSession
<1> QED BY <1>1 DEF CloseStart, TypeOK, SetsOK

(* Timers, logouts, closing calls and exiting browsers keep the types. *)
LEMMA TypePool ==
    ASSUME TypeOK,
           (\E a \in Account : PoolStep(a)) \/ (\E b \in Browser : Exits(b))
    PROVE  TypeOK'
<1> USE DEF TypeOK
<1>1. ASSUME NEW a \in Account, IdleTimerFires(a) PROVE TypeOK'
    BY <1>1, CloseStartEffect DEF IdleTimerFires, CloseStart, SessionsOK, CallsOK, SetsOK
<1>2. ASSUME NEW a \in Account, LoginTimerFires(a) PROVE TypeOK'
    BY <1>2, CloseStartEffect DEF LoginTimerFires, CloseStart, SessionsOK, CallsOK, SetsOK
<1>3. ASSUME NEW a \in Account, Logout(a) PROVE TypeOK'
    BY <1>3, CloseStartEffect DEF Logout, CloseStart, SessionsOK, CallsOK, SetsOK
<1>4. ASSUME NEW a \in Account, NEW b \in Browser, CloseEnds(a, b) PROVE TypeOK'
  <2>1. SessionsOK'
    BY <1>4, DeletedType DEF CloseEnds, SessionsOK
  <2>2. CallsOK'
    BY <1>4 DEF CloseEnds, CallsOK
  <2>3. SetsOK'
    BY <1>4 DEF CloseEnds, SetsOK, Live
  <2> QED BY <2>1, <2>2, <2>3
<1>5. ASSUME NEW b \in Browser, Exits(b) PROVE TypeOK'
  <2>1. alive[b] \in Account
    BY <1>5 DEF Exits, Live, SetsOK
  <2>2. SessionsOK'
    <3>1. CASE UNCHANGED session
      BY <3>1 DEF SessionsOK
    <3>2. CASE /\ session[alive[b]] # NoSession
               /\ session' = [session EXCEPT ![alive[b]] =
                                 [b |-> session[alive[b]].b, status |-> "closed"]]
      BY <2>1, <3>2 DEF SessionsOK, SessionState, NoSession
    <3> QED BY <1>5, <3>1, <3>2 DEF Exits
  <2>3. CallsOK'
    BY <1>5 DEF Exits, CallsOK
  <2>4. SetsOK'
    BY <1>5 DEF Exits, SetsOK, Live
  <2> QED BY <2>2, <2>3, <2>4
<1> QED
    BY <1>1, <1>2, <1>3, <1>4, <1>5 DEF PoolStep

(* Every variable always has its type: a map entry has a browser, a caller   *)
(* an account, and what is being closed is a browser.                        *)
THEOREM PoolTypeCorrect == Spec => []TypeOK
<1>1. TypeOK /\ [Next]_vars => TypeOK'
  <2> SUFFICES ASSUME TypeOK, [Next]_vars PROVE TypeOK'
    OBVIOUS
  <2>1. CASE UNCHANGED vars
    BY <2>1 DEF vars, TypeOK, SessionsOK, CallsOK, SetsOK
  <2> QED BY <2>1, TypeCall, TypePool DEF Next
<1> QED BY TypeInit, <1>1, PTL DEF Spec

(* The mark of an account in launching and the call behind it. *)
LEMMA MarkStays ==
    ASSUME LaunchGuard, NEW c \in Call, call[c].pc # "launch", call'[c].pc # "launch",
           \A d \in Call \ {c} : call'[d] = call[d], launching' = launching
    PROVE  LaunchGuard'
BY DEF LaunchGuard, Launches

(* A launch that ends, one way or the other, takes its mark with it. *)
LEMMA MarkGoes ==
    ASSUME LaunchGuard, NEW c \in Call, call[c].pc = "launch", call'[c].pc # "launch",
           \A d \in Call \ {c} : call'[d] = call[d],
           launching' = launching \ {call[c].acct}
    PROVE  LaunchGuard'
BY DEF LaunchGuard, Launches

(* A call launches only an account that nobody launches. *)
LEMMA ContinueGuard ==
    ASSUME TypeOK, LaunchGuard, NEW c \in Call, call[c].pc \notin {"idle", "launch"}, NEW m,
           Continue(c, m)
    PROVE  LaunchGuard'
<1> USE DEF TypeOK
<1>1. CASE call' = CallGoes(c, "wait", NoBrowser) /\ UNCHANGED launching
    BY <1>1, CallGoesType, MarkStays
<1>2. CASE Leaves(c, m) /\ UNCHANGED launching
    BY <1>2, LeavesEffect, MarkStays
<1>3. CASE /\ call[c].acct \notin launching
           /\ launching' = launching \cup {call[c].acct}
           /\ call' = CallGoes(c, "launch", NoBrowser)
  <2>1. /\ call'[c].pc = "launch" /\ call'[c].acct = call[c].acct
        /\ \A d \in Call \ {c} : call'[d] = call[d]
    BY <1>3, CallGoesType
  <2> QED BY <1>3, <2>1 DEF LaunchGuard, Launches
<1> QED BY <1>1, <1>2, <1>3 DEF Continue, OthersLaunch

(* Each step of a caller keeps the marks and the launches together. *)
LEMMA GuardCall ==
    ASSUME TypeOK, LaunchGuard, NEW c \in Call, CallStep(c)
    PROVE  LaunchGuard'
<1> USE DEF TypeOK
<1>1. ASSUME NEW a \in Account, NEW kind \in {"task", "keep"}, Request(c, a, kind)
      PROVE  LaunchGuard'
  <2>1. /\ call[c].pc # "launch" /\ call'[c].pc # "launch"
        /\ \A d \in Call \ {c} : call'[d] = call[d]
    BY <1>1 DEF Request, NoCall, CallsOK
  <2> QED BY <1>1, <2>1, MarkStays DEF Request
<1>2. CASE GateRefuses(c)
    BY <1>2, LeavesEffect, MarkStays DEF GateRefuses
<1>3. CASE GatePasses(c)
  <2>1. CASE Continue(c, session)
    BY <1>3, <2>1, ContinueGuard DEF GatePasses
  <2>2. CASE /\ session[call[c].acct].status = "ready"
             /\ call' = CallGoes(c, "probe", session[call[c].acct].b)
             /\ UNCHANGED launching
    <3>1. session[call[c].acct].b \in Browser \cup {NoBrowser}
      BY <1>3, BusyAccount DEF GatePasses, SessionsOK, SessionState
    <3> QED BY <1>3, <2>2, <3>1, CallGoesType, MarkStays DEF GatePasses
  <2> QED BY <1>3, <2>1, <2>2 DEF GatePasses
<1>4. CASE ProbeAnswers(c)
    BY <1>4, CallGoesType, MarkStays DEF ProbeAnswers
<1>5. CASE ProbeThrows(c)
    BY <1>5, ContinueGuard DEF ProbeThrows
<1>6. CASE WaitReturns(c)
    BY <1>6, CallGoesType, MarkStays DEF WaitReturns
<1>7. CASE WaitTimesOut(c)
    BY <1>7, LeavesEffect, MarkStays DEF WaitTimesOut
<1>8. ASSUME NEW b \in Browser, LaunchReturns(c, b) PROVE LaunchGuard'
    BY <1>8, CallGoesType, MarkGoes DEF LaunchReturns
<1>9. CASE LaunchFails(c)
    BY <1>9, LeavesEffect, MarkGoes DEF LaunchFails, GuardCleared
<1>10. CASE OpenPage(c)
  <2>1. CASE /\ session[call[c].acct].b \in Live
             /\ call' = CallGoes(c, "use", session[call[c].acct].b)
    BY <1>10, <2>1, CallGoesType, MarkStays DEF OpenPage, Live
  <2>2. CASE Leaves(c, session)
    BY <1>10, <2>2, LeavesEffect, MarkStays DEF OpenPage
  <2> QED BY <1>10, <2>1, <2>2 DEF OpenPage
<1>11. CASE GoneReturns(c)
    BY <1>11, LeavesEffect, MarkStays DEF GoneReturns
<1>12. CASE UseEnds(c)
    BY <1>12, LeavesEffect, MarkStays DEF UseEnds
<1>13. CASE Abandoned(c)
  <2>1. \A d \in Call : call'[d].pc = call[d].pc /\ call'[d].acct = call[d].acct
    BY <1>13 DEF Abandoned, CallsOK
  <2> QED BY <1>13, <2>1 DEF Abandoned, LaunchGuard, Launches
<1> QED
    BY <1>1, <1>2, <1>3, <1>4, <1>5, <1>6, <1>7, <1>8, <1>9, <1>10, <1>11, <1>12, <1>13
       DEF CallStep

(* Initially nobody launches; the steps that are no caller's do not touch    *)
(* the launches.                                                             *)
LEMMA GuardInductive ==
    /\ Init => LaunchGuard
    /\ TypeOK /\ LaunchGuard /\ [Next]_vars => LaunchGuard'
<1>1. Init => LaunchGuard
    BY DEF Init, LaunchGuard, Launches, NoCall
<1>2. ASSUME TypeOK, LaunchGuard, [Next]_vars PROVE LaunchGuard'
  <2>1. CASE UNCHANGED <<launching, call>>
    BY <1>2, <2>1 DEF LaunchGuard, Launches
  <2>2. ASSUME NEW a \in Account, PoolStep(a) PROVE UNCHANGED <<launching, call>>
    BY <2>2 DEF PoolStep, IdleTimerFires, LoginTimerFires, Logout, CloseStart, CloseEnds
  <2>3. ASSUME NEW b \in Browser, Exits(b) PROVE UNCHANGED <<launching, call>>
    BY <2>3 DEF Exits
  <2>4. UNCHANGED vars => UNCHANGED <<launching, call>>
    BY DEF vars
  <2> QED BY <1>2, <2>1, <2>2, <2>3, <2>4, GuardCall DEF Next
<1> QED BY <1>1, <1>2

(* "Guard concurrent launches": an account carries the launching mark        *)
(* exactly while one call launches its browser, whatever fails.              *)
THEOREM LaunchesAreGuarded == Spec => []LaunchGuard
<1>1. TypeOK /\ LaunchGuard /\ [Next]_vars => LaunchGuard'
    BY GuardInductive
<1>2. Init => LaunchGuard
    BY GuardInductive
<1> QED BY <1>1, <1>2, PoolTypeCorrect, PTL DEF Spec

(* More calls of closeSession, more forgotten browsers and fewer launches    *)
(* leave what the map knows as it was.                                       *)
LEMMA MapStays ==
    ASSUME MapKnowsBrowsers, UNCHANGED <<session, alive>>,
           launching' \subseteq launching, lost \subseteq lost', closing \subseteq closing'
    PROVE  MapKnowsBrowsers'
BY DEF MapKnowsBrowsers, Live, BeingClosed

(* The map forgets the session of a: the browser of that session, if it      *)
(* lives and nothing closes it, is lost; then a may be launched.             *)
LEMMA MapForgets ==
    ASSUME TypeOK, MapKnowsBrowsers, NEW a \in Account,
           session' = Deleted(session, a), UNCHANGED <<alive, closing>>,
           launching' \subseteq launching \cup {a},
           lost \subseteq lost',
           session[a].b \in Live /\ ~BeingClosed(session[a].b) => session[a].b \in lost'
    PROVE  MapKnowsBrowsers'
<1>1. /\ session'[a].status = "none"
      /\ \A x \in Account \ {a} : session'[x] = session[x]
    BY DeletedType DEF TypeOK, NoSession
<1>2. ASSUME NEW x \in launching' PROVE session'[x].status # "ready"
    BY <1>1, <1>2 DEF MapKnowsBrowsers, TypeOK, SetsOK
<1>3. ASSUME NEW b \in (Live \ lost)', ~BeingClosed(b)'
      PROVE  session'[alive'[b]] = [b |-> b, status |-> "ready"]
  <2>1. b \in Live \ lost /\ ~BeingClosed(b) /\ alive[b] \in Account
    BY <1>3 DEF Live, BeingClosed, TypeOK, SetsOK
  <2>2. session[alive[b]] = [b |-> b, status |-> "ready"]
    BY <2>1 DEF MapKnowsBrowsers
  <2>3. alive[b] # a
    BY <1>3, <2>1, <2>2
  <2> QED BY <1>1, <2>1, <2>2, <2>3
<1> QED BY <1>2, <1>3 DEF MapKnowsBrowsers

(* Each step of a caller keeps the map and the browsers together. *)
LEMMA MapCall ==
    ASSUME TypeOK, LaunchGuard, MapKnowsBrowsers, NEW c \in Call, CallStep(c)
    PROVE  MapKnowsBrowsers'
<1>1. ASSUME NEW a \in Account, NEW kind \in {"task", "keep"}, Request(c, a, kind)
      PROVE  MapKnowsBrowsers'
    BY <1>1, MapStays DEF Request
<1>2. CASE GateRefuses(c)
    BY <1>2, MapStays DEF GateRefuses
<1>3. CASE GatePasses(c)
  <2>1. session' = session /\ UNCHANGED <<alive, closing, lost>>
    BY <1>3 DEF GatePasses, Continue
  <2>2. CASE launching' = launching
    BY <2>1, <2>2, MapStays
  <2>3. CASE /\ launching' = launching \cup {call[c].acct}
             /\ session[call[c].acct].status # "ready"
    BY <2>1, <2>3 DEF MapKnowsBrowsers, Live, BeingClosed
  <2> QED BY <1>3, <2>2, <2>3 DEF GatePasses, Continue
<1>4. CASE ProbeAnswers(c)
    BY <1>4, MapStays DEF ProbeAnswers
<1>5. CASE ProbeThrows(c)
  <2>1. call[c].acct \in Account
    BY <1>5, BusyAccount DEF ProbeThrows, TypeOK
  <2>2. /\ session' = Deleted(session, call[c].acct)
        /\ launching' \subseteq launching \cup {call[c].acct}
    BY <1>5 DEF ProbeThrows, Continue
  <2>3. /\ lost \subseteq lost'
        /\ LET b == session[call[c].acct].b IN b \in Live /\ ~BeingClosed(b) => b \in lost'
    BY <1>5 DEF ProbeThrows
  <2> QED BY <1>5, <2>1, <2>2, <2>3, MapForgets DEF ProbeThrows
<1>6. CASE WaitReturns(c)
    BY <1>6, MapStays DEF WaitReturns
<1>7. CASE WaitTimesOut(c)
    BY <1>7, MapStays DEF WaitTimesOut
<1>8. ASSUME NEW b \in Browser, LaunchReturns(c, b) PROVE MapKnowsBrowsers'
  <2> DEFINE a == call[c].acct
  <2>1. a \in Account /\ a \in launching
    BY <1>8, BusyAccount DEF LaunchReturns, TypeOK, LaunchGuard, Launches
  <2>2. session[a].status # "ready"
    BY <2>1 DEF MapKnowsBrowsers
  <2>3. /\ alive'[b] = a /\ session'[a] = [b |-> b, status |-> "ready"]
        /\ \A x \in Account \ {a} : session'[x] = session[x]
        /\ \A d \in Browser \ {b} : alive'[d] = alive[d]
    BY <1>8, <2>1 DEF LaunchReturns, TypeOK, SessionsOK, SetsOK
  <2>4. ASSUME NEW d \in (Live \ lost)', ~BeingClosed(d)', d # b
        PROVE  session'[alive'[d]] = [b |-> d, status |-> "ready"]
    <3>1. d \in Live \ lost /\ ~BeingClosed(d) /\ alive[d] \in Account /\ alive'[d] = alive[d]
      BY <1>8, <2>3, <2>4 DEF LaunchReturns, Live, BeingClosed, TypeOK, SetsOK
    <3>2. session[alive[d]] = [b |-> d, status |-> "ready"]
      BY <3>1 DEF MapKnowsBrowsers
    <3> QED BY <2>2, <2>3, <3>1, <3>2
  <2>5. ASSUME NEW x \in launching' PROVE session'[x].status # "ready"
    <3>1. x \in launching /\ x # a /\ x \in Account
      BY <1>8, <2>5 DEF LaunchReturns, TypeOK, SetsOK
    <3> QED BY <2>3, <3>1 DEF MapKnowsBrowsers
  <2> QED BY <2>3, <2>4, <2>5 DEF MapKnowsBrowsers
<1>9. CASE LaunchFails(c)
    BY <1>9, MapStays DEF LaunchFails, GuardCleared
<1>10. CASE OpenPage(c)
    BY <1>10, MapStays DEF OpenPage
<1>11. CASE GoneReturns(c)
    BY <1>11, MapStays DEF GoneReturns
<1>12. CASE UseEnds(c)
    BY <1>12, MapStays DEF UseEnds
<1>13. CASE Abandoned(c)
    BY <1>13, MapStays DEF Abandoned
<1> QED
    BY <1>1, <1>2, <1>3, <1>4, <1>5, <1>6, <1>7, <1>8, <1>9, <1>10, <1>11, <1>12, <1>13
       DEF CallStep

(* So does each timer, logout, closing call and exit. *)
LEMMA MapPool ==
    ASSUME TypeOK, MapKnowsBrowsers,
           (\E a \in Account : PoolStep(a)) \/ (\E b \in Browser : Exits(b))
    PROVE  MapKnowsBrowsers'
<1>1. ASSUME NEW a \in Account, CloseStart(a) PROVE MapKnowsBrowsers'
    BY <1>1, CloseStartEffect, MapStays DEF CloseStart
<1>2. ASSUME NEW a \in Account, NEW b \in Browser, CloseEnds(a, b) PROVE MapKnowsBrowsers'
  <2>1. /\ session'[a].status = "none"
        /\ \A x \in Account \ {a} : session'[x] = session[x]
    BY <1>2, DeletedType DEF CloseEnds, TypeOK, NoSession
  <2>2. ASSUME NEW x \in launching' PROVE session'[x].status # "ready"
    BY <1>2, <2>1, <2>2 DEF CloseEnds, MapKnowsBrowsers, TypeOK, SetsOK
  <2>3. ASSUME NEW d \in (Live \ lost)', ~BeingClosed(d)'
        PROVE  session'[alive'[d]] = [b |-> d, status |-> "ready"]
    <3>1. d # b /\ alive'[d] = alive[d] /\ d \in Live \ lost /\ alive[d] \in Account
      BY <1>2, <2>3, PoolAssumption DEF CloseEnds, Live, TypeOK, SetsOK
    <3>2. d # session[a].b
      BY <1>2, <2>3, <3>1 DEF CloseEnds
    <3>3. ~BeingClosed(d)
      BY <1>2, <2>3, <3>1 DEF CloseEnds, BeingClosed
    <3>4. session[alive[d]] = [b |-> d, status |-> "ready"]
      BY <3>1, <3>3 DEF MapKnowsBrowsers
    <3>5. alive[d] # a
      BY <3>2, <3>4
    <3> QED BY <2>1, <3>1, <3>4, <3>5
  <2> QED BY <2>2, <2>3 DEF MapKnowsBrowsers
<1>3. ASSUME NEW b \in Browser, Exits(b) PROVE MapKnowsBrowsers'
  <2> DEFINE a == alive[b]
  <2>1. a \in Account
    BY <1>3 DEF Exits, Live, TypeOK, SetsOK
  <2>2. /\ \A x \in Account \ {a} : session'[x] = session[x]
        /\ session'[a] = session[a] \/ session'[a].status = "closed"
    BY <1>3, <2>1 DEF Exits, TypeOK, SessionsOK
  <2>3. ASSUME NEW x \in launching' PROVE session'[x].status # "ready"
    <3>1. x \in launching /\ x \in Account
      BY <1>3, <2>3 DEF Exits, TypeOK, SetsOK
    <3> QED BY <2>2, <3>1 DEF MapKnowsBrowsers
  <2>4. ASSUME NEW d \in (Live \ lost)', ~BeingClosed(d)'
        PROVE  session'[alive'[d]] = [b |-> d, status |-> "ready"]
    <3>1. d # b /\ alive'[d] = alive[d] /\ d \in Live \ lost /\ alive[d] \in Account
      BY <1>3, <2>4 DEF Exits, Live, TypeOK, SetsOK
    <3>2. session[alive[d]] = [b |-> d, status |-> "ready"]
      BY <1>3, <2>4, <3>1 DEF MapKnowsBrowsers, Exits, BeingClosed
    <3>3. CASE alive[d] # a
      BY <2>2, <3>1, <3>2, <3>3
    <3>4. CASE alive[d] = a
      <4>1. session' = session
        BY <1>3, <2>4, <3>1, <3>2, <3>4 DEF Exits
      <4> QED BY <3>1, <3>2, <4>1
    <3> QED BY <3>3, <3>4
  <2> QED BY <2>3, <2>4 DEF MapKnowsBrowsers
<1> QED
    BY <1>1, <1>2, <1>3 DEF PoolStep, IdleTimerFires, LoginTimerFires, Logout

(* Types, marks and map entries are kept together by every step. *)
LEMMA PoolInductive ==
    /\ Init => PoolInv
    /\ PoolInv /\ [Next]_vars => PoolInv'
<1>1. Init => PoolInv
    BY TypeInit, GuardInductive DEF Init, PoolInv, MapKnowsBrowsers, Live
<1>2. PoolInv /\ [Next]_vars => PoolInv'
  <2> SUFFICES ASSUME PoolInv, [Next]_vars PROVE PoolInv'
    OBVIOUS
  <2>1. TypeOK'
    <3>1. CASE UNCHANGED vars
      BY <3>1 DEF PoolInv, vars, TypeOK, SessionsOK, CallsOK, SetsOK
    <3> QED BY <3>1, TypeCall, TypePool DEF PoolInv, Next
  <2>2. LaunchGuard'
    BY GuardInductive DEF PoolInv
  <2>3. MapKnowsBrowsers'
    <3>1. CASE UNCHANGED vars
      BY <3>1, MapStays DEF PoolInv, vars
    <3> QED BY <3>1, MapCall, MapPool DEF PoolInv, Next
  <2> QED BY <2>1, <2>2, <2>3 DEF PoolInv
<1> QED BY <1>1, <1>2

(* Two live processes share a profile directory only when one of them is     *)
(* being closed or was forgotten by the map: overlapping requests, waiters,  *)
(* failed launches, exits and logouts never start a second Chrome on it.     *)
THEOREM OneBrowser == Spec => []OneBrowserPerProfile
<1>1. Init => PoolInv
    BY PoolInductive
<1>2. PoolInv /\ [Next]_vars => PoolInv'
    BY PoolInductive
<1>3. PoolInv => OneBrowserPerProfile
  <2> SUFFICES ASSUME PoolInv, NEW b \in Live \ lost, NEW d \in Live \ lost,
                      alive[b] = alive[d], ~BeingClosed(b), ~BeingClosed(d)
               PROVE  b = d
    BY DEF OneBrowserPerProfile
  <2>1. /\ session[alive[b]] = [b |-> b, status |-> "ready"]
        /\ session[alive[d]] = [b |-> d, status |-> "ready"]
    BY DEF PoolInv, MapKnowsBrowsers
  <2> QED BY <2>1
<1> QED BY <1>1, <1>2, <1>3, PTL DEF Spec

(* The session of an account without callers has its timer, or a call that   *)
(* closes a browser of the account, unless the last caller keeps it open.    *)
EntryHasCloser ==
    \A a \in Account \ kept :
        session[a].status = "ready" /\ (\A c \in Call : call[c].acct # a) =>
            a \in timer \/ \E b \in Browser : <<a, b>> \in closing

(* A step of a caller that stays: its own account has a caller, and the      *)
(* other accounts keep their session, their timer and their callers.         *)
LEMMA CloserBy ==
    ASSUME EntryHasCloser, NEW c \in Call, call'[c].acct \in Account,
           call[c].pc = "idle" => call[c].acct \notin Account,
           call[c].pc # "idle" => call'[c].acct = call[c].acct,
           \A d \in Call \ {c} : call'[d] = call[d],
           \A x \in Account \ {call'[c].acct} :
              (session'[x] = session[x]) /\ (x \in timer => x \in timer'),
           UNCHANGED <<closing, kept>>
    PROVE  EntryHasCloser'
<1> SUFFICES ASSUME NEW a \in Account \ kept', session'[a].status = "ready",
                    \A d \in Call : call'[d].acct # a
             PROVE  a \in timer' \/ \E b \in Browser : <<a, b>> \in closing'
    BY DEF EntryHasCloser
<1>1. a # call'[c].acct
    OBVIOUS
<1>2. \A d \in Call : call[d].acct # a
    BY <1>1
<1> QED BY <1>1, <1>2 DEF EntryHasCloser

(* A caller that leaves has seen to its account. *)
LEMMA CloserLeaving ==
    ASSUME TypeOK, EntryHasCloser, NEW c \in Call, call[c].pc # "idle",
           NEW m, Leaves(c, m), session' = m,
           \A x \in Account \ {call[c].acct} : m[x] = session[x],
           UNCHANGED closing
    PROVE  EntryHasCloser'
<1> SUFFICES ASSUME NEW a \in Account \ kept', session'[a].status = "ready",
                    \A d \in Call : call'[d].acct # a
             PROVE  a \in timer' \/ \E b \in Browser : <<a, b>> \in closing'
    BY DEF EntryHasCloser
<1>1. /\ \A d \in Call \ {c} : call'[d] = call[d]
      /\ \A x \in Account \ {call[c].acct} :
            (x \in timer' <=> x \in timer) /\ (x \in kept' <=> x \in kept)
      /\ \/ call[c].acct \in kept'
         \/ m[call[c].acct].status = "ready" => call[c].acct \in timer'
    BY LeavesEffect DEF TypeOK
<1>2. CASE a = call[c].acct
    BY <1>1, <1>2
<1>3. CASE a # call[c].acct
  <2>1. \A d \in Call : call[d].acct # a
    BY <1>1, <1>3
  <2> QED BY <1>1, <1>3, <2>1 DEF EntryHasCloser
<1> QED BY <1>2, <1>3

(* A call that goes on after the existing session. *)
LEMMA CloserContinuing ==
    ASSUME TypeOK, EntryHasCloser, NEW c \in Call, call[c].pc # "idle",
           NEW m, Continue(c, m),
           \A x \in Account \ {call[c].acct} : m[x] = session[x],
           UNCHANGED closing
    PROVE  EntryHasCloser'
<1>1. CASE Leaves(c, m)
    BY <1>1, CloserLeaving DEF Continue
<1>2. ASSUME NEW pc \in {"wait", "launch"}, call' = CallGoes(c, pc, NoBrowser),
             UNCHANGED <<timer, kept>>
      PROVE  EntryHasCloser'
  <2>1. call[c].acct \in Account
    BY BusyAccount DEF TypeOK
  <2>2. call'[c].acct = call[c].acct /\ \A d \in Call \ {c} : call'[d] = call[d]
    BY <1>2, CallGoesType DEF TypeOK
  <2> QED BY <1>2, <2>1, <2>2, CloserBy DEF Continue
<1> QED BY <1>1, <1>2 DEF Continue

(* No step of a caller leaves a browser open that nothing will close. *)
LEMMA CloserCall ==
    ASSUME TypeOK, EntryHasCloser, NEW c \in Call, CallStep(c)
    PROVE  EntryHasCloser'
<1>0. /\ call[c].pc # "idle" => call[c].acct \in Account
      /\ call[c].pc = "idle" => call[c].acct \notin Account
    BY DEF TypeOK, CallsOK
<1>1. ASSUME NEW a \in Account, NEW kind \in {"task", "keep"}, Request(c, a, kind)
      PROVE  EntryHasCloser'
  <2>1. /\ call[c].pc = "idle" /\ call'[c].acct = a
        /\ \A d \in Call \ {c} : call'[d] = call[d]
    BY <1>1 DEF Request, NoCall, TypeOK, CallsOK
  <2> QED BY <1>0, <1>1, <2>1, CloserBy DEF Request
<1>2. CASE GateRefuses(c)
    BY <1>2, CloserLeaving DEF GateRefuses
<1>3. CASE GatePasses(c)
  <2>1. CASE Continue(c, session)
    BY <1>3, <2>1, CloserContinuing DEF GatePasses
  <2>2. CASE /\ call' = CallGoes(c, "probe", session[call[c].acct].b)
             /\ UNCHANGED <<session, timer, kept>>
    <3>1. session[call[c].acct].b \in Browser \cup {NoBrowser}
      BY <1>0, <1>3 DEF GatePasses, TypeOK, SessionsOK, SessionState
    <3>2. call'[c].acct = call[c].acct /\ \A d \in Call \ {c} : call'[d] = call[d]
      BY <1>3, <2>2, <3>1, CallGoesType DEF GatePasses, TypeOK
    <3> QED BY <1>0, <1>3, <2>2, <3>2, CloserBy DEF GatePasses
  <2> QED BY <1>3, <2>1, <2>2 DEF GatePasses
<1>4. CASE ProbeAnswers(c)
  <2>1. call'[c].acct = call[c].acct /\ \A d \in Call \ {c} : call'[d] = call[d]
    BY <1>4, CallGoesType DEF ProbeAnswers, TypeOK
  <2> QED BY <1>0, <1>4, <2>1, CloserBy DEF ProbeAnswers
<1>5. CASE ProbeThrows(c)
    BY <1>0, <1>5, DeletedType, CloserContinuing DEF ProbeThrows, TypeOK
<1>6. CASE WaitReturns(c)
  <2>1. call'[c].acct = call[c].acct /\ \A d \in Call \ {c} : call'[d] = call[d]
    BY <1>6, CallGoesType DEF WaitReturns, TypeOK
  <2> QED BY <1>0, <1>6, <2>1, CloserBy DEF WaitReturns
<1>7. CASE WaitTimesOut(c)
    BY <1>7, CloserLeaving DEF WaitTimesOut
<1>8. ASSUME NEW b \in Browser, LaunchReturns(c, b) PROVE EntryHasCloser'
  <2>1. call'[c].acct = call[c].acct /\ \A d \in Call \ {c} : call'[d] = call[d]
    BY <1>8, CallGoesType DEF LaunchReturns, TypeOK
  <2>2. \A x \in Account \ {call[c].acct} : session'[x] = session[x]
    BY <1>8 DEF LaunchReturns, TypeOK, SessionsOK
  <2> QED BY <1>0, <1>8, <2>1, <2>2, CloserBy DEF LaunchReturns
<1>9. CASE LaunchFails(c)
    BY <1>9, CloserLeaving DEF LaunchFails
<1>10. CASE OpenPage(c)
  <2>1. CASE /\ session[call[c].acct].b \in Live
             /\ call' = CallGoes(c, "use", session[call[c].acct].b)
             /\ UNCHANGED <<timer, delayed, kept>>
    <3>1. call'[c].acct = call[c].acct /\ \A d \in Call \ {c} : call'[d] = call[d]
      BY <1>10, <2>1, CallGoesType DEF OpenPage, TypeOK, Live
    <3> QED BY <1>0, <1>10, <2>1, <3>1, CloserBy DEF OpenPage
  <2>2. CASE Leaves(c, session)
    BY <1>10, <2>2, CloserLeaving DEF OpenPage
  <2> QED BY <1>10, <2>1, <2>2 DEF OpenPage
<1>11. CASE GoneReturns(c)
    BY <1>11, CloserLeaving DEF GoneReturns
<1>12. CASE UseEnds(c)
    BY <1>12, CloserLeaving DEF UseEnds
<1>13. CASE Abandoned(c)
  <2>1. call'[c].acct = call[c].acct /\ \A d \in Call \ {c} : call'[d] = call[d]
    BY <1>13 DEF Abandoned, TypeOK, CallsOK
  <2>2. \A x \in Account \ {call[c].acct} : x \in timer => x \in timer'
    BY <1>13 DEF Abandoned, TimersAfterRelease
  <2> QED BY <1>0, <1>13, <2>1, <2>2, CloserBy DEF Abandoned
<1> QED
    BY <1>1, <1>2, <1>3, <1>4, <1>5, <1>6, <1>7, <1>8, <1>9, <1>10, <1>11, <1>12, <1>13
       DEF CallStep

(* A timer that goes off hands its browser to closeSession; an entry that    *)
(* goes, or a browser that exits, leaves nothing to close.                   *)
LEMMA CloserPool ==
    ASSUME TypeOK, EntryHasCloser,
           (\E a \in Account : PoolStep(a)) \/ (\E b \in Browser : Exits(b))
    PROVE  EntryHasCloser'
<1>1. ASSUME NEW a \in Account, CloseStart(a) PROVE EntryHasCloser'
  <2>1. /\ timer' = timer \ {a} /\ closing \subseteq closing'
        /\ session[a] # NoSession =>
              session[a].b \in Browser /\ <<a, session[a].b>> \in closing'
    BY <1>1, CloseStartEffect
  <2>2. UNCHANGED <<session, call, kept>>
    BY <1>1 DEF CloseStart
  <2>3. session[a].status = "ready" => session[a] # NoSession
    BY DEF NoSession
  <2> QED BY <2>1, <2>2, <2>3 DEF EntryHasCloser
<1>2. ASSUME NEW a \in Account, NEW b \in Browser, CloseEnds(a, b) PROVE EntryHasCloser'
  <2>1. /\ session'[a].status = "none"
        /\ \A x \in Account \ {a} : session'[x] = session[x]
    BY <1>2, DeletedType DEF CloseEnds, TypeOK, NoSession
  <2> QED BY <1>2, <2>1 DEF CloseEnds, EntryHasCloser
<1>3. ASSUME NEW b \in Browser, Exits(b) PROVE EntryHasCloser'
  <2>1. \A x \in Account : session'[x] = session[x] \/ session'[x].status = "closed"
    BY <1>3 DEF Exits, TypeOK, SessionsOK
  <2> QED BY <1>3, <2>1 DEF Exits, EntryHasCloser
<1> QED
    BY <1>1, <1>2, <1>3 DEF PoolStep, IdleTimerFires, LoginTimerFires, Logout

(* Who deletes or closes the entry of an account means the browser that the  *)
(* entry has, as long as that browser is above suspicion: a call that closes *)
(* a browser, one that waits for an answer, and a process that may exit.     *)
Alone ==
    /\ \A a \in Account, b \in Browser :
          <<a, b>> \in closing => session[a].b \in {NoBrowser, b} \cup suspect
    /\ \A c \in Call :
          call[c].pc = "probe" => session[call[c].acct].b \in {NoBrowser, call[c].b} \cup suspect
    /\ \A b \in Live : session[alive[b]].b \in {NoBrowser, b} \cup suspect

(* So a browser above suspicion is in the map until something closes it.     *)
MapKeeps ==
    \A b \in Live \ suspect :
        ~BeingClosed(b) => session[alive[b]] = [b |-> b, status |-> "ready"]

(* Without a launch no entry gets another browser, and whoever starts to     *)
(* close or to ask means the browser of the entry.                           *)
LEMMA AloneStays ==
    ASSUME TypeOK, Alone, suspect \subseteq suspect',
           \A a \in Account : session'[a].b \in {NoBrowser, session[a].b},
           \A a \in Account, b \in Browser :
              <<a, b>> \in closing' => <<a, b>> \in closing \/ b = session[a].b,
           \A b \in Browser : alive'[b] \in {alive[b], NoAccount},
           \A c \in Call :
              call'[c].pc = "probe" =>
                 /\ call'[c].acct \in Account
                 /\ \/ call[c].pc = "probe" /\ call[c].acct = call'[c].acct /\ call[c].b = call'[c].b
                    \/ call'[c].b = session[call'[c].acct].b
    PROVE  Alone'
<1>1. ASSUME NEW a \in Account, NEW b \in Browser, <<a, b>> \in closing'
      PROVE  session'[a].b \in {NoBrowser, b} \cup suspect'
    BY <1>1 DEF Alone
<1>2. ASSUME NEW c \in Call, call'[c].pc = "probe"
      PROVE  session'[call'[c].acct].b \in {NoBrowser, call'[c].b} \cup suspect'
    BY <1>2 DEF Alone
<1>3. ASSUME NEW b \in Live' PROVE session'[alive'[b]].b \in {NoBrowser, b} \cup suspect'
  <2>1. b \in Live /\ alive'[b] = alive[b] /\ alive[b] \in Account
    BY <1>3 DEF Live, TypeOK, SetsOK
  <2> QED BY <2>1 DEF Alone
<1> QED BY <1>1, <1>2, <1>3 DEF Alone

(* Neither does anything change for the browsers the map keeps.              *)
LEMMA KeepsStays ==
    ASSUME MapKeeps, UNCHANGED <<session, alive>>, closing \subseteq closing',
           suspect \subseteq suspect'
    PROVE  MapKeeps'
BY DEF MapKeeps, Live, BeingClosed

(* A caller that does not end up waiting for an answer. *)
LEMMA AloneCall ==
    ASSUME TypeOK, Alone, NEW c \in Call, call'[c].pc # "probe",
           \A d \in Call \ {c} : call'[d] = call[d],
           \A a \in Account : session'[a].b \in {NoBrowser, session[a].b},
           UNCHANGED <<alive, closing>>, suspect \subseteq suspect'
    PROVE  Alone'
<1>1. \A d \in Call :
        call'[d].pc = "probe" => call'[d] = call[d] /\ call[d].acct \in Account
    BY DEF TypeOK, CallsOK
<1> QED BY <1>1, AloneStays

(* What a call that goes on after the existing session leaves behind. *)
LEMMA ContinueMoves ==
    ASSUME TypeOK, NEW c \in Call, call[c].pc # "idle", NEW m, Continue(c, m)
    PROVE  call'[c].pc # "probe" /\ \A d \in Call \ {c} : call'[d] = call[d]
<1>1. CASE Leaves(c, m)
    BY <1>1, LeavesEffect DEF TypeOK
<1>2. ASSUME NEW pc \in {"wait", "launch"}, call' = CallGoes(c, pc, NoBrowser)
      PROVE  call'[c].pc # "probe" /\ \A d \in Call \ {c} : call'[d] = call[d]
    BY <1>2, CallGoesType DEF TypeOK
<1> QED BY <1>1, <1>2 DEF Continue

(* The new browser of an account without company is the only one meant;      *)
(* one with company is a suspect from the start.                             *)
LEMMA LaunchKeeps ==
    ASSUME PoolInv, Alone, MapKeeps, NEW c \in Call, NEW b \in Browser, LaunchReturns(c, b)
    PROVE  Alone' /\ MapKeeps'
<1> DEFINE a == call[c].acct
<1> USE DEF PoolInv
<1>1. a \in Account /\ session[a].status # "ready"
  <2>1. a \in Account /\ a \in launching
    BY BusyAccount DEF LaunchReturns, TypeOK, LaunchGuard, Launches
  <2> QED BY <2>1 DEF MapKnowsBrowsers
<1>2. /\ alive'[b] = a /\ session'[a] = [b |-> b, status |-> "ready"]
      /\ \A x \in Account \ {a} : session'[x] = session[x] /\ session[x].b # b
      /\ \A d \in Browser \ {b} : alive'[d] = alive[d]
      /\ UNCHANGED closing
    BY <1>1 DEF LaunchReturns, Fresh, TypeOK, SessionsOK, SetsOK
<1>3. call'[c].pc = "page" /\ \A d \in Call \ {c} : call'[d] = call[d]
    BY CallGoesType DEF LaunchReturns, TypeOK
<1>4. /\ \A d \in Browser \ {b} : d \in suspect => d \in suspect'
      /\ \A d \in Browser \ {b} : d \in suspect' => d \in suspect
      /\ HasCompany(a) => b \in suspect'
    BY DEF LaunchReturns
<1>5. \A d \in Browser : BeingClosed(d)' <=> BeingClosed(d)
    BY <1>2 DEF BeingClosed
<1>6. Alone'
  <2>1. ASSUME NEW x \in Account, NEW d \in Browser, <<x, d>> \in closing'
        PROVE  session'[x].b \in {NoBrowser, d} \cup suspect'
    <3>1. CASE x = a
      BY <1>2, <1>4, <2>1, <3>1 DEF HasCompany
    <3>2. CASE x # a
      <4>1. session[x].b \in {NoBrowser, d} \cup suspect /\ session[x].b \in Browser \cup {NoBrowser}
        BY <1>2, <2>1 DEF Alone, TypeOK, SessionsOK, SessionState
      <4> QED BY <1>2, <1>4, <3>2, <4>1
    <3> QED BY <3>1, <3>2
  <2>2. ASSUME NEW d \in Call, call'[d].pc = "probe"
        PROVE  session'[call'[d].acct].b \in {NoBrowser, call'[d].b} \cup suspect'
    <3>1. d # c /\ call'[d] = call[d] /\ call[d].pc = "probe" /\ call[d].acct \in Account
      BY <1>3, <2>2 DEF TypeOK, CallsOK
    <3>2. CASE call[d].acct = a
      BY <1>2, <1>4, <3>1, <3>2 DEF HasCompany
    <3>3. CASE call[d].acct # a
      <4> DEFINE x == call[d].acct
      <4>1. session[x].b \in {NoBrowser, call[d].b} \cup suspect /\ session[x].b \in Browser \cup {NoBrowser}
        BY <3>1 DEF Alone, TypeOK, SessionsOK, SessionState
      <4> QED BY <1>2, <1>4, <3>1, <3>3, <4>1
    <3> QED BY <3>2, <3>3
  <2>3. ASSUME NEW d \in Live' PROVE session'[alive'[d]].b \in {NoBrowser, d} \cup suspect'
    <3>1. CASE d = b
      BY <1>2, <3>1
    <3>2. CASE d # b
      <4>1. d \in Live /\ alive'[d] = alive[d] /\ alive[d] \in Account
        BY <1>2, <2>3, <3>2 DEF Live, TypeOK, SetsOK
      <4>2. CASE alive[d] = a
        BY <1>2, <1>4, <4>1, <4>2 DEF HasCompany, Live
      <4>3. CASE alive[d] # a
        <5> DEFINE x == alive[d]
        <5>1. session[x].b \in {NoBrowser, d} \cup suspect /\ session[x].b \in Browser \cup {NoBrowser}
          BY <4>1 DEF Alone, TypeOK, SessionsOK, SessionState
        <5> QED BY <1>2, <1>4, <4>1, <4>3, <5>1
      <4> QED BY <4>2, <4>3
    <3> QED BY <3>1, <3>2
  <2> QED BY <2>1, <2>2, <2>3 DEF Alone
<1>7. ASSUME NEW d \in (Live \ suspect)', ~BeingClosed(d)'
      PROVE  session'[alive'[d]] = [b |-> d, status |-> "ready"]
  <2>1. CASE d = b
    BY <1>2, <2>1
  <2>2. CASE d # b
    <3>1. /\ d \in Live \ suspect /\ ~BeingClosed(d)
          /\ alive'[d] = alive[d] /\ alive[d] \in Account
      BY <1>2, <1>4, <1>5, <1>7, <2>2 DEF Live, TypeOK, SetsOK
    <3>2. session[alive[d]] = [b |-> d, status |-> "ready"]
      BY <3>1 DEF MapKeeps
    <3> QED BY <1>1, <1>2, <3>1, <3>2
  <2> QED BY <2>1, <2>2
<1> QED BY <1>6, <1>7 DEF MapKeeps

(* Each step of a caller keeps the browsers above suspicion in the map. *)
LEMMA KeepsCall ==
    ASSUME PoolInv, Alone, MapKeeps, NEW c \in Call, CallStep(c)
    PROVE  Alone' /\ MapKeeps'
<1> USE DEF PoolInv
<1>0. call[c].pc # "idle" => call[c].acct \in Account
    BY DEF TypeOK, CallsOK
<1>a. ASSUME call'[c].pc # "probe", \A d \in Call \ {c} : call'[d] = call[d],
             UNCHANGED <<session, alive, closing, suspect>>
      PROVE  Alone' /\ MapKeeps'
    BY <1>a, AloneCall, KeepsStays
<1>b. ASSUME NEW m, call[c].pc # "idle", Leaves(c, m), UNCHANGED <<session, alive, closing, suspect>>
      PROVE  Alone' /\ MapKeeps'
    BY <1>a, <1>b, LeavesEffect DEF TypeOK
<1>1. ASSUME NEW a \in Account, NEW kind \in {"task", "keep"}, Request(c, a, kind)
      PROVE  Alone' /\ MapKeeps'
    BY <1>1, <1>a DEF Request, TypeOK, CallsOK
<1>2. CASE GateRefuses(c)
    BY <1>2, <1>b DEF GateRefuses
<1>3. CASE GatePasses(c)
  <2>1. CASE Continue(c, session)
    BY <1>3, <1>a, <2>1, ContinueMoves DEF GatePasses, Continue
  <2>2. CASE call' = CallGoes(c, "probe", session[call[c].acct].b) /\ UNCHANGED session
    <3>1. session[call[c].acct].b \in Browser \cup {NoBrowser}
      BY <1>0, <1>3 DEF GatePasses, TypeOK, SessionsOK, SessionState
    <3>2. /\ call'[c].acct = call[c].acct /\ \A d \in Call \ {c} : call'[d] = call[d]
          /\ call'[c].b = session[call[c].acct].b /\ call[c].acct \in Account
      BY <1>0, <1>3, <2>2, <3>1, CallGoesType DEF GatePasses, TypeOK, CallsOK, CallGoes
    <3>3. \A d \in Call \ {c} : call[d].pc = "probe" => call[d].acct \in Account
      BY DEF TypeOK, CallsOK
    <3>4. UNCHANGED <<alive, closing, suspect>>
      BY <1>3 DEF GatePasses
    <3>5. Alone'
      BY <2>2, <3>2, <3>3, <3>4, AloneStays
    <3> QED BY <2>2, <3>4, <3>5, KeepsStays
  <2> QED BY <1>3, <2>1, <2>2 DEF GatePasses
<1>4. CASE ProbeAnswers(c)
    BY <1>4, <1>a, CallGoesType DEF ProbeAnswers, TypeOK
<1>5. CASE ProbeThrows(c)
  <2> DEFINE a == call[c].acct
  <2>1. /\ a \in Account /\ session' = Deleted(session, a) /\ call[c].pc = "probe"
        /\ UNCHANGED <<alive, closing>>
        /\ suspect \subseteq suspect' /\ (call[c].b \in Live => call[c].b \in suspect')
    BY <1>0, <1>5 DEF ProbeThrows, Continue
  <2>2. /\ session'[a] = NoSession /\ NoSession.b = NoBrowser
        /\ \A x \in Account \ {a} : session'[x] = session[x]
    BY <2>1, DeletedType DEF TypeOK, NoSession
  <2>3. Alone'
    BY <1>5, <2>1, <2>2, ContinueMoves, AloneCall DEF ProbeThrows
  <2>4. ASSUME NEW d \in (Live \ suspect)', ~BeingClosed(d)'
        PROVE  session'[alive'[d]] = [b |-> d, status |-> "ready"]
    <3>1. /\ d \in Live \ suspect /\ ~BeingClosed(d) /\ d \in Browser
          /\ alive'[d] = alive[d] /\ alive[d] \in Account /\ d # call[c].b
      BY <2>1, <2>4 DEF Live, BeingClosed, TypeOK, SetsOK
    <3>2. session[alive[d]] = [b |-> d, status |-> "ready"]
      BY <3>1 DEF MapKeeps
    <3>3. session[a].b \in {NoBrowser, call[c].b} \cup suspect
      BY <2>1 DEF Alone
    <3>4. alive[d] # a
      BY <3>1, <3>2, <3>3, PoolAssumption
    <3> QED BY <2>2, <3>1, <3>2, <3>4
  <2> QED BY <2>3, <2>4 DEF MapKeeps
<1>6. CASE WaitReturns(c)
    BY <1>6, <1>a, CallGoesType DEF WaitReturns, TypeOK
<1>7. CASE WaitTimesOut(c)
    BY <1>7, <1>b DEF WaitTimesOut
<1>8. ASSUME NEW b \in Browser, LaunchReturns(c, b) PROVE Alone' /\ MapKeeps'
    BY <1>8, LaunchKeeps
<1>9. CASE LaunchFails(c)
    BY <1>9, <1>b DEF LaunchFails
<1>10. CASE OpenPage(c)
  <2>1. CASE /\ session[call[c].acct].b \in Live
             /\ call' = CallGoes(c, "use", session[call[c].acct].b)
    BY <1>10, <1>a, <2>1, CallGoesType DEF OpenPage, TypeOK, Live
  <2>2. CASE Leaves(c, session)
    BY <1>10, <1>b, <2>2 DEF OpenPage
  <2> QED BY <1>10, <2>1, <2>2 DEF OpenPage
<1>11. CASE GoneReturns(c)
    BY <1>11, <1>b DEF GoneReturns
<1>12. CASE UseEnds(c)
    BY <1>12, <1>b DEF UseEnds
<1>13. CASE Abandoned(c)
  <2>1. \A d \in Call : /\ call'[d].pc = call[d].pc /\ call'[d].acct = call[d].acct
                        /\ call'[d].b = call[d].b
                        /\ call[d].pc = "probe" => call[d].acct \in Account
    BY <1>13 DEF Abandoned, TypeOK, CallsOK
  <2>2. UNCHANGED <<session, alive, closing, suspect>>
    BY <1>13 DEF Abandoned
  <2>3. Alone'
    BY <2>1, <2>2, AloneStays
  <2> QED BY <2>2, <2>3, KeepsStays
<1> QED
    BY <1>1, <1>2, <1>3, <1>4, <1>5, <1>6, <1>7, <1>8, <1>9, <1>10, <1>11, <1>12, <1>13
       DEF CallStep

(* So does each timer, logout, closing call and exit. *)
LEMMA KeepsPool ==
    ASSUME PoolInv, Alone, MapKeeps,
           (\E a \in Account : PoolStep(a)) \/ (\E b \in Browser : Exits(b))
    PROVE  Alone' /\ MapKeeps'
<1> USE DEF PoolInv
<1>0. \A c \in Call : call[c].pc = "probe" => call[c].acct \in Account
    BY DEF TypeOK, CallsOK
<1>1. ASSUME NEW a \in Account, CloseStart(a), UNCHANGED <<alive, session, call, suspect>>
      PROVE  Alone' /\ MapKeeps'
  <2>1. closing \subseteq closing' /\ closing' \subseteq closing \cup {<<a, session[a].b>>}
    BY <1>1 DEF CloseStart
  <2>2. Alone'
    BY <1>0, <1>1, <2>1, AloneStays
  <2> QED BY <1>1, <2>1, <2>2, KeepsStays
<1>2. ASSUME NEW a \in Account, NEW b \in Browser, CloseEnds(a, b) PROVE Alone' /\ MapKeeps'
  <2>1. /\ session'[a].b = NoBrowser
        /\ \A x \in Account \ {a} : session'[x] = session[x]
    BY <1>2, DeletedType DEF CloseEnds, TypeOK, NoSession
  <2>2. /\ <<a, b>> \in closing /\ closing' = closing \ {<<a, b>>}
        /\ suspect \subseteq suspect' /\ UNCHANGED call
        /\ \/ alive' = [alive EXCEPT ![b] = NoAccount]
           \/ UNCHANGED alive /\ b \in suspect'
    BY <1>2 DEF CloseEnds
  <2>3. /\ \A d \in Browser : alive'[d] \in {alive[d], NoAccount}
        /\ \A d \in Browser \ {b} : alive'[d] = alive[d]
        /\ alive'[b] = NoAccount \/ b \in suspect'
    BY <2>2 DEF TypeOK, SetsOK
  <2>4. Alone'
    BY <1>0, <2>1, <2>2, <2>3, AloneStays
  <2>5. ASSUME NEW d \in (Live \ suspect)', ~BeingClosed(d)'
        PROVE  session'[alive'[d]] = [b |-> d, status |-> "ready"]
    <3>1. /\ d # b /\ alive'[d] = alive[d] /\ d \in Live \ suspect
          /\ alive[d] \in Account /\ d \in Browser
      BY <2>2, <2>3, <2>5 DEF Live, TypeOK, SetsOK
    <3>2. ~BeingClosed(d)
      BY <2>2, <2>5, <3>1 DEF BeingClosed
    <3>3. session[alive[d]] = [b |-> d, status |-> "ready"]
      BY <3>1, <3>2 DEF MapKeeps
    <3>4. session[a].b \in {NoBrowser, b} \cup suspect
      BY <2>2 DEF Alone
    <3>5. alive[d] # a
      BY <3>1, <3>3, <3>4, PoolAssumption
    <3> QED BY <2>1, <3>1, <3>3, <3>5
  <2> QED BY <2>4, <2>5 DEF MapKeeps
<1>3. ASSUME NEW b \in Browser, Exits(b) PROVE Alone' /\ MapKeeps'
  <2> DEFINE a == alive[b]
  <2>1. /\ a \in Account /\ b \in Live /\ UNCHANGED <<closing, call, suspect>>
        /\ \A d \in Browser : alive'[d] \in {alive[d], NoAccount}
        /\ alive'[b] = NoAccount /\ \A d \in Browser \ {b} : alive'[d] = alive[d]
    BY <1>3 DEF Exits, Live, TypeOK, SetsOK
  <2>2. /\ \A x \in Account \ {a} : session'[x] = session[x]
        /\ session'[a].b = session[a].b
    BY <1>3, <2>1 DEF Exits, TypeOK, SessionsOK
  <2>3. Alone'
    BY <1>0, <2>1, <2>2, AloneStays
  <2>4. ASSUME NEW d \in (Live \ suspect)', ~BeingClosed(d)'
        PROVE  session'[alive'[d]] = [b |-> d, status |-> "ready"]
    <3>1. /\ d # b /\ alive'[d] = alive[d] /\ d \in Live \ suspect
          /\ alive[d] \in Account /\ d \in Browser /\ ~BeingClosed(d)
      BY <2>1, <2>4 DEF Live, BeingClosed, TypeOK, SetsOK
    <3>2. session[alive[d]] = [b |-> d, status |-> "ready"]
      BY <3>1 DEF MapKeeps
    <3>3. session[a].b \in {NoBrowser, b} \cup suspect
      BY <2>1 DEF Alone
    <3>4. alive[d] # a
      BY <3>1, <3>2, <3>3, PoolAssumption
    <3> QED BY <2>2, <3>1, <3>2, <3>4
  <2> QED BY <2>3, <2>4 DEF MapKeeps
<1>4. ASSUME NEW a \in Account, IdleTimerFires(a) \/ LoginTimerFires(a) \/ Logout(a)
      PROVE  Alone' /\ MapKeeps'
  <2>1. CloseStart(a)
    BY <1>4 DEF IdleTimerFires, LoginTimerFires, Logout
  <2> QED BY <1>1, <2>1 DEF CloseStart
<1> QED BY <1>2, <1>3, <1>4 DEF PoolStep

(* The strengthening of NoForgottenBrowser. *)
CloserInv == PoolInv /\ EntryHasCloser /\ Alone /\ MapKeeps

(* A browser that was left to the tasks, answered, closed and was launched   *)
(* without company has somebody to close it: once no caller works for its    *)
(* account it is being closed, or is the map's and has its idle timer.       *)
THEOREM NothingIsForgotten == Spec => []NoForgottenBrowser
<1>1. Init => CloserInv
  <2> SUFFICES ASSUME Init PROVE CloserInv
    OBVIOUS
  <2>1. PoolInv
    BY TypeInit, GuardInductive DEF Init, PoolInv, MapKnowsBrowsers, Live
  <2>2. EntryHasCloser
    BY DEF Init, EntryHasCloser, NoSession
  <2>3. Alone /\ MapKeeps
    BY DEF Init, Alone, MapKeeps, Live, NoCall
  <2> QED BY <2>1, <2>2, <2>3 DEF CloserInv
<1>2. CloserInv /\ [Next]_vars => CloserInv'
  <2> SUFFICES ASSUME CloserInv, [Next]_vars PROVE CloserInv'
    OBVIOUS
  <2>1. PoolInv'
    BY PoolInductive DEF CloserInv
  <2>2. CASE UNCHANGED vars
    <3>1. EntryHasCloser'
      BY <2>2 DEF vars, CloserInv, EntryHasCloser
    <3>2. Alone' /\ MapKeeps'
      BY <2>2 DEF vars, CloserInv, Alone, MapKeeps, Live, BeingClosed
    <3> QED BY <2>1, <3>1, <3>2 DEF CloserInv
  <2>3. CASE Next
    <3>1. EntryHasCloser'
      BY <2>3, CloserCall, CloserPool DEF Next, CloserInv, PoolInv
    <3>2. Alone' /\ MapKeeps'
      BY <2>3, KeepsCall, KeepsPool DEF Next, CloserInv
    <3> QED BY <2>1, <3>1, <3>2 DEF CloserInv
  <2> QED BY <2>2, <2>3
<1>3. CloserInv => NoForgottenBrowser
  <2> SUFFICES ASSUME CloserInv, NEW b \in Live \ suspect, alive[b] \notin kept,
                      \A c \in Call : call[c].acct # alive[b], ~BeingClosed(b)
               PROVE  session[alive[b]] = [b |-> b, status |-> "ready"] /\ alive[b] \in timer
    BY DEF NoForgottenBrowser
  <2>1. alive[b] \in Account /\ b \in Browser
    BY DEF CloserInv, PoolInv, TypeOK, SetsOK, Live
  <2>2. session[alive[b]] = [b |-> b, status |-> "ready"]
    BY DEF CloserInv, MapKeeps
  <2>3. session[alive[b]].b = b /\ session[alive[b]].status = "ready"
    BY <2>2
  <2>4. ASSUME NEW d \in Browser, <<alive[b], d>> \in closing PROVE FALSE
    <3>1. b \in {NoBrowser, d} \cup suspect
      BY <2>1, <2>3, <2>4 DEF CloserInv, Alone
    <3> QED BY <2>1, <2>4, <3>1, PoolAssumption DEF BeingClosed
  <2> QED BY <2>1, <2>2, <2>3, <2>4 DEF CloserInv, EntryHasCloser
<1> QED BY <1>1, <1>2, <1>3, PTL DEF Spec
-----------------------------------------------------------------------------
(* The account that Facebook has put off (Cooldown).                          *)
RowOK == [status: {"open", "suspicious", "banned"}, cooling: BOOLEAN]

Place == {"idle", "mark", "find", "write", "gate", "failed", "launch", "ping", "start",
          "waits", "look", "tried", "record", "save"}

CallerOK ==
    [kind: {"none"} \cup D!Kinds,
     at: Place,
     sees: {"none", "security_check", "account_disabled"}, copy: RowOK]

CooldownOK ==
    /\ row \in RowOK /\ caller \in [Caller -> CallerOK]
    /\ warned \in BOOLEAN /\ wiped \in BOOLEAN
    /\ after \in Nat /\ faults \in Nat

(* The calls that have passed the gate and have no browser yet                *)
Starting == {"launch", "ping", "start"}

Past == {c \in Caller : caller[c].at \in Starting}

(* While the record of the checkpoint stands the gate refuses, so a browser     *)
(* handed out is one of a call that had passed it, or of one that a failed      *)
(* read let through.  The call that made the record was not among them.         *)
GateHolds ==
    warned /\ ~wiped =>
        /\ D!Barred(row)
        /\ after + Cardinality(Past) < Cardinality(Caller) + faults

CooldownInv == CooldownOK /\ GateHolds

LEMMA PastFinite ==
    /\ IsFiniteSet(Past)
    /\ Cardinality(Past) \in Nat /\ Cardinality(Caller) \in Nat
BY CallerAssumption, FS_Subset, FS_CardinalityType DEF Past

(* A call moves: of those past the gate there is at most one more, and at most   *)
(* all but one when it is not past the gate itself.                           *)
LEMMA CallerMoves ==
    ASSUME CooldownOK, NEW c \in Caller, NEW C \in CallerOK, caller' = [caller EXCEPT ![c] = C]
    PROVE  /\ caller' \in [Caller -> CallerOK]
           /\ Cardinality(Past') \in Nat
           /\ Cardinality(Past') <= Cardinality(Past) + 1
           /\ C.at \notin Starting => /\ Cardinality(Past') <= Cardinality(Past)
                                      /\ Cardinality(Past') < Cardinality(Caller)
           /\ caller[c].at \in Starting =>
                Cardinality(Past') = Cardinality(Past) - IF C.at \in Starting THEN 0 ELSE 1
<1>1. /\ caller' \in [Caller -> CallerOK] /\ caller'[c] = C
      /\ \A d \in Caller \ {c} : caller'[d] = caller[d]
    BY DEF CooldownOK
<1>2. Past' = IF C.at \in Starting THEN Past \cup {c} ELSE Past \ {c}
    BY <1>1 DEF Past
<1>3. /\ IsFiniteSet(Past \cup {c}) /\ Cardinality(Past \cup {c}) = IF c \in Past THEN Cardinality(Past) ELSE Cardinality(Past) + 1
      /\ IsFiniteSet(Past \ {c}) /\ Cardinality(Past \ {c}) = IF c \in Past THEN Cardinality(Past) - 1 ELSE Cardinality(Past)
    BY PastFinite, FS_AddElement, FS_RemoveElement
<1>4. Cardinality(Past \cup {c}) \in Nat /\ Cardinality(Past \ {c}) \in Nat
    BY <1>3, FS_CardinalityType
<1>5. IsFiniteSet(Caller \ {c}) /\ Cardinality(Caller \ {c}) = Cardinality(Caller) - 1
    BY CallerAssumption, FS_RemoveElement
<1>6. Cardinality(Past \ {c}) <= Cardinality(Caller \ {c})
    BY <1>5, FS_Subset DEF Past
<1>7. c \in Past <=> caller[c].at \in Starting
    BY DEF Past
<1> QED BY <1>1, <1>2, <1>3, <1>4, <1>5, <1>6, <1>7, PastFinite

LEMMA CallerGoes ==
    ASSUME CooldownOK, NEW c \in Caller, NEW at \in Place, D!Goes(c, at)
    PROVE  \E C \in CallerOK : C.at = at /\ caller' = [caller EXCEPT ![c] = C]
<1>1. [caller[c] EXCEPT !.at = at] \in CallerOK /\ [caller[c] EXCEPT !.at = at].at = at
    BY DEF CooldownOK, CallerOK
<1> QED BY <1>1 DEF D!Goes

LEMMA NoCallerOK == D!NoCall \in CallerOK /\ D!NoCall.at = "idle"
BY DEF D!NoCall, D!Fresh, CallerOK, RowOK, Place

(* A step that leaves the history alone and sends no call past the gate.       *)
LEMMA CallerRests ==
    ASSUME CooldownInv, NEW c \in Caller, NEW C \in CallerOK, C.at \notin Starting,
           caller' = [caller EXCEPT ![c] = C],
           UNCHANGED <<warned, after>>, faults' = faults \/ faults' = faults + 1,
           UNCHANGED <<row, wiped>> \/ \E r \in RowOK : D!Takes(r)
    PROVE  CooldownInv'
<1>0. /\ CooldownOK /\ row \in RowOK /\ warned \in BOOLEAN /\ wiped \in BOOLEAN /\ after \in Nat /\ faults \in Nat
    BY DEF CooldownInv, CooldownOK
<1>1. /\ caller' \in [Caller -> CallerOK] /\ Cardinality(Past') \in Nat
      /\ Cardinality(Past') <= Cardinality(Past)
    BY <1>0, CallerMoves
<1>2. /\ row' \in RowOK /\ wiped' \in BOOLEAN
      /\ warned /\ ~wiped' => ~wiped /\ (D!Barred(row) => D!Barred(row'))
    BY <1>0 DEF D!Takes
<1>3. CooldownOK'
    BY <1>0, <1>1, <1>2 DEF CooldownOK
<1>4. GateHolds'
    BY <1>0, <1>1, <1>2, PastFinite DEF CooldownInv, GateHolds, D!Barred
<1> QED BY <1>3, <1>4 DEF CooldownInv

LEMMA CallerLeaves ==
    ASSUME CooldownInv, NEW c \in Caller, D!Throws(c) \/ D!Returns(c) \/ D!Goes(c, "gate") \/ D!Goes(c, "tried"),
           UNCHANGED <<warned, after>>, faults' = faults \/ faults' = faults + 1,
           UNCHANGED <<row, wiped>> \/ \E r \in RowOK : D!Takes(r)
    PROVE  CooldownInv'
<1>1. CASE D!Returns(c)
    BY <1>1, NoCallerOK, CallerRests DEF D!Returns, Starting
<1>2. ASSUME NEW at \in {"failed", "gate", "tried"}, D!Goes(c, at) PROVE CooldownInv'
  <2>1. at \in Place /\ at \notin Starting
    BY DEF Place, Starting
  <2>2. PICK C \in CallerOK : C.at = at /\ caller' = [caller EXCEPT ![c] = C]
    BY <1>2, <2>1, CallerGoes DEF CooldownInv
  <2> QED BY <2>1, <2>2, CallerRests
<1> QED BY <1>1, <1>2 DEF D!Throws

(* The gate, the launch and the record: the steps that count.                  *)
LEMMA GateStep ==
    ASSUME CooldownInv, NEW c \in Caller, D!Gate(c)
    PROVE  CooldownInv'
<1>0. /\ CooldownOK /\ row \in RowOK /\ warned \in BOOLEAN /\ wiped \in BOOLEAN /\ after \in Nat /\ faults \in Nat
    BY DEF CooldownInv, CooldownOK
<1>1. CASE D!Throws(c) /\ faults' = faults
    BY <1>1, CallerLeaves DEF D!Gate
<1>2. CASE D!Goes(c, "launch") /\ (faults' = faults + 1 \/ (faults' = faults /\ ~D!Barred(row)))
  <2>1. PICK C \in CallerOK : C.at = "launch" /\ caller' = [caller EXCEPT ![c] = C]
    BY <1>0, <1>2, CallerGoes DEF Place
  <2>2. /\ caller' \in [Caller -> CallerOK] /\ Cardinality(Past') \in Nat
        /\ Cardinality(Past') <= Cardinality(Past) + 1
    BY <1>0, <2>1, CallerMoves
  <2>3. /\ UNCHANGED <<row, warned, after, wiped>>
        /\ faults' \in Nat /\ (faults' = faults + 1 \/ (faults' = faults /\ ~D!Barred(row)))
    BY <1>0, <1>2 DEF D!Gate
  <2>4. CooldownOK'
    BY <1>0, <2>2, <2>3 DEF CooldownOK
  <2>5. GateHolds'
    BY <1>0, <2>2, <2>3, PastFinite DEF CooldownInv, GateHolds, D!Barred
  <2> QED BY <2>4, <2>5 DEF CooldownInv
<1> QED BY <1>1, <1>2 DEF D!Gate, D!Refuses

LEMMA HandsOutStep ==
    ASSUME CooldownInv, NEW c \in Caller, D!Reuses(c) \/ D!HandsOut(c)
    PROVE  CooldownInv'
<1>0. /\ CooldownOK /\ row \in RowOK /\ warned \in BOOLEAN /\ wiped \in BOOLEAN /\ after \in Nat /\ faults \in Nat
    BY DEF CooldownInv, CooldownOK
<1>1. PICK at \in {"waits", "look"} : D!Goes(c, at)
    BY DEF D!Reuses, D!HandsOut, D!Handed
<1>2. PICK C \in CallerOK : C.at = at /\ caller' = [caller EXCEPT ![c] = C]
    BY <1>0, <1>1, CallerGoes DEF Place
<1>3. /\ caller' \in [Caller -> CallerOK] /\ Cardinality(Past') \in Nat
      /\ Cardinality(Past') = Cardinality(Past) - 1
    BY <1>0, <1>2, CallerMoves DEF D!Reuses, D!HandsOut, D!At, Starting
<1>4. /\ UNCHANGED <<row, warned, wiped, faults>>
      /\ after' = IF warned /\ ~wiped THEN after + 1 ELSE after
    BY DEF D!Reuses, D!HandsOut, D!Handed
<1>5. CooldownOK'
    BY <1>0, <1>3, <1>4 DEF CooldownOK
<1>6. GateHolds'
    BY <1>0, <1>3, <1>4, PastFinite DEF CooldownInv, GateHolds, D!Barred
<1> QED BY <1>5, <1>6 DEF CooldownInv

(* Towards a new browser: the calls past the gate are the same.                *)
LEMMA ProxyStep ==
    ASSUME CooldownInv, NEW c \in Caller, D!ResolvesProxy(c) \/ D!PingAnswers(c)
    PROVE  CooldownInv'
<1>0. /\ CooldownOK /\ row \in RowOK /\ warned \in BOOLEAN /\ wiped \in BOOLEAN /\ after \in Nat /\ faults \in Nat
    BY DEF CooldownInv, CooldownOK
<1>1. PICK at \in {"ping", "start"} : D!Goes(c, at)
    BY DEF D!ResolvesProxy, D!PingAnswers
<1>2. PICK C \in CallerOK : C.at = at /\ caller' = [caller EXCEPT ![c] = C]
    BY <1>0, <1>1, CallerGoes DEF Place
<1>3. caller[c].at \in Starting /\ C.at \in Starting
    BY <1>2 DEF D!ResolvesProxy, D!PingAnswers, D!At, Starting
<1>4. caller' \in [Caller -> CallerOK] /\ Cardinality(Past') = Cardinality(Past) - 0
    BY <1>0, <1>2, <1>3, CallerMoves
<1>5. UNCHANGED <<row, warned, after, wiped, faults>>
    BY DEF D!ResolvesProxy, D!PingAnswers
<1>6. CooldownOK'
    BY <1>0, <1>4, <1>5 DEF CooldownOK
<1>7. GateHolds'
    BY <1>0, <1>4, <1>5, PastFinite DEF CooldownInv, GateHolds, D!Barred
<1> QED BY <1>6, <1>7 DEF CooldownInv

LEMMA RecordsStep ==
    ASSUME CooldownInv, NEW c \in Caller, D!Records(c)
    PROVE  CooldownInv'
<1>0. /\ CooldownOK /\ row \in RowOK /\ warned \in BOOLEAN /\ wiped \in BOOLEAN /\ after \in Nat /\ faults \in Nat
    BY DEF CooldownInv, CooldownOK
<1>1. /\ caller' \in [Caller -> CallerOK] /\ Cardinality(Past') \in Nat
      /\ Cardinality(Past') <= Cardinality(Past) /\ Cardinality(Past') < Cardinality(Caller)
    BY <1>0, NoCallerOK, CallerMoves DEF D!Records, D!Returns, Starting
<1>2. row' \in RowOK /\ D!Barred(row')
    BY DEF D!Records, D!Recorded, D!Barred, RowOK
<1>3. /\ warned' = TRUE /\ faults' = faults
      /\ (warned /\ ~wiped /\ after' = after /\ wiped' = wiped) \/ (after' = 0 /\ wiped' = FALSE)
    BY DEF D!Records
<1>4. CooldownOK'
  <2>1. warned' \in BOOLEAN /\ wiped' \in BOOLEAN
    BY <1>0, <1>3
  <2>2. after' \in Nat /\ faults' \in Nat
    BY <1>0, <1>3
  <2> QED BY <1>1, <1>2, <2>1, <2>2 DEF CooldownOK
<1>5. GateHolds'
    BY <1>0, <1>1, <1>2, <1>3, PastFinite DEF CooldownInv, GateHolds, D!Barred
<1> QED BY <1>4, <1>5 DEF CooldownInv

LEMMA OtherCallerSteps ==
    ASSUME CooldownInv, NEW c \in Caller,
           \/ \E kind \in D!Kinds : D!Asks(c, kind)
           \/ D!LoginMarks(c) \/ D!LaunchFails(c) \/ D!LoginFails(c) \/ D!LoginEnds(c)
           \/ D!AlreadyIn(c) \/ D!TriesToLogIn(c) \/ D!GoesOn(c)
           \/ \E kind \in {"security_check", "account_disabled"} : D!Detects(c, kind)
           \/ D!RecordFails(c) \/ D!Logout(c) \/ D!EditFinds(c) \/ D!EditSaves(c)
    PROVE  CooldownInv'
<1>0. /\ CooldownOK /\ row \in RowOK /\ caller \in [Caller -> CallerOK] /\ caller[c] \in CallerOK
    BY DEF CooldownInv, CooldownOK
<1>1. ASSUME NEW kind \in D!Kinds, D!Asks(c, kind) PROVE CooldownInv'
  <2>1. PICK at \in {"mark", "find", "write", "gate"} :
            caller' = [caller EXCEPT ![c] = [D!NoCall EXCEPT !.kind = kind, !.at = at]]
    BY <1>1 DEF D!Asks
  <2> DEFINE C == [D!NoCall EXCEPT !.kind = kind, !.at = at]
  <2>2. C \in CallerOK /\ C.at \notin Starting /\ caller' = [caller EXCEPT ![c] = C]
    BY <2>1 DEF D!NoCall, D!Fresh, CallerOK, RowOK, Place, Starting
  <2> HIDE DEF C
  <2> QED BY <1>1, <2>2, CallerRests DEF D!Asks
<1>2. CASE D!LoginMarks(c)
  <2>1. [row EXCEPT !.status = "open"] \in RowOK
    BY <1>0 DEF RowOK
  <2> QED BY <1>2, <2>1, CallerLeaves DEF D!LoginMarks
<1>3. CASE D!LaunchFails(c)
    BY <1>3, CallerLeaves DEF D!LaunchFails
<1>4. CASE D!LoginFails(c) \/ D!LoginEnds(c) \/ D!Logout(c)
  <2>1. [row EXCEPT !.status = "open"] \in RowOK
    BY <1>0 DEF RowOK
  <2> QED BY <1>4, <2>1, CallerLeaves DEF D!LoginFails, D!LoginEnds, D!Logout
<1>5. CASE D!AlreadyIn(c) \/ D!GoesOn(c) \/ D!RecordFails(c)
    BY <1>5, CallerLeaves DEF D!AlreadyIn, D!GoesOn, D!RecordFails
<1>6. CASE D!TriesToLogIn(c)
    BY <1>6, CallerLeaves DEF D!TriesToLogIn
<1>7. ASSUME NEW kind \in {"security_check", "account_disabled"}, D!Detects(c, kind) PROVE CooldownInv'
  <2> DEFINE C == [caller[c] EXCEPT !.at = "record", !.sees = kind]
  <2>1. C \in CallerOK /\ C.at \notin Starting /\ caller' = [caller EXCEPT ![c] = C]
    BY <1>0, <1>7 DEF D!Detects, CallerOK, Place, Starting
  <2> HIDE DEF C
  <2> QED BY <1>7, <2>1, CallerRests DEF D!Detects
<1>8. CASE D!EditFinds(c)
  <2> DEFINE C == [caller[c] EXCEPT !.at = "save", !.copy = row]
  <2>1. C \in CallerOK /\ C.at \notin Starting /\ caller' = [caller EXCEPT ![c] = C]
    BY <1>0, <1>8 DEF D!EditFinds, CallerOK, Place, Starting
  <2> HIDE DEF C
  <2> QED BY <1>8, <2>1, CallerRests DEF D!EditFinds
<1>9. CASE D!EditSaves(c)
  <2>1. caller[c].copy \in RowOK /\ [caller[c].copy EXCEPT !.status = "open"] \in RowOK
    BY <1>0 DEF CallerOK, RowOK
  <2> QED BY <1>9, <2>1, CallerLeaves DEF D!EditSaves
<1> QED BY <1>1, <1>2, <1>3, <1>4, <1>5, <1>6, <1>7, <1>8, <1>9

(* While the record of a checkpoint stands, the gate of browser-session.service.ts   *)
(* 140-163 refuses: those handed out since and the calls past the gate are fewer   *)
(* than the calls that run at a time and the failed reads together.              *)
THEOREM CooldownInvariant == PoolSpec => []CooldownInv
<1>1. PoolInit => CooldownInv
  <2> SUFFICES ASSUME D!Init PROVE CooldownInv
    BY DEF PoolInit
  <2>1. row \in RowOK /\ caller \in [Caller -> CallerOK]
    BY NoCallerOK DEF D!Init, D!Fresh, RowOK
  <2> QED BY <2>1 DEF D!Init, CooldownInv, CooldownOK, GateHolds
<1>2. CooldownInv /\ [PoolNext]_<<part, vars, cooldownVars>> => CooldownInv'
  <2> SUFFICES ASSUME CooldownInv, [PoolNext]_<<part, vars, cooldownVars>> PROVE CooldownInv'
    OBVIOUS
  <2>1. CASE UNCHANGED cooldownVars
    BY <2>1 DEF cooldownVars, CooldownInv, CooldownOK, GateHolds, Past, D!Barred
  <2>2. CASE D!CooldownEnds
    BY <2>2 DEF D!CooldownEnds, CooldownInv, CooldownOK, GateHolds, RowOK
  <2> QED BY <2>1, <2>2, GateStep, HandsOutStep, ProxyStep, RecordsStep, OtherCallerSteps DEF PoolNext, D!Next
<1> QED BY <1>1, <1>2, PTL DEF PoolSpec

(* After a checkpoint has been recorded, the account gets browsers only for the  *)
(* calls already past the gate, which are not all, and for those that could not   *)
(* read its row.                                                             *)
THEOREM CheckpointHolds == PoolSpec => []FewAfterCheckpoint
<1>1. CooldownInv => FewAfterCheckpoint
  <2> SUFFICES ASSUME CooldownInv, warned /\ ~wiped PROVE after < Cardinality(Caller) + faults
    BY DEF FewAfterCheckpoint, D!FewAfterCheckpoint, D!Cardinality, Cardinality
  <2>1. after + Cardinality(Past) < Cardinality(Caller) + faults /\ after \in Nat /\ faults \in Nat
    BY DEF CooldownInv, CooldownOK, GateHolds
  <2> QED BY <2>1, PastFinite
<1> QED BY <1>1, CooldownInvariant, PTL
=============================================================================
