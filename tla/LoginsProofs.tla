----------------------------- MODULE LoginsProofs -----------------------------
(***************************************************************************)
(* Logins and registrations, proved for any number of accounts, requests,       *)
(* overlapping ticks, crashes and rejected statements: what the set of logins in *)
(* progress says, that a cancelled registration is not watched, and that a       *)
(* success is not written over.  Then the pages that show them, for any views     *)
(* and any number of list requests in flight and of failures: when everything    *)
(* has been answered, the list on the screen is the server's.                   *)
(***************************************************************************)
EXTENDS Logins, MCPages, SequenceTheorems, TLAPS

Status  == {"unborn", "idle", "active", "error", "registering", "registration_failed"}
LoginPc == {"mark", "launch", "page", "lost", "save", "saved", "saved, lost", "timeout", "failed", "timer"}

CallState ==
    [op: {"none", "login", "logout", "status", "cancel"},
     pc: {"none", "ended", "find", "write", "delete"} \cup LoginPc,
     acct: Account \cup {NoAccount}]

(* A request that is under way has an account, and only a login gets as far as a *)
(* page.                                                                    *)
Proper(x) ==
    /\ x \in CallState
    /\ x.op # "none" => x.acct \in Account
    /\ x.op = "none" => x.pc \in {"none", "ended"}
    /\ x.pc \in LoginPc => x.op = "login"
    /\ x.op = "login" => x.pc \in LoginPc \cup {"find"}

CallsOK == call \in [Call -> CallState] /\ \A c \in Call : Proper(call[c])
TicksOK == tick \in [Account -> [Tick -> {"none", "closed", "save", "fail", "stop"}]]
RegsOK  == reg \in [Account -> {"none", "mark", "launch", "open", "prefill", "watch", "failed"}]

(* Every variable has its type.                                               *)
TypeOK ==
    /\ status \in [Account -> Status] /\ CallsOK /\ TicksOK /\ RegsOK
    /\ in \subseteq Account /\ deleted \subseteq Account /\ guard \subseteq Account
    /\ watcher \subseteq Account /\ browser \subseteq Account /\ cookie \subseteq Account
    /\ faults \in Nat
-----------------------------------------------------------------------------
(* What a step does to the requests: one moves, and the others only lose their   *)
(* pages.                                                                   *)

Like(t, s) ==
    /\ t.op = s.op /\ t.acct = s.acct
    /\ \/ t = s
       \/ s.pc = "page" /\ t.pc = "lost"
       \/ s.pc = "saved" /\ t.pc = "saved, lost"

Moves(c, s) ==
    /\ call' \in [Call -> CallState]
    /\ call'[c] = s
    /\ \A d \in Call \ {c} : Like(call'[d], call[d])

LEMMA NoneProper == Proper(NoCall) /\ Proper(Ended)
BY DEF NoCall, Ended, Proper, CallState, LoginPc

LEMMA LostPages ==
    ASSUME CallsOK, NEW a
    PROVE  /\ WithoutPages(a, call) \in [Call -> CallState]
           /\ \A c \in Call : Like(WithoutPages(a, call)[c], call[c]) /\ Proper(WithoutPages(a, call)[c])
<1>1. ASSUME NEW c \in Call
      PROVE  Like(WithoutPages(a, call)[c], call[c]) /\ Proper(WithoutPages(a, call)[c])
  <2>1. call[c] \in CallState /\ Proper(call[c])
    BY DEF CallsOK
  <2>2. CASE call[c].acct = a /\ call[c].pc = "page"
    <3>1. WithoutPages(a, call)[c] = [call[c] EXCEPT !.pc = "lost"]
      BY <2>2 DEF WithoutPages
    <3> QED BY <2>1, <2>2, <3>1 DEF Like, Proper, CallState, LoginPc
  <2>3. CASE call[c].acct = a /\ call[c].pc = "saved"
    <3>1. WithoutPages(a, call)[c] = [call[c] EXCEPT !.pc = "saved, lost"]
      BY <2>3 DEF WithoutPages
    <3> QED BY <2>1, <2>3, <3>1 DEF Like, Proper, CallState, LoginPc
  <2>4. CASE call[c].acct # a \/ call[c].pc \notin {"page", "saved"}
    <3>1. WithoutPages(a, call)[c] = call[c]
      BY <2>4 DEF WithoutPages
    <3> QED BY <2>1, <3>1 DEF Like
  <2> QED BY <2>2, <2>3, <2>4
<1>2. WithoutPages(a, call) = [c \in Call |-> WithoutPages(a, call)[c]]
    BY DEF WithoutPages
<1> QED BY <1>1, <1>2 DEF Proper

(* A request that moves, with or without others that lose their pages.           *)
LEMMA OneMoves ==
    ASSUME CallsOK, NEW c \in Call, NEW s, Proper(s), NEW a,
           \/ call' = [call EXCEPT ![c] = s]
           \/ call' = [WithoutPages(a, call) EXCEPT ![c] = s]
    PROVE  Moves(c, s) /\ CallsOK'
<1>1. call \in [Call -> CallState] /\ s \in CallState /\ \A d \in Call : Proper(call[d])
    BY DEF CallsOK, Proper
<1>2. CASE call' = [call EXCEPT ![c] = s]
  <2>1. call' \in [Call -> CallState] /\ \A d \in Call : call'[d] = IF d = c THEN s ELSE call[d]
    BY <1>1, <1>2
  <2> QED BY <1>1, <2>1 DEF Moves, Like, CallsOK
<1>3. CASE call' = [WithoutPages(a, call) EXCEPT ![c] = s]
  <2>1. /\ call' \in [Call -> CallState]
        /\ \A d \in Call : call'[d] = IF d = c THEN s ELSE WithoutPages(a, call)[d]
    BY <1>1, <1>3, LostPages
  <2> QED BY <1>1, <2>1, LostPages DEF Moves, CallsOK
<1> QED BY <1>2, <1>3

LEMMA ToMoves ==
    ASSUME CallsOK, NEW c \in Call, NEW pc, Proper([call[c] EXCEPT !.pc = pc]), call' = To(c, pc)
    PROVE  Moves(c, [call[c] EXCEPT !.pc = pc]) /\ CallsOK'
<1>1. call' = [call EXCEPT ![c] = [call[c] EXCEPT !.pc = pc]]
    BY DEF To, CallsOK
<1> QED BY <1>1, OneMoves

(* The next step of a login, unless it ends.                                  *)
LEMMA LoginMoves ==
    ASSUME CallsOK, NEW c \in Call, call[c].op = "login", NEW pc \in LoginPc, call' = To(c, pc)
    PROVE  /\ Moves(c, [op |-> "login", pc |-> pc, acct |-> call[c].acct]) /\ CallsOK'
<1>1. Proper(call[c])
    BY DEF CallsOK
<1>2. [call[c] EXCEPT !.pc = pc] = [op |-> "login", pc |-> pc, acct |-> call[c].acct]
    BY <1>1 DEF Proper, CallState
<1>3. Proper([call[c] EXCEPT !.pc = pc])
    BY <1>1, <1>2 DEF Proper, CallState, LoginPc
<1> QED BY <1>2, <1>3, ToMoves
-----------------------------------------------------------------------------
(* The steps of a login, by what they do to the set of logins in progress        *)

Working(x) == x.op = "login" /\ x.pc \in LoginPc \ {"failed", "timer"}

Goes(c, s) == Moves(c, s) /\ Proper(s)

(* It finds its row; it goes on; it leaves the set; it leaves without leaving the *)
(* set; it closes what it has left open.                                       *)
LoginFindsRow(c) ==
    LET a == call[c].acct
    IN  /\ call[c].op = "login" /\ call[c].pc = "find" /\ leaked' = leaked
        /\ \/ Goes(c, Ended) /\ guard' = guard /\ doubled' = doubled
           \/ /\ \E s : Goes(c, s) /\ Working(s) /\ s.acct = a
              /\ guard' = guard \cup {a}
              /\ doubled' = IF \E d \in Call \ {c} : call[d].acct = a /\ call[d].op = "login" /\ call[d].pc = "find"
                            THEN doubled \cup {a} ELSE doubled

LoginGoesOn(c) ==
    /\ Working(call[c])
    /\ \E s : Goes(c, s) /\ Working(s) /\ s.acct = call[c].acct
    /\ UNCHANGED <<guard, doubled, leaked>>

LoginLeaves(c) ==
    /\ Working(call[c])
    /\ \E s : Goes(c, s) /\ ~Working(s) /\ s.pc # "find"
    /\ guard' = guard \ {call[c].acct} /\ UNCHANGED <<doubled, leaked>>

LoginLeaks(c) ==
    /\ Working(call[c]) /\ Goes(c, Ended)
    /\ leaked' = leaked \cup {call[c].acct} /\ UNCHANGED <<guard, doubled>>

LoginCloses(c) ==
    /\ ~Working(call[c])
    /\ \E s : Goes(c, s) /\ ~Working(s) /\ s.pc # "find"
    /\ UNCHANGED <<guard, doubled, leaked>>

LEMMA LoginStepKinds ==
    ASSUME CallsOK, NEW c \in Call, LoginStep(c)
    PROVE  /\ CallsOK'
           /\ LoginFindsRow(c) \/ LoginGoesOn(c) \/ LoginLeaves(c) \/ LoginLeaks(c) \/ LoginCloses(c)
<1> DEFINE a == call[c].acct
<1> USE NoneProper
<1>1. Proper(call[c]) /\ ~Working(Ended) /\ Ended.pc # "find"
    BY DEF CallsOK, Working, Ended, NoCall, LoginPc
<1>2. ASSUME NEW pc \in LoginPc, call[c].op = "login", call' = To(c, pc)
      PROVE  /\ CallsOK'
             /\ pc \notin {"failed", "timer"} => \E s : Goes(c, s) /\ Working(s) /\ s.acct = a
             /\ pc \in {"failed", "timer"} => \E s : Goes(c, s) /\ ~Working(s) /\ s.pc # "find"
  <2> DEFINE s == [op |-> "login", pc |-> pc, acct |-> a]
  <2>1. Proper(s)
    BY <1>1, <1>2 DEF Proper, CallState
  <2>2. /\ s.acct = a
        /\ pc \notin {"failed", "timer"} => Working(s)
        /\ pc \in {"failed", "timer"} => ~Working(s) /\ s.pc # "find"
    BY DEF Working
  <2>3. Moves(c, s) /\ CallsOK'
    BY <1>2, LoginMoves
  <2> HIDE DEF s
  <2> QED BY <2>1, <2>2, <2>3 DEF Goes
<1>3. ASSUME call' = [call EXCEPT ![c] = Ended] \/ call' = [WithoutPages(a, call) EXCEPT ![c] = Ended]
      PROVE  CallsOK' /\ Goes(c, Ended)
    BY <1>3, OneMoves DEF Goes
<1>4. CASE LoginFinds(c)
  <2>1. CASE a \in deleted
    BY <1>3, <1>4, <2>1 DEF LoginFinds, LoginFindsRow
  <2>2. CASE a \notin deleted
    <3>1. CallsOK' /\ \E s : Goes(c, s) /\ Working(s) /\ s.acct = a
      BY <1>2, <1>4, <2>2 DEF LoginFinds, LoginPc
    <3> QED BY <1>4, <2>2, <3>1 DEF LoginFinds, LoginFindsRow
  <2> QED BY <2>1, <2>2
<1>5. CASE LoginMarks(c)
  <2>1. call[c].op = "login" /\ Working(call[c])
    BY <1>1, <1>5 DEF LoginMarks, Proper, Working, LoginPc
  <2>2. CASE call' = To(c, "launch") /\ UNCHANGED leaked
    <3>1. CallsOK' /\ \E s : Goes(c, s) /\ Working(s) /\ s.acct = a
      BY <1>2, <2>1, <2>2 DEF LoginPc
    <3> QED BY <1>5, <2>1, <2>2, <3>1 DEF LoginMarks, LoginGoesOn
  <2>3. CASE call' = [call EXCEPT ![c] = Ended] /\ leaked' = leaked \cup {a}
    BY <1>3, <1>5, <2>1, <2>3 DEF LoginMarks, LoginLeaks
  <2> QED BY <1>5, <2>2, <2>3 DEF LoginMarks
<1>6. CASE LoginLaunches(c)
  <2>1. call[c].op = "login" /\ Working(call[c]) /\ call' = To(c, "page")
    BY <1>1, <1>6 DEF LoginLaunches, Proper, Working, LoginPc, To
  <2>2. CallsOK' /\ \E s : Goes(c, s) /\ Working(s) /\ s.acct = a
    BY <1>2, <2>1 DEF LoginPc
  <2> QED BY <1>6, <2>1, <2>2 DEF LoginLaunches, LoginGoesOn, history
<1>7. CASE LoginWaits(c)
  <2>1. call[c].op = "login" /\ Working(call[c]) /\ (call' = To(c, "save") \/ call' = To(c, "timeout"))
    BY <1>1, <1>7 DEF LoginWaits, Proper, Working, LoginPc
  <2>2. CallsOK' /\ \E s : Goes(c, s) /\ Working(s) /\ s.acct = a
    BY <1>2, <2>1 DEF LoginPc
  <2> QED BY <1>7, <2>1, <2>2 DEF LoginWaits, LoginGoesOn, history
<1>8. CASE LoginSaves(c)
  <2>1. call[c].op = "login" /\ Working(call[c]) /\ call' = To(c, "saved")
    BY <1>1, <1>8 DEF LoginSaves, Proper, Working, LoginPc
  <2>2. CallsOK' /\ \E s : Goes(c, s) /\ Working(s) /\ s.acct = a
    BY <1>2, <2>1 DEF LoginPc
  <2> QED BY <1>8, <2>1, <2>2 DEF LoginSaves, LoginGoesOn
<1>9. CASE LoginEnds(c)
  <2>1. Working(call[c]) /\ call' = [call EXCEPT ![c] = Ended] /\ guard' = guard \ {a}
    BY <1>1, <1>9 DEF LoginEnds, Proper, Working, LoginPc, GuardLeft
  <2> QED BY <1>1, <1>3, <1>9, <2>1 DEF LoginEnds, LoginLeaves, history
<1>10. CASE LoginTimesOut(c)
  <2>1. call[c].op = "login" /\ Working(call[c]) /\ call' = To(c, "timer") /\ guard' = guard \ {a}
    BY <1>1, <1>10 DEF LoginTimesOut, Proper, Working, LoginPc, GuardLeft
  <2>2. CallsOK' /\ \E s : Goes(c, s) /\ ~Working(s) /\ s.pc # "find"
    BY <1>2, <2>1 DEF LoginPc
  <2> QED BY <1>10, <2>1, <2>2 DEF LoginTimesOut, LoginLeaves, history
<1>11. CASE LoginThrows(c)
  <2>1. call[c].op = "login" /\ Working(call[c]) /\ call' = To(c, "failed") /\ guard' = guard \ {a}
    BY <1>1, <1>11 DEF LoginThrows, Proper, Working, LoginPc, GuardLeft
  <2>2. CallsOK' /\ \E s : Goes(c, s) /\ ~Working(s) /\ s.pc # "find"
    BY <1>2, <2>1 DEF LoginPc
  <2> QED BY <1>11, <2>1, <2>2 DEF LoginThrows, LoginLeaves, history
<1>12. CASE LoginFailed(c)
  <2>1. call[c].op = "login" /\ ~Working(call[c]) /\ call' = To(c, "timer")
    BY <1>1, <1>12 DEF LoginFailed, Proper, Working, LoginPc
  <2>2. CallsOK' /\ \E s : Goes(c, s) /\ ~Working(s) /\ s.pc # "find"
    BY <1>2, <2>1 DEF LoginPc
  <2> QED BY <1>12, <2>1, <2>2 DEF LoginFailed, LoginCloses, history
<1>13. CASE LoginTimer(c)
  <2>1. ~Working(call[c]) /\ call' = [WithoutPages(a, call) EXCEPT ![c] = Ended]
    BY <1>1, <1>13 DEF LoginTimer, Proper, Working, LoginPc
  <2> QED BY <1>1, <1>3, <1>13, <2>1 DEF LoginTimer, LoginCloses, history
<1> QED BY <1>4, <1>5, <1>6, <1>7, <1>8, <1>9, <1>10, <1>11, <1>12, <1>13 DEF LoginStep

(* The other requests never are logins.                                       *)
CallGoes(c) ==
    /\ call[c].op # "login"
    /\ \E s : Goes(c, s) /\ s.op # "login"
    /\ UNCHANGED <<guard, doubled, leaked>>

LEMMA CallStepKind ==
    ASSUME CallsOK, NEW c \in Call, CallStep(c) \/ CallRejected(c)
    PROVE  CallsOK' /\ CallGoes(c)
<1> DEFINE a == call[c].acct
           Rec(pc) == [op |-> call[c].op, pc |-> pc, acct |-> a]
<1> USE NoneProper
<1>1. Proper(call[c]) /\ call[c] = Rec(call[c].pc) /\ call \in [Call -> CallState]
    BY DEF CallsOK, Proper, CallState
<1>2. call[c].op # "login" /\ call[c].op # "none" /\ UNCHANGED <<guard, doubled, leaked>>
    BY <1>1 DEF CallStep, CallRejected, LogoutCloses, StatusFinds, LoggedOut, CancelStops, CancelDeletes, Proper,
                LoginPc, history
<1>3. ASSUME NEW pc \in {"write", "delete"}, NEW s, s = Rec(pc),
             call' = [call EXCEPT ![c] = s] \/ call' = [WithoutPages(a, call) EXCEPT ![c] = s]
      PROVE  CallsOK' /\ \E x : Goes(c, x) /\ x.op # "login"
  <2>1. a \in Account /\ call[c].op \in {"logout", "status", "cancel"}
    BY <1>1, <1>2 DEF Proper, CallState
  <2>2. Proper(s) /\ s.op # "login"
    BY <1>3, <2>1 DEF Proper, CallState, LoginPc
  <2> QED BY <1>3, <2>2, OneMoves DEF Goes
<1>4. ASSUME call' = [call EXCEPT ![c] = Ended]
      PROVE  CallsOK' /\ \E x : Goes(c, x) /\ x.op # "login"
  <2>1. Ended.op # "login"
    BY DEF Ended, NoCall
  <2> QED BY <1>4, <2>1, OneMoves DEF Goes
<1>5. ASSUME NEW pc \in {"write", "delete"}, call' = [WithoutPages(a, call) EXCEPT ![c].pc = pc]
      PROVE  CallsOK' /\ \E x : Goes(c, x) /\ x.op # "login"
  <2>1. WithoutPages(a, call)[c] = call[c]
    <3>1. call[c].pc \notin {"page", "saved"}
      BY <1>1, <1>2 DEF Proper, LoginPc
    <3> QED BY <3>1 DEF WithoutPages
  <2>2. [WithoutPages(a, call)[c] EXCEPT !.pc = pc] = Rec(pc)
    BY <1>1, <2>1
  <2>3. call' = [WithoutPages(a, call) EXCEPT ![c] = [WithoutPages(a, call)[c] EXCEPT !.pc = pc]]
    BY <1>5, LostPages
  <2>4. call' = [WithoutPages(a, call) EXCEPT ![c] = Rec(pc)]
    BY <2>2, <2>3
  <2> HIDE DEF Rec
  <2> QED BY <1>3, <2>4
<1>6. CASE LogoutCloses(c)
    BY <1>2, <1>5, <1>6 DEF LogoutCloses, CallGoes
<1>7. CASE StatusFinds(c)
  <2>1. CASE call' = To(c, "write")
    <3>1. call' = [call EXCEPT ![c] = Rec("write")]
      <4>1. [call[c] EXCEPT !.pc = "write"] = Rec("write")
        BY <1>1
      <4>2. call' = [call EXCEPT ![c] = [call[c] EXCEPT !.pc = "write"]]
        BY <1>1, <2>1 DEF To
      <4> QED BY <4>1, <4>2
    <3> QED BY <1>2, <1>3, <3>1 DEF CallGoes
  <2> QED BY <1>2, <1>4, <1>7, <2>1 DEF StatusFinds, CallGoes
<1>8. CASE LoggedOut(c)
    BY <1>2, <1>4, <1>8 DEF LoggedOut, CallGoes
<1>9. CASE CancelStops(c)
    BY <1>2, <1>4, <1>5, <1>9 DEF CancelStops, CallGoes
<1>10. CASE CancelDeletes(c)
    BY <1>2, <1>4, <1>10 DEF CancelDeletes, CallGoes
<1>11. CASE CallRejected(c)
    BY <1>2, <1>4, <1>11 DEF CallRejected, CallGoes
<1> QED BY <1>6, <1>7, <1>8, <1>9, <1>10, <1>11 DEF CallStep

(* A new request *)
LEMMA AskKind ==
    ASSUME CallsOK, NEW c \in Call, NEW op \in {"login", "logout", "status", "cancel"}, NEW a \in Account, Asks(c, op, a)
    PROVE  /\ CallsOK'
           /\ Goes(c, [op |-> op, pc |-> "find", acct |-> a]) /\ call[c].op = "none"
           /\ op = "login" => a \notin guard
           /\ UNCHANGED <<guard, doubled, leaked>>
<1>1. Proper([op |-> op, pc |-> "find", acct |-> a])
    BY DEF Proper, CallState, LoginPc
<1>2. call' = [call EXCEPT ![c] = [op |-> op, pc |-> "find", acct |-> a]]
  <2>1. [NoCall EXCEPT !.op = op, !.acct = a, !.pc = "find"] = [op |-> op, pc |-> "find", acct |-> a]
    <3> DEFINE s == [NoCall EXCEPT !.op = op, !.acct = a, !.pc = "find"]
    <3>1. s \in CallState
      BY NoneProper DEF Proper, CallState
    <3>2. s.op = op /\ s.acct = a /\ s.pc = "find"
      BY NoneProper DEF Proper, CallState
    <3>3. s = [op |-> s.op, pc |-> s.pc, acct |-> s.acct]
      <4> HIDE DEF s
      <4> QED BY <3>1 DEF CallState
    <3> QED BY <3>2, <3>3
  <2>2. call' = [call EXCEPT ![c] = [NoCall EXCEPT !.op = op, !.acct = a, !.pc = "find"]]
    BY DEF Asks
  <2> QED BY <2>1, <2>2
<1>3. Goes(c, [op |-> op, pc |-> "find", acct |-> a]) /\ CallsOK'
    BY <1>1, <1>2, OneMoves DEF Goes
<1>4. call[c].op = "none"
    BY DEF Asks, NoCall
<1>5. op = "login" => a \notin guard
    BY DEF Asks, FreeToLogIn
<1>6. UNCHANGED <<guard, doubled, leaked>>
    BY DEF Asks, history
<1> QED BY <1>3, <1>4, <1>5, <1>6

(* Registrations, their watchers, users and time leave the requests alone, but   *)
(* for the browser that exits.                                                *)
RestStep ==
    \E a \in Account :
        \/ RegistrationCreates(a) \/ RegistrationStep(a) \/ RegistrationRejected(a)
        \/ \E k \in Tick : TickStep(a, k)
        \/ GetsThrough(a) \/ BrowserExits(a) \/ ThirtyMinutes(a)

LEMMA RestKind ==
    ASSUME CallsOK, RestStep
    PROVE  /\ CallsOK' /\ \A c \in Call : Like(call'[c], call[c])
           /\ UNCHANGED <<guard, doubled, leaked>>
<1>1. PICK a \in Account :
        \/ RegistrationCreates(a) \/ RegistrationStep(a) \/ RegistrationRejected(a)
        \/ \E k \in Tick : TickStep(a, k)
        \/ GetsThrough(a) \/ BrowserExits(a) \/ ThirtyMinutes(a)
    BY DEF RestStep
<1>2. ASSUME call' = call PROVE CallsOK' /\ \A c \in Call : Like(call'[c], call[c])
    BY <1>2 DEF CallsOK, Like
<1>3. CASE RegistrationCreates(a) \/ RegistrationStep(a) \/ RegistrationRejected(a)
    BY <1>2, <1>3 DEF RegistrationCreates, RegistrationStep, RegistrationRejected, RegistrationMarks, RegistrationLaunches,
                      RegistrationOpens, RegistrationPrefills, RegistrationWatches, RegistrationThrows, RegistrationFailed, world, history
<1>4. CASE \E k \in Tick : TickStep(a, k)
    BY <1>2, <1>4 DEF TickStep, TickLooks, TickFindsClosed, TickSaves, TickMarksFailed, TickStops, TickRejected,
                      world, history
<1>5. CASE GetsThrough(a) \/ ThirtyMinutes(a)
    BY <1>2, <1>5 DEF GetsThrough, ThirtyMinutes, memory, history
<1>6. CASE BrowserExits(a)
  <2>1. call' = WithoutPages(a, call) /\ UNCHANGED <<guard, doubled, leaked>>
    BY <1>6 DEF BrowserExits, history
  <2> QED BY <2>1, LostPages DEF CallsOK
<1> QED BY <1>1, <1>3, <1>4, <1>5, <1>6
-----------------------------------------------------------------------------
(* The set of logins in progress *)

Searching(x) == x.op = "login" /\ x.pc = "find"

(* Of an account that no two logins found before either was in the set, and of   *)
(* which no login was rejected at line 75: it is in the set exactly while a      *)
(* login works on it, that is one login, and no other is about to join.           *)
Exact(a) ==
    /\ a \in guard <=> \E c \in Call : Working(call[c]) /\ call[c].acct = a
    /\ \A c, d \in Call : Working(call[c]) /\ Working(call[d]) /\ call[c].acct = a /\ call[d].acct = a => c = d
    /\ a \in guard => \A c \in Call : ~(Searching(call[c]) /\ call[c].acct = a)

AllExact == \A a \in Account \ (doubled \cup leaked) : Exact(a)

LEMMA LikeSame ==
    ASSUME NEW s, NEW t, Like(t, s)
    PROVE  t.acct = s.acct /\ (Working(t) <=> Working(s)) /\ (Searching(t) <=> Searching(s))
BY DEF Like, Working, Searching, LoginPc

LEMMA ExactStep == ASSUME CallsOK, AllExact, [Next]_vars PROVE AllExact'
<1> SUFFICES ASSUME NEW a \in Account, a \notin doubled', a \notin leaked' PROVE Exact(a)'
    BY DEF AllExact
<1>1. ASSUME doubled \subseteq doubled', leaked \subseteq leaked' PROVE Exact(a)
    BY <1>1 DEF AllExact
<1>2. ASSUME NEW c \in Call, NEW s, Goes(c, s)
      PROVE  /\ call'[c] = s
             /\ \A d \in Call \ {c} :
                  /\ call'[d].acct = call[d].acct
                  /\ Working(call'[d]) <=> Working(call[d])
                  /\ Searching(call'[d]) <=> Searching(call[d])
    BY <1>2, LikeSame DEF Goes, Moves
<1>3. ~Working(Ended) /\ ~Searching(Ended)
    BY DEF Ended, NoCall, Working, Searching
<1>4. ASSUME NEW c \in Call, LoginStep(c) PROVE Exact(a)'
  <2>1. CASE LoginFindsRow(c)
    <3>1. Exact(a) /\ Searching(call[c]) /\ ~Working(call[c])
      BY <1>1, <2>1 DEF LoginFindsRow, Searching, Working, LoginPc
    <3>2. CASE Goes(c, Ended) /\ guard' = guard
      BY <1>2, <1>3, <3>1, <3>2 DEF Exact
    <3>3. CASE /\ \E s : Goes(c, s) /\ Working(s) /\ s.acct = call[c].acct
               /\ guard' = guard \cup {call[c].acct}
               /\ doubled' = IF \E d \in Call \ {c} : call[d].acct = call[c].acct /\ call[d].op = "login" /\ call[d].pc = "find"
                             THEN doubled \cup {call[c].acct} ELSE doubled
      <4>1. PICK s : Goes(c, s) /\ Working(s) /\ s.acct = call[c].acct
        BY <3>3
      <4>2. ~Searching(s)
        BY <4>1 DEF Working, Searching, LoginPc
      <4>3. CASE call[c].acct = a
        <5>1. a \notin guard /\ \A d \in Call : ~(Working(call[d]) /\ call[d].acct = a)
          BY <3>1, <4>3 DEF Exact
        <5>2. \A d \in Call \ {c} : ~(Searching(call[d]) /\ call[d].acct = a)
          BY <3>3, <4>3 DEF Searching
        <5> QED BY <1>2, <3>3, <4>1, <4>2, <4>3, <5>1, <5>2 DEF Exact
      <4>4. CASE call[c].acct # a
        BY <1>2, <3>1, <3>3, <4>1, <4>2, <4>4 DEF Exact
      <4> QED BY <4>3, <4>4
    <3> QED BY <2>1, <3>2, <3>3 DEF LoginFindsRow
  <2>2. CASE LoginGoesOn(c)
    <3>1. PICK s : Goes(c, s) /\ Working(s) /\ s.acct = call[c].acct
      BY <2>2 DEF LoginGoesOn
    <3>2. Exact(a) /\ Working(call[c]) /\ guard' = guard
      BY <1>1, <2>2 DEF LoginGoesOn
    <3>3. ~Searching(s) /\ ~Searching(call[c])
      BY <3>1, <3>2 DEF Working, Searching, LoginPc
    <3>4. \A d \in Call : /\ call'[d].acct = call[d].acct
                          /\ Working(call'[d]) <=> Working(call[d])
                          /\ Searching(call'[d]) <=> Searching(call[d])
      BY <1>2, <3>1, <3>2, <3>3
    <3> QED BY <3>2, <3>4 DEF Exact
  <2>3. CASE LoginLeaves(c)
    <3>1. PICK s : Goes(c, s) /\ ~Working(s) /\ s.pc # "find"
      BY <2>3 DEF LoginLeaves
    <3>2. Exact(a) /\ Working(call[c]) /\ guard' = guard \ {call[c].acct} /\ ~Searching(s)
      BY <1>1, <2>3, <3>1 DEF LoginLeaves, Searching
    <3>3. CASE call[c].acct = a
      <4>1. \A d \in Call \ {c} : ~(Working(call[d]) /\ call[d].acct = a)
        BY <3>2, <3>3 DEF Exact
      <4> QED BY <1>2, <3>1, <3>2, <3>3, <4>1 DEF Exact
    <3>4. CASE call[c].acct # a
      BY <1>2, <3>1, <3>2, <3>4 DEF Exact
    <3> QED BY <3>3, <3>4
  <2>4. CASE LoginLeaks(c)
    <3>1. Exact(a) /\ Goes(c, Ended) /\ guard' = guard /\ call[c].acct # a
      BY <1>1, <2>4 DEF LoginLeaks
    <3> QED BY <1>2, <1>3, <3>1 DEF Exact
  <2>5. CASE LoginCloses(c)
    <3>1. PICK s : Goes(c, s) /\ ~Working(s) /\ s.pc # "find"
      BY <2>5 DEF LoginCloses
    <3>2. Exact(a) /\ ~Working(call[c]) /\ guard' = guard /\ ~Searching(s)
      BY <1>1, <2>5, <3>1 DEF LoginCloses, Searching
    <3> QED BY <1>2, <3>1, <3>2 DEF Exact
  <2> QED BY <1>4, <2>1, <2>2, <2>3, <2>4, <2>5, LoginStepKinds
<1>5. ASSUME NEW c \in Call, CallStep(c) \/ CallRejected(c) PROVE Exact(a)'
  <2>1. CallGoes(c)
    BY <1>5, CallStepKind
  <2>2. PICK s : Goes(c, s) /\ s.op # "login"
    BY <2>1 DEF CallGoes
  <2>3. Exact(a) /\ guard' = guard /\ ~Working(call[c]) /\ ~Working(s) /\ ~Searching(s)
    BY <1>1, <2>1, <2>2 DEF CallGoes, Working, Searching
  <2> QED BY <1>2, <2>2, <2>3 DEF Exact
<1>6. ASSUME NEW c \in Call, NEW op \in {"login", "logout", "status", "cancel"}, NEW b \in Account, Asks(c, op, b)
      PROVE  Exact(a)'
  <2> DEFINE s == [op |-> op, pc |-> "find", acct |-> b]
  <2>1. Goes(c, s) /\ ~Working(s) /\ s.acct = b /\ (Searching(s) => b \notin guard)
    BY <1>6, AskKind DEF Working, Searching, LoginPc
  <2>2. Exact(a) /\ guard' = guard /\ ~Working(call[c])
    BY <1>1, <1>6, AskKind DEF Working
  <2> HIDE DEF s
  <2> QED BY <1>2, <2>1, <2>2 DEF Exact
<1>7. CASE RestStep
  <2>1. /\ Exact(a) /\ guard' = guard
        /\ \A d \in Call : /\ call'[d].acct = call[d].acct
                           /\ Working(call'[d]) <=> Working(call[d])
                           /\ Searching(call'[d]) <=> Searching(call[d])
    BY <1>1, <1>7, RestKind, LikeSame
  <2> QED BY <2>1 DEF Exact
<1>8. CASE Crash
  <2>1. guard' = {} /\ \A c \in Call : ~Working(call'[c])
    BY <1>8 DEF Crash, Working, NoCall, Ended
  <2> QED BY <2>1 DEF Exact
<1>9. CASE UNCHANGED vars
  <2>1. Exact(a) /\ guard' = guard /\ call' = call
    BY <1>1, <1>9 DEF vars, memory, history
  <2> QED BY <2>1 DEF Exact
<1>10. CASE Next
    BY <1>4, <1>5, <1>6, <1>7, <1>8, <1>10 DEF Next, RestStep
<1> QED BY <1>9, <1>10

LEMMA CallsStep == ASSUME CallsOK, [Next]_vars PROVE CallsOK'
<1>1. CASE Crash
    BY <1>1, NoneProper DEF Crash, CallsOK, Proper
<1>2. CASE UNCHANGED vars
    BY <1>2 DEF vars, memory, CallsOK
<1>3. CASE Next
    BY <1>1, <1>3, LoginStepKinds, CallStepKind, AskKind, RestKind DEF Next, RestStep
<1> QED BY <1>2, <1>3

(* loginInProgress holds an account exactly while one login works on it, with the *)
(* exceptions of GuardExact: login and its three ways out of the set, beside the  *)
(* other requests and crashes.                                                *)
THEOREM GuardIsExact == Spec => []GuardExact
<1>1. Init => CallsOK /\ AllExact
  <2> SUFFICES ASSUME Init PROVE CallsOK /\ AllExact
    OBVIOUS
  <2>1. CallsOK
    BY NoneProper DEF Init, CallsOK, Proper
  <2>2. guard = {} /\ \A c \in Call : ~Working(call[c]) /\ ~Searching(call[c])
    BY DEF Init, Working, Searching, NoCall
  <2> QED BY <2>1, <2>2 DEF AllExact, Exact
<1>2. CallsOK /\ AllExact /\ [Next]_vars => CallsOK' /\ AllExact'
    BY CallsStep, ExactStep
<1>3. CallsOK /\ AllExact => GuardExact
  <2> SUFFICES ASSUME CallsOK, AllExact PROVE GuardExact
    OBVIOUS
  <2>1. \A c \in Call : InProgress(c) <=> Working(call[c])
    BY DEF CallsOK, Proper, InProgress, Working, LoginPc
  <2> QED BY <2>1 DEF AllExact, Exact, GuardExact
<1> QED BY <1>1, <1>2, <1>3, PTL DEF Spec
-----------------------------------------------------------------------------
(* Types *)

(* What becomes of request c in a step: it loses its pages, ends, goes on to       *)
(* where nothing is saved or deleted, or is one of three that matter.             *)
Becomes(c) ==
    LET t == call'[c]
        s == call[c]
    IN  \/ Like(t, s)
        \/ t = Ended
        \/ t.op = s.op /\ t.acct = s.acct /\ t.pc \notin {"save", "delete"}
        \/ t.op = "login" /\ t.acct = s.acct /\ t.pc = "save" /\ s.acct \in cookie
        \/ CancelStops(c) /\ t.acct = s.acct
        \/ t.pc = "find" /\ t.acct \in Account /\ status[t.acct] # "unborn"

LEMMA BecomesTo ==
    ASSUME CallsOK, NEW c \in Call, NEW pc, call' = To(c, pc)
    PROVE  /\ call'[c].op = call[c].op /\ call'[c].acct = call[c].acct /\ call'[c].pc = pc
           /\ \A d \in Call \ {c} : Like(call'[d], call[d])
<1>1. call \in [Call -> CallState]
    BY DEF CallsOK
<1>2. call' = [call EXCEPT ![c] = [call[c] EXCEPT !.pc = pc]]
    BY <1>1 DEF To
<1>3. \A d \in Call : call'[d] = IF d = c THEN [call[c] EXCEPT !.pc = pc] ELSE call[d]
    BY <1>1, <1>2
<1> QED BY <1>1, <1>3 DEF Like, CallState

LEMMA RequestsBecome == ASSUME CallsOK, [Next]_vars, NEW d \in Call PROVE Becomes(d)
<1>1. ASSUME NEW c \in Call, NEW pc \in LoginPc \cup {"write"}, call' = To(c, pc), pc # "save" PROVE Becomes(d)
    BY <1>1, BecomesTo DEF Becomes, LoginPc
<1>2. ASSUME NEW c \in Call, call' = [call EXCEPT ![c] = Ended] PROVE Becomes(d)
    BY <1>2 DEF CallsOK, Becomes, Like
<1>3. ASSUME NEW c \in Call, LoginWaits(c) PROVE Becomes(d)
  <2>1. CASE call[c].acct \in cookie
    <3>1. call[c].op = "login" /\ call' = To(c, "save")
      BY <1>3, <2>1 DEF LoginWaits, CallsOK, Proper, LoginPc
    <3> QED BY <2>1, <3>1, BecomesTo DEF Becomes
  <2>2. CASE call[c].acct \notin cookie
    BY <1>1, <1>3, <2>2 DEF LoginWaits, LoginPc
  <2> QED BY <2>1, <2>2
<1>4. ASSUME NEW c \in Call, LoginStep(c) PROVE Becomes(d)
  <2>1. CASE LoginTimer(c)
    <3>1. \A x \in Call : call'[x] = IF x = c THEN Ended ELSE WithoutPages(call[c].acct, call)[x]
      BY <2>1, LostPages DEF LoginTimer
    <3> QED BY <3>1, LostPages DEF Becomes
  <2>2. CASE LoginLaunches(c)
    BY <1>1, <2>2 DEF LoginLaunches, To, LoginPc
  <2>3. CASE LoginFinds(c) \/ LoginMarks(c) \/ LoginSaves(c) \/ LoginEnds(c) \/ LoginTimesOut(c)
    BY <1>1, <1>2, <2>3 DEF LoginFinds, LoginMarks, LoginSaves, LoginEnds, LoginTimesOut, LoginPc
  <2>4. CASE LoginThrows(c) \/ LoginFailed(c)
    BY <1>1, <2>4 DEF LoginThrows, LoginFailed, LoginPc
  <2> QED BY <1>3, <1>4, <2>1, <2>2, <2>3, <2>4 DEF LoginStep
<1>5. ASSUME NEW c \in Call, CallStep(c) \/ CallRejected(c) PROVE Becomes(d)
  <2>1. ASSUME NEW pc, call' = [WithoutPages(call[c].acct, call) EXCEPT ![c].pc = pc]
        PROVE  /\ call'[c].op = call[c].op /\ call'[c].acct = call[c].acct /\ call'[c].pc = pc
               /\ d # c => Like(call'[d], call[d])
    <3> DEFINE f == WithoutPages(call[c].acct, call)
    <3>1. f \in [Call -> CallState] /\ \A x \in Call : Like(f[x], call[x])
      BY LostPages
    <3>2. call' = [f EXCEPT ![c] = [f[c] EXCEPT !.pc = pc]]
      BY <2>1, <3>1
    <3> HIDE DEF f
    <3>3. call'[c] = [f[c] EXCEPT !.pc = pc] /\ (d # c => call'[d] = f[d])
      BY <3>1, <3>2
    <3>4. f[c] \in CallState /\ Like(f[c], call[c]) /\ (d # c => Like(f[d], call[d]))
      BY <3>1
    <3>5. call'[c].op = f[c].op /\ call'[c].acct = f[c].acct /\ call'[c].pc = pc
      BY <3>3, <3>4 DEF CallState
    <3> QED BY <3>3, <3>4, <3>5 DEF Like
  <2>2. CASE LogoutCloses(c)
    BY <2>1, <2>2 DEF LogoutCloses, Becomes
  <2>3. CASE StatusFinds(c) \/ LoggedOut(c) \/ CancelDeletes(c) \/ CallRejected(c)
    BY <1>1, <1>2, <2>3 DEF StatusFinds, LoggedOut, CancelDeletes, CallRejected
  <2>4. CASE CancelStops(c)
    BY <1>2, <2>1, <2>4 DEF CancelStops, Becomes
  <2> QED BY <1>5, <2>2, <2>3, <2>4 DEF CallStep
<1>6. ASSUME NEW c \in Call, NEW op \in {"login", "logout", "status", "cancel"}, NEW a \in Account, Asks(c, op, a)
      PROVE  Becomes(d)
  <2> DEFINE s == [op |-> op, pc |-> "find", acct |-> a]
  <2>1. Goes(c, s) /\ s.pc = "find" /\ s.acct = a /\ status[a] # "unborn"
    BY <1>6, AskKind DEF Asks
  <2> HIDE DEF s
  <2> QED BY <2>1 DEF Goes, Moves, Becomes
<1>7. CASE RestStep
    BY <1>7, RestKind DEF Becomes
<1>8. CASE Crash
    BY <1>8 DEF Crash, Becomes, Like
<1>9. CASE UNCHANGED vars
    BY <1>9 DEF vars, memory, Becomes, Like
<1>10. CASE Next
    BY <1>4, <1>5, <1>6, <1>7, <1>8, <1>10 DEF Next, RestStep
<1> QED BY <1>9, <1>10

(* Status, registration and ticks change in one place at a time.                *)
StatusMoves == status' = status \/ \E a : \E v \in Status \ {"unborn"} : status' = [status EXCEPT ![a] = v]

LEMMA StatusStep == ASSUME [Next]_vars PROVE StatusMoves
<1> USE DEF Status
<1>1. ASSUME NEW c \in Call, LoginStep(c) \/ CallStep(c) \/ CallRejected(c) PROVE StatusMoves
  <2>1. CASE \/ LoginFinds(c) \/ LoginLaunches(c) \/ LoginWaits(c) \/ LoginEnds(c) \/ LoginThrows(c) \/ LoginTimer(c)
             \/ LogoutCloses(c) \/ StatusFinds(c) \/ CancelStops(c) \/ CancelDeletes(c) \/ CallRejected(c)
    BY <2>1 DEF LoginFinds, LoginLaunches, LoginWaits, LoginEnds, LoginThrows, LoginTimer, LogoutCloses, StatusFinds,
                CancelStops, CancelDeletes, CallRejected, rowVars, StatusMoves
  <2>2. CASE LoginMarks(c) \/ LoginSaves(c) \/ LoginTimesOut(c) \/ LoginFailed(c) \/ LoggedOut(c)
    BY <2>2 DEF LoginMarks, LoginSaves, LoginTimesOut, LoginFailed, LoggedOut, StatusMoves
  <2> QED BY <1>1, <2>1, <2>2 DEF LoginStep, CallStep
<1>2. ASSUME NEW a \in Account, RegistrationCreates(a) \/ RegistrationStep(a) \/ RegistrationRejected(a)
      PROVE  StatusMoves
    BY <1>2 DEF RegistrationCreates, RegistrationStep, RegistrationRejected, RegistrationMarks, RegistrationLaunches,
                RegistrationOpens, RegistrationPrefills, RegistrationWatches, RegistrationThrows, RegistrationFailed, rowVars, StatusMoves
<1>3. ASSUME NEW a \in Account, NEW k \in Tick, TickStep(a, k) PROVE StatusMoves
    BY <1>3 DEF TickStep, TickLooks, TickFindsClosed, TickSaves, TickMarksFailed, TickStops, TickRejected, rowVars, StatusMoves
<1>4. CASE Next
    BY <1>1, <1>2, <1>3, <1>4 DEF Next, Asks, GetsThrough, BrowserExits, ThirtyMinutes, Crash, rowVars, StatusMoves
<1> QED BY <1>4 DEF vars, rowVars, StatusMoves

LEMMA NeverUnborn ==
    ASSUME status \in [Account -> Status], [Next]_vars
    PROVE  /\ status' \in [Account -> Status]
           /\ \A a \in Account : status[a] # "unborn" => status'[a] # "unborn"
BY StatusStep DEF StatusMoves

(* The watchers, the browsers and the cookies: what each step adds.              *)
LEMMA CallFrame ==
    ASSUME CallsOK, NEW c \in Call, LoginStep(c) \/ CallStep(c) \/ CallRejected(c)
    PROVE  /\ UNCHANGED <<reg, tick, cookie>> /\ watcher' \subseteq watcher
           /\ browser' \subseteq browser \cup {call[c].acct} /\ call[c].acct \in Account
           /\ in' \subseteq in \cup {call[c].acct} /\ deleted' \subseteq deleted \cup {call[c].acct}
           /\ guard' \subseteq guard \cup {call[c].acct} /\ faults' \in {faults, faults + 1}
           /\ deleted' = deleted \/ CancelDeletes(c)
           /\ early \subseteq early' /\ raced \subseteq raced'
<1>1. call[c].acct \in Account
    BY DEF CallsOK, Proper, LoginStep, CallStep, CallRejected, LoginFinds, LoginMarks, LoginLaunches, LoginWaits,
           LoginSaves, LoginEnds, LoginTimesOut, LoginThrows, LoginFailed, LoginTimer, LogoutCloses, StatusFinds,
           LoggedOut, CancelStops, CancelDeletes, LoginPc
<1>2. CASE \/ LoginFinds(c) \/ LoginLaunches(c) \/ LoginWaits(c) \/ LoginEnds(c) \/ LoginThrows(c) \/ LoginTimer(c)
           \/ LogoutCloses(c) \/ StatusFinds(c) \/ CancelStops(c) \/ CancelDeletes(c) \/ CallRejected(c)
    BY <1>1, <1>2 DEF LoginFinds, LoginLaunches, LoginWaits, LoginEnds, LoginThrows, LoginTimer, LogoutCloses, StatusFinds,
                      CancelStops, CancelDeletes, CallRejected, WatcherStopped, GuardLeft, Faulty, rowVars, world, history
<1>3. CASE LoginMarks(c) \/ LoginSaves(c) \/ LoginTimesOut(c) \/ LoginFailed(c) \/ LoggedOut(c)
    BY <1>1, <1>3 DEF LoginMarks, LoginSaves, LoginTimesOut, LoginFailed, LoggedOut, GuardLeft, Faulty, world, history
<1> QED BY <1>2, <1>3 DEF LoginStep, CallStep

(* Everything else deletes nothing, and the history only grows.                 *)
LEMMA RestFrame ==
    ASSUME RestStep
    PROVE  deleted' = deleted /\ early' = early /\ raced \subseteq raced' /\ cookie \subseteq cookie'
<1>1. PICK a \in Account :
        \/ RegistrationCreates(a) \/ RegistrationStep(a) \/ RegistrationRejected(a)
        \/ \E k \in Tick : TickStep(a, k)
        \/ GetsThrough(a) \/ BrowserExits(a) \/ ThirtyMinutes(a)
    BY DEF RestStep
<1>2. CASE RegistrationCreates(a) \/ RegistrationStep(a) \/ RegistrationRejected(a)
    BY <1>2 DEF RegistrationCreates, RegistrationStep, RegistrationRejected, RegistrationMarks, RegistrationLaunches,
                RegistrationOpens, RegistrationPrefills, RegistrationWatches, RegistrationThrows, RegistrationFailed, rowVars, world, history
<1>3. CASE \E k \in Tick : TickStep(a, k)
    BY <1>3 DEF TickStep, TickLooks, TickFindsClosed, TickSaves, TickMarksFailed, TickStops, TickRejected,
                rowVars, world, history
<1>4. CASE GetsThrough(a) \/ BrowserExits(a) \/ ThirtyMinutes(a)
    BY <1>4 DEF GetsThrough, BrowserExits, ThirtyMinutes, rowVars, history
<1> QED BY <1>1, <1>2, <1>3, <1>4

LEMMA HistoryGrows ==
    ASSUME CallsOK, [Next]_vars
    PROVE  /\ early \subseteq early' /\ raced \subseteq raced' /\ cookie \subseteq cookie'
           /\ deleted' = deleted \/ \E c \in Call : CancelDeletes(c)
BY CallFrame, RestFrame DEF Next, RestStep, Asks, Crash, vars, rowVars, world, history

LEMMA TypeStep == ASSUME TypeOK, [Next]_vars PROVE TypeOK'
<1>1. CallsOK' /\ status' \in [Account -> Status]
    BY CallsStep, NeverUnborn DEF TypeOK
<1> DEFINE Rest == /\ TicksOK /\ RegsOK
                   /\ in \subseteq Account /\ deleted \subseteq Account
                   /\ guard \subseteq Account /\ watcher \subseteq Account
                   /\ browser \subseteq Account /\ cookie \subseteq Account
                   /\ faults \in Nat
<1>4. ASSUME NEW c \in Call, LoginStep(c) \/ CallStep(c) \/ CallRejected(c) PROVE Rest'
    BY <1>4, CallFrame DEF TypeOK, TicksOK, RegsOK
<1>5. ASSUME NEW a \in Account, RegistrationCreates(a) \/ RegistrationStep(a) \/ RegistrationRejected(a) PROVE Rest'
    BY <1>5 DEF RegistrationCreates, RegistrationStep, RegistrationRejected, RegistrationMarks, RegistrationLaunches,
                RegistrationOpens, RegistrationPrefills, RegistrationWatches, RegistrationThrows, RegistrationFailed, Faulty, TypeOK, TicksOK, RegsOK, rowVars, world
<1>6. ASSUME NEW a \in Account, NEW k \in Tick, TickStep(a, k) PROVE Rest'
  <2>1. PICK v \in {"none", "closed", "save", "fail", "stop"} : TickTo(a, k, v)
    <3>1. CASE TickLooks(a, k)
      <4>1. CASE a \notin browser
        BY <3>1, <4>1 DEF TickLooks
      <4>2. CASE a \in browser \cap cookie
        BY <3>1, <4>2 DEF TickLooks
      <4>3. CASE a \in browser \ cookie
        BY <3>1, <4>3 DEF TickLooks
      <4> QED BY <4>1, <4>2, <4>3
    <3>2. CASE TickFindsClosed(a, k) \/ TickSaves(a, k) \/ TickMarksFailed(a, k) \/ TickStops(a, k) \/ TickRejected(a, k)
      BY <3>2 DEF TickFindsClosed, TickSaves, TickMarksFailed, TickStops, TickRejected
    <3> QED BY <1>6, <3>1, <3>2 DEF TickStep
  <2>2. TicksOK'
    BY <2>1 DEF TickTo, TypeOK, TicksOK
  <2>3. /\ reg' = reg /\ in' \subseteq in \cup {a} /\ deleted' = deleted /\ watcher' \subseteq watcher
        /\ browser' = browser /\ cookie' = cookie /\ guard' = guard /\ faults' \in {faults, faults + 1}
    BY <1>6 DEF TickStep, TickLooks, TickFindsClosed, TickSaves, TickMarksFailed, TickStops, TickRejected, WatcherStopped,
                Faulty, rowVars, world
  <2> QED BY <2>2, <2>3 DEF TypeOK, RegsOK
<1>7. ASSUME Crash PROVE Rest'
    BY <1>7 DEF Crash, Faulty, TypeOK, TicksOK, RegsOK, rowVars
<1>8. ASSUME NEW a \in Account, GetsThrough(a) \/ BrowserExits(a) \/ ThirtyMinutes(a) PROVE Rest'
    BY <1>8 DEF GetsThrough, BrowserExits, ThirtyMinutes, TypeOK, TicksOK, RegsOK, rowVars, memory
<1>9. ASSUME NEW c, NEW op, NEW a, Asks(c, op, a) PROVE Rest'
    BY <1>9 DEF Asks, TypeOK, TicksOK, RegsOK, rowVars, world
<1>10. ASSUME UNCHANGED vars PROVE Rest'
    BY <1>10 DEF vars, rowVars, memory, world, TypeOK, TicksOK, RegsOK
<1>11. Rest'
    BY <1>4, <1>5, <1>6, <1>7, <1>8, <1>9, <1>10 DEF Next
<1> QED BY <1>1, <1>11 DEF TypeOK

(* The columns, the set, the requests, the registrations and the ticks keep their *)
(* types, and every request under way has an account: all the operations of the  *)
(* two services.                                                              *)
THEOREM LoginsTypeCorrect == Spec => []TypeOK
<1>1. Init => TypeOK
    BY NoneProper DEF Init, TypeOK, CallsOK, TicksOK, RegsOK, Proper, Status
<1>2. TypeOK /\ [Next]_vars => TypeOK'
    BY TypeStep
<1> QED BY <1>1, <1>2, PTL DEF Spec
-----------------------------------------------------------------------------
(* Cancelled registrations *)

Cancelled(a) ==
    a \in deleted \/ \E c \in Call : call[c].op = "cancel" /\ call[c].pc = "delete" /\ call[c].acct = a

(* Whatever a request was made for has been created, so no registration begins    *)
(* for it again; and what was cancelled early enough has neither a watcher nor a  *)
(* registration that would start one.                                          *)
Quiet(a) ==
    /\ Cancelled(a) \/ (\E c \in Call : call[c].acct = a) => status[a] # "unborn"
    /\ Cancelled(a) /\ a \notin early => a \notin watcher /\ reg[a] = "none"

AllQuiet == \A a \in Account : Quiet(a)

(* What is cancelled was so before, or is just having its watcher stopped.        *)
LEMMA CancelledBefore ==
    ASSUME TypeOK, [Next]_vars, NEW a \in Account, Cancelled(a)'
    PROVE  Cancelled(a) \/ \E c \in Call : CancelStops(c) /\ call[c].acct = a /\ a \notin deleted
<1>1. ASSUME NEW c \in Call, call'[c].op = "cancel", call'[c].pc = "delete", call'[c].acct = a
      PROVE  \/ call[c].op = "cancel" /\ call[c].pc = "delete" /\ call[c].acct = a
             \/ CancelStops(c) /\ call[c].acct = a /\ a \notin deleted
  <2>1. Becomes(c)
    BY RequestsBecome DEF TypeOK
  <2>2. CASE Like(call'[c], call[c])
    BY <1>1, <2>2 DEF Like
  <2>3. CASE CancelStops(c) /\ call'[c].acct = call[c].acct
    <3>1. call[c].acct = a
      BY <1>1, <2>3
    <3>2. a \in deleted => call'[c] = Ended
      BY <2>3, <3>1 DEF CancelStops, TypeOK, CallsOK
    <3> QED BY <1>1, <2>3, <3>1, <3>2 DEF Ended, NoCall
  <2> QED BY <1>1, <2>1, <2>2, <2>3 DEF Becomes, Ended, NoCall
<1>2. ASSUME a \in deleted', a \notin deleted PROVE Cancelled(a)
  <2>1. PICK c \in Call : CancelDeletes(c)
    BY <1>2, HistoryGrows DEF TypeOK
  <2> QED BY <1>2, <2>1 DEF CancelDeletes, Cancelled
<1> QED BY <1>1, <1>2 DEF Cancelled

(* A watcher starts only at the end of a registration, a registration only for an *)
(* account that is created with it.                                            *)
LEMMA WatchersBefore ==
    ASSUME TypeOK, [Next]_vars, NEW a \in Account, status[a] # "unborn"
    PROVE  /\ a \in watcher' => a \in watcher \/ reg[a] # "none"
           /\ reg'[a] # "none" => reg[a] # "none"
           /\ early \subseteq early'
<1>1. ASSUME NEW c \in Call, LoginStep(c) \/ CallStep(c) \/ CallRejected(c)
      PROVE  watcher' \subseteq watcher /\ reg' = reg
    BY <1>1, CallFrame DEF TypeOK
<1>2. ASSUME NEW b \in Account, RegistrationCreates(b) \/ RegistrationStep(b) \/ RegistrationRejected(b)
      PROVE  /\ a \in watcher' => a \in watcher \/ reg[a] # "none"
             /\ reg'[a] # "none" => reg[a] # "none"
    BY <1>2 DEF RegistrationCreates, RegistrationStep, RegistrationRejected, RegistrationMarks, RegistrationLaunches,
                RegistrationOpens, RegistrationPrefills, RegistrationWatches, RegistrationThrows, RegistrationFailed, TypeOK, RegsOK
<1>3. ASSUME NEW b \in Account, NEW k \in Tick, TickStep(b, k) PROVE watcher' \subseteq watcher /\ reg' = reg
    BY <1>3 DEF TickStep, TickLooks, TickFindsClosed, TickSaves, TickMarksFailed, TickStops, TickRejected, WatcherStopped
<1>4. ASSUME NEW b \in Account, GetsThrough(b) \/ BrowserExits(b) \/ ThirtyMinutes(b)
      PROVE  watcher' \subseteq watcher /\ reg' = reg
    BY <1>4 DEF GetsThrough, BrowserExits, ThirtyMinutes, memory
<1>5. ASSUME Crash PROVE watcher' = {} /\ reg'[a] = "none"
    BY <1>5 DEF Crash
<1>6. /\ a \in watcher' => a \in watcher \/ reg[a] # "none"
      /\ reg'[a] # "none" => reg[a] # "none"
    BY <1>1, <1>2, <1>3, <1>4, <1>5 DEF Next, Asks, vars, memory
<1>7. early \subseteq early'
    BY HistoryGrows DEF TypeOK
<1> QED BY <1>6, <1>7

LEMMA QuietStep == ASSUME TypeOK, AllQuiet, [Next]_vars PROVE AllQuiet'
<1> SUFFICES ASSUME NEW a \in Account PROVE Quiet(a)'
    BY DEF AllQuiet
<1>1. Quiet(a) /\ (status[a] # "unborn" => status'[a] # "unborn")
    BY NeverUnborn DEF AllQuiet, TypeOK
<1>2. ASSUME NEW c \in Call, call'[c].acct = a PROVE status[a] # "unborn"
  <2>1. Becomes(c)
    BY RequestsBecome DEF TypeOK
  <2>2. Ended.acct # a
    BY LoginsAssumption DEF Ended, NoCall
  <2>3. CASE call'[c].acct = call[c].acct
    BY <1>1, <1>2, <2>3 DEF Quiet
  <2> QED BY <1>2, <2>1, <2>2, <2>3 DEF Becomes, Like
<1>3. ASSUME Cancelled(a)' PROVE status[a] # "unborn"
    BY <1>1, <1>3, CancelledBefore DEF Quiet
<1>4. ASSUME Cancelled(a)', a \notin early' PROVE a \notin watcher' /\ reg'[a] = "none"
  <2>1. early \subseteq early' /\ status[a] # "unborn"
    BY <1>3, <1>4, WatchersBefore
  <2>2. CASE Cancelled(a)
    BY <1>1, <1>4, <2>1, <2>2, WatchersBefore DEF Quiet
  <2>3. ASSUME NEW c \in Call, CancelStops(c), call[c].acct = a, a \notin deleted
        PROVE  a \notin watcher' /\ reg'[a] = "none"
    BY <1>4, <2>3 DEF CancelStops, WatcherStopped
  <2> QED BY <1>4, <2>2, <2>3, CancelledBefore
<1> QED BY <1>1, <1>2, <1>3, <1>4 DEF Quiet, Cancelled

(* Once a registration is cancelled nobody watches it, unless it was cancelled    *)
(* before its watcher had started: cancelRegistration beside the ticks, the       *)
(* registration that is still launching, other requests and crashes.             *)
THEOREM CancelledStaysQuiet == Spec => []CancelledIsQuiet
<1>1. Init => AllQuiet
    BY LoginsAssumption DEF Init, AllQuiet, Quiet, Cancelled, NoCall
<1>2. TypeOK /\ AllQuiet /\ [Next]_vars => AllQuiet'
    BY QuietStep
<1>3. TypeOK /\ AllQuiet => CancelledIsQuiet
    BY DEF TypeOK, AllQuiet, Quiet, Cancelled, CancelledIsQuiet
<1> QED BY <1>1, <1>2, <1>3, LoginsTypeCorrect, PTL DEF Spec
-----------------------------------------------------------------------------
(* Successes *)

(* Whoever is logged in, or is about to be written so, has the cookie, which       *)
(* never goes; so no tick finds that the time is up.  And unless a failure was on *)
(* its way when the success was written, none is now: the registration has ended,  *)
(* and a tick that finds the browser closed finds a status that is not registering. *)
Columns(a) ==
    /\ a \in in => a \in cookie /\ status[a] # "unborn"
    /\ \A k \in Tick : tick[a][k] = "save" => a \in cookie
    /\ a \in in \ raced =>
        /\ status[a] \notin {"registering", "registration_failed"} /\ reg[a] = "none"
        /\ \A k \in Tick : tick[a][k] # "fail"

Saved(a) ==
    /\ Columns(a)
    /\ \A c \in Call : call[c].pc = "save" /\ call[c].acct = a => a \in cookie

AllSaved == \A a \in Account : Saved(a)

LEMMA SavedStep == ASSUME TypeOK, AllSaved, [Next]_vars PROVE AllSaved'
<1> SUFFICES ASSUME NEW a \in Account PROVE Saved(a)'
    BY DEF AllSaved
<1>1. /\ Saved(a) /\ (status[a] # "unborn" => status'[a] # "unborn")
      /\ raced \subseteq raced' /\ cookie \subseteq cookie'
    BY NeverUnborn, HistoryGrows DEF AllSaved, TypeOK
<1>2. \A c \in Call : call'[c].pc = "save" /\ call'[c].acct = a => a \in cookie'
  <2> SUFFICES ASSUME NEW c \in Call, call'[c].pc = "save", call'[c].acct = a PROVE a \in cookie
    BY <1>1
  <2>1. Becomes(c)
    BY RequestsBecome DEF TypeOK
  <2>2. CASE CancelStops(c)
    <3>1. call'[c] = Ended \/ call'[c].pc = "delete"
      <4>1. CASE call[c].acct \in deleted
        BY <2>2, <4>1 DEF CancelStops, TypeOK, CallsOK
      <4>2. CASE call[c].acct \notin deleted
        <5>1. WithoutPages(call[c].acct, call) \in [Call -> CallState]
          BY LostPages DEF TypeOK
        <5>2. call'[c] = [WithoutPages(call[c].acct, call)[c] EXCEPT !.pc = "delete"]
          BY <2>2, <4>2, <5>1 DEF CancelStops
        <5> QED BY <5>1, <5>2 DEF CallState
      <4> QED BY <4>1, <4>2
    <3> QED BY <3>1 DEF Ended, NoCall
  <2> QED BY <1>1, <2>1, <2>2 DEF Becomes, Like, Saved, Ended, NoCall
<1>3. ASSUME UNCHANGED <<in, status, tick, reg>> PROVE Columns(a)'
    BY <1>1, <1>3 DEF Saved, Columns
<1>4. ASSUME NEW c \in Call, LoginStep(c) \/ CallStep(c) \/ CallRejected(c) PROVE Columns(a)'
  <2>1. UNCHANGED <<reg, tick, cookie>>
    BY <1>4, CallFrame DEF TypeOK
  <2>2. CASE LoginSaves(c) /\ call[c].acct = a
    <3>1. a \in cookie /\ status'[a] = "active" /\ (a \notin raced' => ~FailurePending(a))
      BY <1>1, <2>2 DEF LoginSaves, Saved, TypeOK
    <3> QED BY <1>1, <2>1, <3>1 DEF Columns, Saved, FailurePending
  <2>3. CASE ~(LoginSaves(c) /\ call[c].acct = a)
    <3>1. (a \in in' => a \in in) /\ status'[a] \in {status[a], "idle", "active", "error"}
      <4>1. CASE \/ LoginFinds(c) \/ LoginLaunches(c) \/ LoginWaits(c) \/ LoginEnds(c) \/ LoginThrows(c) \/ LoginTimer(c)
                 \/ LogoutCloses(c) \/ StatusFinds(c) \/ CancelStops(c) \/ CancelDeletes(c) \/ CallRejected(c)
        BY <4>1 DEF LoginFinds, LoginLaunches, LoginWaits, LoginEnds, LoginThrows, LoginTimer, LogoutCloses, StatusFinds,
                    CancelStops, CancelDeletes, CallRejected, rowVars
      <4>2. CASE LoginMarks(c) \/ LoginTimesOut(c) \/ LoginFailed(c) \/ LoggedOut(c)
        BY <4>2 DEF LoginMarks, LoginTimesOut, LoginFailed, LoggedOut, TypeOK
      <4>3. CASE LoginSaves(c)
        BY <2>3, <4>3 DEF LoginSaves, TypeOK
      <4> QED BY <1>4, <4>1, <4>2, <4>3 DEF LoginStep, CallStep
    <3> QED BY <1>1, <2>1, <3>1 DEF Columns, Saved
  <2> QED BY <2>2, <2>3
<1>5. ASSUME NEW b \in Account, RegistrationCreates(b) \/ RegistrationStep(b) \/ RegistrationRejected(b)
      PROVE  Columns(a)'
  <2>1. /\ UNCHANGED <<in, tick, cookie>>
        /\ b # a => status'[a] = status[a] /\ reg'[a] = reg[a]
        /\ status[b] = "unborn" \/ reg[b] # "none"
    BY <1>5 DEF RegistrationCreates, RegistrationStep, RegistrationRejected, RegistrationMarks, RegistrationLaunches,
                RegistrationOpens, RegistrationPrefills, RegistrationWatches, RegistrationThrows, RegistrationFailed, TypeOK, RegsOK, rowVars, world
  <2> QED BY <1>1, <2>1 DEF Columns, Saved
<1>6. ASSUME NEW b \in Account, NEW k \in Tick, TickStep(b, k) PROVE Columns(a)'
  <2>1. UNCHANGED <<reg, cookie>>
    BY <1>6 DEF TickStep, TickLooks, TickFindsClosed, TickSaves, TickMarksFailed, TickStops, TickRejected, world
  <2>2. CASE b # a
    <3>1. tick'[a] = tick[a] /\ status'[a] = status[a] /\ (a \in in' <=> a \in in)
      BY <1>6, <2>2 DEF TickStep, TickLooks, TickFindsClosed, TickSaves, TickMarksFailed, TickStops, TickRejected,
                        TickTo, TypeOK, TicksOK, rowVars
    <3> QED BY <1>1, <2>1, <3>1 DEF Columns, Saved
  <2>3. CASE b = a
    <3>1. ASSUME NEW v, TickTo(a, k, v) PROVE \A j \in Tick : tick'[a][j] = IF j = k THEN v ELSE tick[a][j]
      BY <3>1 DEF TickTo, TypeOK, TicksOK
    <3>2. CASE TickLooks(a, k)
      <4>1. UNCHANGED <<in, status>>
        BY <3>2 DEF TickLooks, rowVars
      <4>2. PICK v : TickTo(a, k, v) /\ (v = "save" => a \in cookie) /\ (v = "fail" => a \notin cookie)
        <5>1. CASE a \notin browser
          BY <3>2, <5>1 DEF TickLooks
        <5>2. CASE a \in browser \cap cookie
          BY <3>2, <5>2 DEF TickLooks
        <5>3. CASE a \in browser \ cookie
          BY <3>2, <5>3 DEF TickLooks
        <5> QED BY <5>1, <5>2, <5>3
      <4> QED BY <1>1, <2>1, <3>1, <4>1, <4>2 DEF Columns, Saved
    <3>3. CASE TickFindsClosed(a, k)
      <4>1. UNCHANGED <<in, status>>
        BY <3>3 DEF TickFindsClosed, rowVars
      <4>2. PICK v : TickTo(a, k, v) /\ v # "save" /\ (v = "fail" => status[a] = "registering")
        BY <3>3 DEF TickFindsClosed, StillRegistering
      <4> QED BY <1>1, <2>1, <3>1, <4>1, <4>2 DEF Columns, Saved
    <3>4. CASE TickSaves(a, k)
      <4>1. tick[a][k] = "save" /\ TickTo(a, k, "stop") /\ status'[a] = "idle" /\ (a \notin raced' => ~FailurePending(a))
        BY <3>4 DEF TickSaves, TypeOK
      <4> QED BY <1>1, <2>1, <3>1, <4>1 DEF Columns, Saved, FailurePending
    <3>5. CASE TickMarksFailed(a, k)
      <4>1. tick[a][k] = "fail" /\ TickTo(a, k, "stop") /\ in' = in
        BY <3>5 DEF TickMarksFailed
      <4> QED BY <1>1, <2>1, <3>1, <4>1 DEF Columns, Saved
    <3>6. CASE TickStops(a, k) \/ TickRejected(a, k)
      <4>1. UNCHANGED <<in, status>> /\ TickTo(a, k, "none")
        BY <3>6 DEF TickStops, TickRejected, rowVars
      <4> QED BY <1>1, <2>1, <3>1, <4>1 DEF Columns, Saved
    <3> QED BY <1>6, <2>3, <3>2, <3>3, <3>4, <3>5, <3>6 DEF TickStep
  <2> QED BY <2>2, <2>3
<1>7. ASSUME Crash PROVE Columns(a)'
  <2>1. UNCHANGED <<in, status>> /\ reg'[a] = "none" /\ \A k \in Tick : tick'[a][k] = "none"
    BY <1>7 DEF Crash, rowVars
  <2> QED BY <1>1, <2>1 DEF Columns, Saved
<1>8. Columns(a)'
    BY <1>3, <1>4, <1>5, <1>6, <1>7
       DEF Next, Asks, GetsThrough, BrowserExits, ThirtyMinutes, vars, rowVars, memory
<1> QED BY <1>2, <1>8 DEF Saved

(* A registration that succeeded is not marked failed, unless the failure was on   *)
(* its way when the success was written: saveRegistrationSuccess and the logins    *)
(* beside markFailed, handleBrowserClosedBeforeSuccess and the 30 minutes.        *)
THEOREM SuccessIsKept == Spec => []SuccessKept
<1>1. Init => AllSaved
    BY DEF Init, AllSaved, Saved, Columns, NoCall
<1>2. TypeOK /\ AllSaved /\ [Next]_vars => AllSaved'
    BY SavedStep
<1>3. TypeOK /\ AllSaved => SuccessKept
    BY DEF TypeOK, AllSaved, Saved, Columns, SuccessKept
<1> QED BY <1>1, <1>2, <1>3, LoginsTypeCorrect, PTL DEF Spec
-----------------------------------------------------------------------------
(* The lists of the console (Pages).                                          *)
ServerChange == [of: View \cup {NoView}, by: {"me", "other", "result"}]

PageChange == [of: View \cup {NoView}, by: {"me", "other", "result", "guess"}]

ListRow == [of: View \cup {NoView}, has: SUBSET PageChange, answered: BOOLEAN, late: BOOLEAN]

ShownRow == [of: View \cup {NoView}, has: SUBSET PageChange,
             why: {"fresh", "late", "elsewhere", "failed", "cleared"}]

ClickRow == [op: {"none"} \cup P!Buttons,
             at: {"idle", "sent", "forwarded", "served", "refused", "waits", "over"},
             view: View \cup {NoView}, target: View \cup {NoView}]

PageOK ==
    /\ view \in View
    /\ rows \in SUBSET ServerChange /\ known \subseteq rows
    /\ shown \in ShownRow /\ lists \in Seq(ListRow)
    /\ click \in ClickRow
    /\ click.at # "idle" => click.target \in View
    /\ click.at = "served" => P!Mine(click.target) \in rows
    /\ click.at = "over" => P!Result(click.target) \in rows
    /\ P!Guess(First) \in claims => P!Mine(First) \in rows
    /\ page = "login" => lists = <<>> /\ click = P!NoHandler

(* What a list of the view chosen has to have                                  *)
Agrees(has) == {c \in known \ untold : c.of = view} \subseteq has /\ has \subseteq rows

Shows(has) == {c \in known \ untold : c.of = view} \subseteq has /\ has \subseteq rows \cup claims

(* Whatever arrives before it, the list asked for last decides what is shown:    *)
(* if it arrives in time, the others make it late or come before.  So it is the  *)
(* list asked for last that agrees with the server, once answered, and when no    *)
(* list is under way the one on the screen does.                              *)
LastAgrees ==
    LET l == lists[Len(lists)]
    IN  lists # <<>> /\ l.answered /\ ~l.late /\ l.of = view => Agrees(l.has)

RestAgrees ==
    page # "login" /\ lists = <<>> /\ shown.why = "fresh" => shown.of = view /\ Shows(shown.has)

PagesInv == PageOK /\ LastAgrees /\ RestAgrees
-----------------------------------------------------------------------------
(* A list asked for comes last and has no answer.                             *)
LEMMA AsksLast ==
    ASSUME lists \in Seq(ListRow), NEW v \in View \cup {NoView}, lists' = Append(lists, P!Asked(v))
    PROVE  lists' \in Seq(ListRow) /\ LastAgrees' /\ RestAgrees'
<1>1. P!Asked(v) \in ListRow /\ ~P!Asked(v).answered
    BY DEF P!Asked, ListRow
<1>2. /\ lists' \in Seq(ListRow) /\ lists' # <<>>
      /\ lists'[Len(lists')] = P!Asked(v)
    BY <1>1
<1> QED BY <1>1, <1>2 DEF LastAgrees, RestAgrees

LEMMA LastIs ==
    ASSUME lists \in Seq(ListRow), lists # <<>>
    PROVE  Len(lists) \in DOMAIN lists /\ lists[Len(lists)] \in ListRow
OBVIOUS

(* The list that was last stays last, unless it is the one taken away: then the   *)
(* one before it is late.                                                     *)
LEMMA RestLast ==
    ASSUME lists \in Seq(ListRow), NEW i \in DOMAIN lists, lists' = P!Rest(i)
    PROVE  /\ lists' \in Seq(ListRow) /\ Len(lists') = Len(lists) - 1
           /\ lists' # <<>> => IF i = Len(lists) THEN lists'[Len(lists')].late
                               ELSE lists'[Len(lists')] = lists[Len(lists)]
<1> DEFINE s == [j \in DOMAIN lists |-> IF j < i THEN [lists[j] EXCEPT !.late = TRUE] ELSE lists[j]]
<1>1. /\ DOMAIN lists = 1..Len(lists) /\ Len(lists) \in Nat /\ i \in 1..Len(lists)
      /\ \A j \in 1..Len(lists) : lists[j] \in ListRow
    OBVIOUS
<1>2. \A j \in 1..Len(lists) : [lists[j] EXCEPT !.late = TRUE] \in ListRow /\ [lists[j] EXCEPT !.late = TRUE].late
    BY <1>1 DEF ListRow
<1>3. /\ s \in Seq(ListRow) /\ Len(s) = Len(lists)
      /\ \A j \in 1..Len(lists) : j < i => s[j].late
      /\ \A j \in 1..Len(lists) : j >= i => s[j] = lists[j]
  <2>1. s = [j \in 1..Len(lists) |-> IF j < i THEN [lists[j] EXCEPT !.late = TRUE] ELSE lists[j]]
    BY <1>1
  <2> HIDE DEF s
  <2>2. \A j \in 1..Len(lists) : s[j] = IF j < i THEN [lists[j] EXCEPT !.late = TRUE] ELSE lists[j]
    BY <2>1
  <2>3. s \in [1..Len(lists) -> ListRow]
    BY <1>1, <1>2, <2>1
  <2>4. s \in Seq(ListRow) /\ Len(s) = Len(lists)
    BY <1>1, <2>3
  <2>5. \A j \in 1..Len(lists) : j >= i => ~(j < i)
    BY <1>1
  <2> QED BY <1>2, <2>2, <2>4, <2>5
<1>4. lists' = SubSeq(s, 1, i - 1) \o SubSeq(s, i + 1, Len(s))
    BY DEF P!Rest, P!RemoveAt
<1> HIDE DEF s
<1> DEFINE a == SubSeq(s, 1, i - 1)
           b == SubSeq(s, i + 1, Len(s))
<1>5. /\ a \in Seq(ListRow) /\ Len(a) = i - 1
      /\ \A j \in 1..(i - 1) : a[j] = s[j]
    BY <1>1, <1>3, SubSeqProperties
<1>6. /\ b \in Seq(ListRow) /\ Len(b) = Len(s) - i
      /\ \A j \in 1..(Len(s) - i) : b[j] = s[i + j]
    BY <1>1, <1>3, SubSeqProperties
<1>7. lists' = a \o b
    BY <1>4
<1> HIDE DEF a, b
<1>8. /\ lists' \in Seq(ListRow) /\ Len(lists') = Len(a) + Len(b)
      /\ \A j \in 1..(Len(a) + Len(b)) : lists'[j] = IF j <= Len(a) THEN a[j] ELSE b[j - Len(a)]
  <2>1. /\ a \o b \in Seq(ListRow) /\ Len(a \o b) = Len(a) + Len(b)
        /\ \A j \in 1..(Len(a) + Len(b)) : (a \o b)[j] = IF j <= Len(a) THEN a[j] ELSE b[j - Len(a)]
    BY <1>5, <1>6, ConcatProperties
  <2> QED BY <1>7, <2>1
<1>9. Len(lists') = Len(lists) - 1
    BY <1>1, <1>3, <1>5, <1>6, <1>8
<1>10. lists' # <<>> => Len(lists') \in Nat \ {0}
    BY <1>8, EmptySeq
<1>11. ASSUME lists' # <<>>, i = Len(lists) PROVE lists'[Len(lists')].late
  <2>1. Len(lists') \in 1..(i - 1) /\ Len(a) = Len(lists')
    BY <1>1, <1>5, <1>9, <1>11, <1>10
  <2> QED BY <1>1, <1>3, <1>5, <1>6, <1>8, <1>9, <1>11, <2>1
<1>12. ASSUME lists' # <<>>, i # Len(lists) PROVE lists'[Len(lists')] = lists[Len(lists)]
  <2>1. Len(lists') > Len(a) /\ Len(lists') - Len(a) = Len(s) - i /\ Len(s) - i \in 1..(Len(s) - i)
    BY <1>1, <1>3, <1>5, <1>9, <1>12
  <2>2. lists'[Len(lists')] = b[Len(s) - i]
    <3>1. Len(lists') = Len(a) + Len(b) /\ Len(lists') \in Nat \ {0} /\ Len(a) \in Nat
      BY <1>1, <1>5, <1>8, <1>12, <1>10
    <3>2. Len(lists') \in 1..(Len(a) + Len(b)) /\ ~(Len(lists') <= Len(a))
      BY <2>1, <3>1
    <3> QED BY <1>8, <2>1, <3>2
  <2> QED BY <1>1, <1>3, <1>6, <2>1, <2>2
<1> QED BY <1>8, <1>9, <1>11, <1>12

(* Late or not, the lists asked for stay in their order.                       *)
LEMMA OvertakenLast ==
    ASSUME lists \in Seq(ListRow), lists' = P!Overtaken
    PROVE  /\ lists' \in Seq(ListRow) /\ Len(lists') = Len(lists)
           /\ lists # <<>> =>
                LET l == lists[Len(lists)]
                IN  IF l.answered /\ P!Mine(click.target) \notin l.has THEN lists'[Len(lists')].late
                    ELSE lists'[Len(lists')] = l
<1>1. /\ DOMAIN lists = 1..Len(lists) /\ Len(lists) \in Nat
      /\ \A j \in 1..Len(lists) : lists[j] \in ListRow
    OBVIOUS
<1>2. \A j \in 1..Len(lists) : [lists[j] EXCEPT !.late = TRUE] \in ListRow /\ [lists[j] EXCEPT !.late = TRUE].late
    BY <1>1 DEF ListRow
<1>3. lists' = [j \in 1..Len(lists) |-> IF lists[j].answered /\ P!Mine(click.target) \notin lists[j].has
                                        THEN [lists[j] EXCEPT !.late = TRUE] ELSE lists[j]]
    BY <1>1 DEF P!Overtaken
<1>4. lists' \in Seq(ListRow) /\ Len(lists') = Len(lists)
    BY <1>1, <1>2, <1>3
<1>5. lists # <<>> => Len(lists) \in 1..Len(lists)
    BY <1>1
<1> QED BY <1>1, <1>2, <1>3, <1>4, <1>5

LEMMA ServerListsLast ==
    ASSUME PagesInv, NEW i \in 1..MaxLists, P!ServerLists(i)
    PROVE  PagesInv'
<1> DEFINE l == [lists[i] EXCEPT !.answered = TRUE, !.has = {c \in rows : c.of = lists[i].of}]
<1>1. /\ lists \in Seq(ListRow) /\ i \in 1..Len(lists) /\ lists[i] \in ListRow
      /\ rows \in SUBSET ServerChange /\ known \subseteq rows /\ ServerChange \subseteq PageChange
  <2>1. lists \in Seq(ListRow) /\ rows \in SUBSET ServerChange /\ known \subseteq rows /\ i \in DOMAIN lists
    BY DEF P!ServerLists, PagesInv, PageOK
  <2> QED BY <2>1 DEF ServerChange, PageChange
<1>2. l \in ListRow /\ l.of = lists[i].of /\ l.has = {c \in rows : c.of = lists[i].of}
    BY <1>1 DEF ListRow
<1>3. lists' = [lists EXCEPT ![i] = l]
    BY <1>1 DEF P!ServerLists
<1> HIDE DEF l
<1>4. /\ lists' \in Seq(ListRow) /\ Len(lists') = Len(lists)
      /\ \A j \in 1..Len(lists) : lists'[j] = IF j = i THEN l ELSE lists[j]
      /\ lists # <<>> /\ lists' # <<>>
    BY <1>1, <1>2, <1>3
<1>5. UNCHANGED <<page, view, rows, known, untold, claims, shown, click>>
    BY DEF P!ServerLists
<1>6. PageOK'
    BY <1>4, <1>5 DEF PagesInv, PageOK, P!ServerLists
<1>7. LastAgrees'
  <2>1. lists'[Len(lists')] = IF Len(lists) = i THEN l ELSE lists[Len(lists)]
    BY <1>1, <1>4
  <2>2. l.of = view => Agrees(l.has)
    BY <1>1, <1>2 DEF Agrees
  <2> QED BY <1>4, <1>5, <2>1, <2>2 DEF PagesInv, LastAgrees, Agrees
<1> QED BY <1>4, <1>6, <1>7 DEF PagesInv, RestAgrees, Shows

(* What arrives, or does not, when nothing else is under way is the last list.   *)
LEMMA ListComes ==
    ASSUME PagesInv, NEW i \in 1..MaxLists, P!ListArrives(i) \/ P!ListFails(i)
    PROVE  PagesInv'
<1>1. /\ lists \in Seq(ListRow) /\ i \in 1..Len(lists) /\ i \in DOMAIN lists /\ lists[i] \in ListRow
      /\ Len(lists) \in Nat
    BY DEF P!ListArrives, P!ListFails, PagesInv, PageOK
<1>2. /\ UNCHANGED <<page, view, rows, known, untold, click>> /\ claims' \subseteq claims
      /\ lists' = P!Rest(i) /\ lists # <<>>
    BY <1>1 DEF P!ListArrives, P!ListFails
<1>3. /\ lists' \in Seq(ListRow) /\ Len(lists') = Len(lists) - 1
      /\ lists' # <<>> => IF i = Len(lists) THEN lists'[Len(lists')].late
                          ELSE lists'[Len(lists')] = lists[Len(lists)]
    BY <1>1, <1>2, RestLast
<1>4. shown' \in ShownRow
  <2>1. shown \in ShownRow /\ view \in View
    BY DEF PagesInv, PageOK
  <2>2. CASE P!ListArrives(i)
    <3>1. PICK why \in {"late", "elsewhere", "fresh"} : shown' = [of |-> lists[i].of, has |-> lists[i].has, why |-> why]
      BY <2>2 DEF P!ListArrives
    <3> QED BY <1>1, <3>1 DEF ShownRow, ListRow
  <2>3. CASE P!ListFails(i)
    BY <2>1, <2>3 DEF P!ListFails, ShownRow
  <2> QED BY <2>2, <2>3
<1>5. PageOK'
    BY <1>2, <1>3, <1>4 DEF PagesInv, PageOK
<1>6. LastAgrees'
    BY <1>2, <1>3 DEF PagesInv, LastAgrees, Agrees
<1>7. RestAgrees'
  <2> SUFFICES ASSUME lists' = <<>>, shown'.why = "fresh", page # "login"
               PROVE  shown'.of = view /\ Agrees(shown'.has)
    BY <1>2 DEF RestAgrees, Shows, Agrees
  <2>1. i = Len(lists)
    BY <1>1, <1>3
  <2>2. ~P!ListFails(i)
    BY DEF P!ListFails, PagesInv, PageOK, ShownRow
  <2>3. /\ lists[i].answered /\ ~lists[i].late /\ lists[i].of = view
        /\ shown'.of = lists[i].of /\ shown'.has = lists[i].has
    BY <2>2 DEF P!ListArrives
  <2> QED BY <1>2, <2>1, <2>3 DEF PagesInv, LastAgrees
<1> QED BY <1>5, <1>6, <1>7 DEF PagesInv

LEMMA NoHandlerOK == P!NoHandler \in ClickRow /\ P!NoHandler.at = "idle"
BY DEF P!NoHandler, ClickRow

(* A route is taken, or the token dropped.                                    *)
LEMMA PageChanges ==
    ASSUME PagesInv, P!SignedOut \/ \E p : P!Open(p) /\ p # "login"
    PROVE  PagesInv'
<1>1. /\ view' = First /\ rows' = {} /\ known' = {} /\ claims' = {} /\ shown' = P!NoList /\ click' = P!NoHandler
      /\ (page' = "login" /\ lists' = <<>>) \/ (page' # "login" /\ lists' = <<P!Asked(First)>>)
    BY DEF P!SignedOut, P!Open
<1>2. shown' \in ShownRow
    BY <1>1 DEF P!NoList, ShownRow
<1>3. P!Asked(First) \in ListRow /\ ~P!Asked(First).answered
    BY PagesAssumption DEF P!Asked, ListRow
<1>4. CASE page' = "login" /\ lists' = <<>>
    BY <1>1, <1>2, <1>4, NoHandlerOK, PagesAssumption DEF PagesInv, PageOK, LastAgrees, RestAgrees
<1>5. CASE page' # "login" /\ lists' = <<P!Asked(First)>>
  <2>1. lists' \in Seq(ListRow) /\ lists' # <<>> /\ lists'[Len(lists')] = P!Asked(First)
    BY <1>3, <1>5
  <2> QED BY <1>1, <1>2, <1>3, <1>5, <2>1, NoHandlerOK, PagesAssumption DEF PagesInv, PageOK, LastAgrees, RestAgrees
<1> QED BY <1>1, <1>4, <1>5

(* A step that touches neither what is shown nor what is under way: the server   *)
(* may have more, what its lists have it still has, and of its own changes the    *)
(* page is told of no more than those for which no list was asked.               *)
LEMMA ServerGrows ==
    ASSUME PagesInv, UNCHANGED <<page, view, claims, shown, lists>>,
           rows \subseteq rows', rows' \in SUBSET ServerChange,
           known' \subseteq rows', known' \ untold' \subseteq known \ untold,
           click' \in ClickRow, click'.at # "idle" => click'.target \in View,
           click'.at = "served" => P!Mine(click'.target) \in rows',
           click'.at = "over" => P!Result(click'.target) \in rows',
           page = "login" => click' = P!NoHandler
    PROVE  PagesInv'
<1>1. PageOK'
    BY DEF PagesInv, PageOK
<1>2. LastAgrees'
    BY DEF PagesInv, LastAgrees, Agrees
<1>3. RestAgrees'
    BY DEF PagesInv, RestAgrees, Shows
<1> QED BY <1>1, <1>2, <1>3 DEF PagesInv

LEMMA ClickSteps ==
    ASSUME PagesInv,
           \/ P!Others \/ P!Forwards \/ P!ServerServes \/ P!ServerRefuses \/ P!ImportUnseen
           \/ P!RegistrationStarts \/ P!RegistrationEnds \/ P!RegistrationUntold
           \/ \E v \in View, op \in P!Buttons : P!Click(op, v)
    PROVE  PagesInv'
<1>0. /\ rows \in SUBSET ServerChange /\ known \subseteq rows /\ click \in ClickRow /\ view \in View
      /\ page = "login" => click = P!NoHandler
      /\ click.at = "served" => P!Mine(click.target) \in rows
      /\ click.at = "over" => P!Result(click.target) \in rows
      /\ click.at # "idle" => click.target \in View
    BY DEF PagesInv, PageOK
<1>a. ASSUME NEW at \in {"served", "forwarded", "refused", "waits", "over"}, click.at # "idle",
             click' = [click EXCEPT !.at = at]
      PROVE  /\ click' \in ClickRow /\ click'.at = at /\ click'.target = click.target
             /\ click.target \in View /\ page # "login"
    BY <1>0, <1>a, NoHandlerOK DEF ClickRow
<1>1. CASE P!Others
    BY <1>0, <1>1, PagesAssumption, ServerGrows DEF P!Others, ServerChange
<1>2. CASE P!Forwards
    BY <1>0, <1>2, <1>a, ServerGrows DEF P!Forwards
<1>3. CASE P!ServerServes
  <2>1. click.at # "idle" /\ click' = [click EXCEPT !.at = "served"]
    BY <1>3 DEF P!ServerServes
  <2>2. P!Mine(click.target) \in ServerChange
    BY <1>0, <2>1 DEF P!Mine, ServerChange
  <2> QED BY <1>0, <1>3, <1>a, <2>1, <2>2, ServerGrows DEF P!ServerServes
<1>4. CASE P!ServerRefuses
    BY <1>0, <1>4, <1>a, ServerGrows DEF P!ServerRefuses
<1>5. CASE P!ImportUnseen
    BY <1>0, <1>5, NoHandlerOK, ServerGrows DEF P!ImportUnseen
<1>6. CASE P!RegistrationStarts
    BY <1>0, <1>6, <1>a, ServerGrows DEF P!RegistrationStarts
<1>7. CASE P!RegistrationEnds
  <2>1. click.at # "idle" /\ click' = [click EXCEPT !.at = "over"]
    BY <1>7 DEF P!RegistrationEnds
  <2>2. P!Result(click.target) \in ServerChange
    BY <1>0, <2>1 DEF P!Result, ServerChange
  <2> QED BY <1>0, <1>7, <1>a, <2>1, <2>2, ServerGrows DEF P!RegistrationEnds
<1>8. CASE P!RegistrationUntold
    BY <1>0, <1>8, NoHandlerOK, ServerGrows DEF P!RegistrationUntold
<1>9. ASSUME NEW v \in View, NEW op \in P!Buttons, P!Click(op, v) PROVE PagesInv'
  <2>1. click' \in ClickRow /\ click'.at = "sent" /\ click'.target \in View
    BY <1>0, <1>9 DEF P!Click, ClickRow
  <2>2. page # "login"
    BY <1>9 DEF P!Click, P!Offered
  <2> QED BY <1>0, <1>9, <2>1, <2>2, ServerGrows DEF P!Click
<1> QED BY <1>1, <1>2, <1>3, <1>4, <1>5, <1>6, <1>7, <1>8, <1>9

(* The page asks for the list: on a turn, on a timer, and after most handlers.    *)
LEMMA AskSteps ==
    ASSUME PagesInv, NEW v \in View \cup {NoView}, lists' = Append(lists, P!Asked(v)),
           view' \in View, known' \subseteq rows, page # "login",
           UNCHANGED <<page, rows, shown, claims>>,
           click' \in ClickRow, click'.at # "idle" => click'.target \in View,
           click'.at = "served" => P!Mine(click'.target) \in rows,
           click'.at = "over" => P!Result(click'.target) \in rows
    PROVE  PagesInv'
<1>1. lists' \in Seq(ListRow) /\ LastAgrees' /\ RestAgrees'
    BY AsksLast DEF PagesInv, PageOK
<1> QED BY <1>1 DEF PagesInv, PageOK

LEMMA AnswerFacts ==
    ASSUME PagesInv, NEW op, P!Answered(op)
    PROVE  /\ known' \subseteq rows /\ known' = known \cup {P!Mine(click.target)}
           /\ click' \in ClickRow /\ click'.at = "idle" /\ click' = P!NoHandler
           /\ UNCHANGED <<page, rows>> /\ page # "login"
           /\ click.view \in View \cup {NoView} /\ click.target \in View
           /\ P!Mine(click.target) \in rows
<1>1. click.at = "served" /\ P!Mine(click.target) \in rows /\ known \subseteq rows /\ click \in ClickRow
      /\ click.target \in View
    BY DEF P!Answered, PagesInv, PageOK
<1>2. page # "login"
    BY <1>1, NoHandlerOK DEF PagesInv, PageOK
<1> QED BY <1>1, <1>2, NoHandlerOK DEF P!Answered, ClickRow

LEMMA ListAsked ==
    ASSUME PagesInv,
           \/ \E v \in View : P!Turn(v)
           \/ P!Tick
           \/ P!ImportDone
           \/ P!RegistrationSeen
           \/ \E op : P!Answered(op) /\ P!Refetches
    PROVE  PagesInv'
<1>0. view \in View /\ known \subseteq rows /\ click \in ClickRow
      /\ (page = "login" => click = P!NoHandler)
      /\ (click.at = "served" => P!Mine(click.target) \in rows)
      /\ (click.at = "over" => P!Result(click.target) \in rows)
      /\ (click.at # "idle" => click.target \in View)
    BY DEF PagesInv, PageOK
<1>1. ASSUME NEW v \in View, P!Turn(v) PROVE PagesInv'
    BY <1>0, <1>1, AskSteps DEF P!Turn, P!Asks
<1>2. CASE P!Tick
    BY <1>0, <1>2, AskSteps DEF P!Tick, P!Refreshed, P!Asks
<1>3. CASE P!ImportDone
  <2> QED BY <1>0, <1>3, AnswerFacts, AskSteps DEF P!ImportDone, P!Asks
<1>4. ASSUME NEW op, P!Answered(op) /\ P!Refetches PROVE PagesInv'
    BY <1>0, <1>4, AnswerFacts, AskSteps DEF P!Refetches, P!Asks
<1>5. CASE P!RegistrationSeen
  <2>1. page # "login" /\ click.view \in View \cup {NoView}
    BY <1>0, <1>5, NoHandlerOK DEF P!RegistrationSeen, ClickRow
  <2> QED BY <1>0, <1>5, <2>1, NoHandlerOK, AskSteps DEF P!RegistrationSeen, P!Refetches, P!Asks
<1> QED BY <1>1, <1>2, <1>3, <1>4, <1>5

(* An edit in place adds to the list on the screen the change, or a claim and the *)
(* change is one of those for which no list is asked; and it makes a list late    *)
(* that was answered without the change.                                      *)
LEMMA InPlace ==
    ASSUME PagesInv, NEW op, P!Answered(op), lists' = P!Overtaken, view' = view, shown' \in ShownRow,
           NEW c, c \in rows \cup claims', claims \subseteq claims',
           known' \ untold' \subseteq (known \ untold) \cup {c},
           known' \ untold' \subseteq (known \ untold) \cup {P!Mine(click.target)},
           P!Guess(First) \in claims' => P!Mine(First) \in rows,
           shown'.why = "fresh" => shown' = [shown EXCEPT !.has = shown.has \cup {c}]
    PROVE  PagesInv'
<1>0. /\ lists \in Seq(ListRow) /\ view \in View /\ rows \in SUBSET ServerChange /\ shown \in ShownRow
      /\ LastAgrees /\ RestAgrees
    BY DEF PagesInv, PageOK
<1>1. /\ known' \subseteq rows /\ known' = known \cup {P!Mine(click.target)}
      /\ click' \in ClickRow /\ click'.at = "idle" /\ click' = P!NoHandler
      /\ UNCHANGED <<page, rows>> /\ page # "login" /\ P!Mine(click.target) \in rows
    BY AnswerFacts
<1>2. /\ lists' \in Seq(ListRow) /\ Len(lists') = Len(lists)
      /\ lists # <<>> =>
           LET l == lists[Len(lists)]
           IN  IF l.answered /\ P!Mine(click.target) \notin l.has THEN lists'[Len(lists')].late
               ELSE lists'[Len(lists')] = l
    BY <1>0, OvertakenLast
<1>3. lists = <<>> <=> lists' = <<>>
    BY <1>0, <1>2, EmptySeq
<1>4. PageOK'
    BY <1>0, <1>1, <1>2 DEF PageOK
<1>5. LastAgrees'
    BY <1>0, <1>1, <1>2, <1>3 DEF LastAgrees, Agrees
<1>6. RestAgrees'
  <2> SUFFICES ASSUME lists' = <<>>, shown'.why = "fresh"
               PROVE  /\ shown'.of = view'
                      /\ {d \in known' \ untold' : d.of = view'} \subseteq shown'.has
                      /\ shown'.has \subseteq rows' \cup claims'
    BY DEF RestAgrees, Shows
  <2>1. shown.why = "fresh" /\ shown'.of = shown.of /\ shown'.has = shown.has \cup {c}
    BY <1>0 DEF ShownRow
  <2>2. /\ shown.of = view
        /\ {d \in known \ untold : d.of = view} \subseteq shown.has /\ shown.has \subseteq rows \cup claims
    BY <1>0, <1>1, <1>3, <2>1 DEF RestAgrees, Shows
  <2> QED BY <1>1, <2>1, <2>2
<1> QED BY <1>4, <1>5, <1>6 DEF PagesInv

(* A handler that fails, or whose refusal is not looked at, only writes a claim.   *)
LEMMA ClaimOnly ==
    ASSUME PagesInv, NEW c \in ServerChange, c.by # "guess", P!Claims(c),
           UNCHANGED <<page, view, rows, known, untold, lists>>, click' = P!NoHandler
    PROVE  PagesInv'
<1>0. shown \in ShownRow
    BY DEF PagesInv, PageOK
<1>1. shown' = [of |-> shown.of, has |-> shown.has \cup {c}, why |-> shown.why] /\ claims' = claims \cup {c}
    BY <1>0 DEF P!Claims, ShownRow
<1>2. c \in PageChange /\ P!Guess(First) # c
    BY DEF PageChange, ServerChange, P!Guess
<1>3. shown' \in ShownRow
    BY <1>0, <1>1, <1>2 DEF ShownRow
<1>4. PageOK'
    BY <1>1, <1>2, <1>3, NoHandlerOK DEF PagesInv, PageOK
<1>5. LastAgrees'
    BY DEF PagesInv, LastAgrees, Agrees
<1>6. RestAgrees'
    BY <1>1 DEF PagesInv, RestAgrees, Shows
<1> QED BY <1>4, <1>5, <1>6 DEF PagesInv

LEMMA EditSteps ==
    ASSUME PagesInv,
           \/ P!TaskCreated \/ P!TaskSet \/ P!RefusalIgnored \/ P!TaskStopped \/ P!DialogTells
           \/ P!TaskDeleted \/ P!ClearDone \/ P!CallFails
    PROVE  PagesInv'
<1>0. /\ shown \in ShownRow /\ click \in ClickRow /\ rows \in SUBSET ServerChange
      /\ (click.at = "served" => P!Mine(click.target) \in rows)
      /\ (P!Guess(First) \in claims => P!Mine(First) \in rows)
      /\ (click.at # "idle" => click.target \in View)
    BY DEF PagesInv, PageOK
<1>4. /\ P!Mine(click.target) \in ServerChange /\ P!Mine(click.target) \in PageChange
      /\ P!Mine(click.view) \in PageChange /\ P!Guess(click.target) \in PageChange
      /\ P!Mine(click.target).by # "guess"
    BY <1>0 DEF P!Mine, P!Guess, ServerChange, PageChange, ClickRow
<1>1. ASSUME NEW op, P!Answered(op) /\ P!EditsInPlace PROVE PagesInv'
  <2>1. shown' \in ShownRow
    BY <1>0, <1>4, <1>1 DEF P!EditsInPlace, ShownRow
  <2>2. P!Mine(click.target) \in rows /\ known' = known \cup {P!Mine(click.target)}
    BY <1>1, AnswerFacts
  <2> QED BY <1>0, <1>1, <2>1, <2>2, InPlace DEF P!EditsInPlace
<1>2. CASE P!ClearDone
  <2>1. PICK why \in {"cleared", "elsewhere"} : shown' = [of |-> click.view, has |-> {P!Mine(click.view)}, why |-> why]
    BY <1>2 DEF P!ClearDone
  <2>2. shown' \in ShownRow /\ shown'.why # "fresh"
    BY <1>0, <1>4, <2>1 DEF ShownRow, ClickRow
  <2>3. P!Mine(click.target) \in rows /\ known' = known \cup {P!Mine(click.target)}
    BY <1>2, AnswerFacts DEF P!ClearDone
  <2> QED BY <1>0, <1>2, <2>2, <2>3, InPlace DEF P!ClearDone
<1>3. CASE P!CallFails
  <2>1. CASE click.op = "delete"
    BY <1>3, <1>4, <2>1, ClaimOnly DEF P!CallFails
  <2>2. CASE click.op # "delete"
    <3>1. UNCHANGED <<page, view, rows, known, untold, claims, shown, lists>> /\ click' = P!NoHandler
      BY <1>3, <2>2 DEF P!CallFails
    <3>2. PageOK'
      BY <3>1, NoHandlerOK DEF PagesInv, PageOK
    <3> QED BY <3>1, <3>2 DEF PagesInv, LastAgrees, RestAgrees, Agrees, Shows
  <2> QED BY <2>1, <2>2
<1>5. CASE P!RefusalIgnored
    BY <1>4, <1>5, ClaimOnly DEF P!RefusalIgnored
<1>6. CASE P!TaskStopped
  <2> DEFINE g == P!Guess(click.target)
             mine == P!Mine(click.target)
  <2>1. /\ shown' = [shown EXCEPT !.has = shown.has \cup {g}] /\ claims' = claims \cup {g}
        /\ untold' = untold \cup {mine}
    BY <1>6 DEF P!TaskStopped, P!Claims
  <2>2. mine \in rows /\ known' = known \cup {mine} /\ click.target \in View
    BY <1>6, AnswerFacts DEF P!TaskStopped
  <2>3. shown' \in ShownRow
    BY <1>0, <1>4, <2>1 DEF ShownRow
  <2>4. P!Guess(First) = g => click.target = First
    BY DEF P!Guess
  <2>5. P!Guess(First) \in claims' => P!Mine(First) \in rows
    BY <1>0, <2>1, <2>2, <2>4
  <2> QED BY <1>6, <2>1, <2>2, <2>3, <2>5, InPlace DEF P!TaskStopped
<1>7. CASE P!DialogTells
  <2> DEFINE g == P!Guess(First)
             mine == P!Mine(First)
  <2>1. /\ shown' = [of |-> shown.of, has |-> (shown.has \ {g}) \cup {mine}, why |-> shown.why]
        /\ claims' = claims \ {g} /\ mine \in rows
        /\ UNCHANGED <<page, view, rows, known, untold, lists, click>>
    BY <1>0, <1>7 DEF P!DialogTells, ShownRow
  <2>2. g \notin rows /\ mine \in PageChange
    BY <1>0, <2>1 DEF P!Guess, ServerChange, PageChange
  <2>3. shown' \in ShownRow
    BY <1>0, <2>1, <2>2 DEF ShownRow
  <2> HIDE DEF g, mine
  <2>4. PageOK'
    BY <2>1, <2>3 DEF PagesInv, PageOK, g, mine
  <2>5. LastAgrees'
    BY <2>1 DEF PagesInv, LastAgrees, Agrees
  <2>6. RestAgrees'
    BY <2>1, <2>2 DEF PagesInv, PageOK, RestAgrees, Shows
  <2> QED BY <2>4, <2>5, <2>6 DEF PagesInv
<1> QED BY <1>1, <1>2, <1>3, <1>5, <1>6, <1>7 DEF P!TaskCreated, P!TaskSet, P!TaskDeleted

LEMMA PagesStep ==
    ASSUME PagesInv, P!Next
    PROVE  PagesInv'
<1>1. CASE P!SignedOut \/ \E p : P!Open(p) /\ p # "login"
    BY <1>1, PageChanges
<1>2. CASE P!OpenTasks \/ P!OpenAccounts \/ P!OpenWarmups \/ P!OpenStatus \/ P!OpenVpn \/ P!OpenLicenses \/ P!OpenScripts
    BY <1>2, PageChanges DEF P!OpenTasks, P!OpenAccounts, P!OpenWarmups, P!OpenStatus, P!OpenVpn, P!OpenLicenses, P!OpenScripts
<1>3. CASE \E v \in View, op \in P!Buttons : P!Click(op, v)
    BY <1>3, ClickSteps
<1>4. CASE \E op : P!Answered(op) /\ P!Refetches
    BY <1>4, ListAsked
<1> QED BY <1>1, <1>2, <1>3, <1>4, ClickSteps, ListAsked, EditSteps, ServerListsLast, ListComes
       DEF P!Next, P!TasksCreated, P!AccountDone, P!WarmupDone, P!StatusDone, P!VpnDone, P!LicenseDone, P!ResetDone

(* The list asked for last (TasksPage.tsx 648-699 and the other pages) agrees with   *)
(* the server once answered, and when none is under way the one shown does.         *)
THEOREM PagesInvariant == PagesSpec => []PagesInv
<1>1. PagesInit => PagesInv
  <2> SUFFICES ASSUME P!Init PROVE PagesInv
    BY DEF PagesInit
  <2>1. shown \in ShownRow
    BY DEF P!Init, P!NoList, ShownRow
  <2>2. lists = <<>> /\ lists \in Seq(ListRow)
    BY DEF P!Init
  <2> QED BY <2>1, <2>2, NoHandlerOK, PagesAssumption DEF P!Init, PagesInv, PageOK, LastAgrees, RestAgrees, Shows
<1>2. PagesInv /\ [PagesNext]_<<part, listVars, logVars, formVars>> => PagesInv'
  <2> SUFFICES ASSUME PagesInv, [PagesNext]_<<part, listVars, logVars, formVars>> PROVE PagesInv'
    OBVIOUS
  <2>1. CASE UNCHANGED listVars
    BY <2>1 DEF listVars, PagesInv, PageOK, LastAgrees, RestAgrees, Agrees, Shows
  <2> QED BY <2>1, PagesStep DEF PagesNext
<1> QED BY <1>1, <1>2, PTL DEF PagesSpec

(* Once nothing is under way, and nothing failed or came late, the page shows     *)
(* what it should: the list asked for last is the one that decides.             *)
THEOREM PagesAgree == PagesSpec => []ShownAgrees
<1>1. PagesInv => ShownAgrees
    BY DEF PagesInv, RestAgrees, Shows, ShownAgrees, P!ShownAgrees, P!Quiet
<1> QED BY <1>1, PagesInvariant, PTL
=============================================================================
