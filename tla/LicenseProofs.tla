---------------------------- MODULE LicenseProofs ----------------------------
(***************************************************************************)
(* The client's copies of a license, proved for any number of machines, keys  *)
(* and restarts and any grace period: the guard, which asks the memory, and    *)
(* the task runner, which asks the file, decide alike up to the grace period,  *)
(* and a restart makes nothing valid that was not.  Then the user and his       *)
(* sessions, for any number of browsers, sessions and calls that overlap: who   *)
(* brings a revoked session back, and who undoes a change of the user.        *)
(***************************************************************************)
EXTENDS MCUsers, TLAPS

Keys  == Key \cup {NoKey}
State == [valid: BOOLEAN, key: Keys]

RowsOK == row \in [Key -> [state: {"good", "dead"}, machine: Machine \cup Other \cup {NoMachine}]]

WireOK ==
    /\ req \in [Wire -> [pc: {"idle", "sent", "write", "rejected", "ok", "failed"}, key: Keys]]
    /\ \A w \in Wire : req[w].pc # "idle" => req[w].key \in Key

ClientOK ==
    /\ mem \in [Machine -> State]
    /\ file \in [Machine -> [there: BOOLEAN, valid: BOOLEAN, key: Keys]]
    /\ env \in [Machine -> Keys]
    /\ age \in [Machine -> 0..Grace]
    /\ boots \in Nat

(* Every variable has its type, and a request on its way has a key.            *)
TypeOK == RowsOK /\ WireOK /\ ClientOK
-----------------------------------------------------------------------------
(* A request goes on, ends or begins.                                         *)
LEMMA WireGoes ==
    ASSUME WireOK, NEW w \in Wire, NEW k \in Keys,
           NEW pc \in {"idle", "sent", "write", "rejected", "ok", "failed"},
           pc # "idle" => k \in Key,
           req' = [req EXCEPT ![w] = [pc |-> pc, key |-> k]]
    PROVE  WireOK'
BY DEF WireOK

LEMMA Wires == \A m \in Machine : <<m, "activate">> \in Wire /\ <<m, "heartbeat">> \in Wire
BY DEF Wire

LEMMA AnsweredOK ==
    ASSUME WireOK, NEW w \in Wire, req' = Answered(w)
    PROVE  WireOK'
BY WireGoes DEF Answered, NoReq, Keys

LEMMA ServerKeepsTypes ==
    ASSUME TypeOK, NEW w \in Wire, ServerStep(w)
    PROVE  TypeOK'
<1> USE DEF TypeOK
<1>0. req[w].key \in Keys /\ (req[w].pc # "idle" => req[w].key \in Key)
    BY DEF WireOK
<1>1. CASE ServerReads(w)
  <2>1. req[w].key \in Key
    BY <1>0, <1>1 DEF ServerReads
  <2> QED BY <1>0, <1>1, <2>1, WireGoes DEF ServerReads, ReqGoes, RowsOK, ClientOK, WireOK
<1>2. CASE ServerWrites(w)
  <2>1. req[w].key \in Key
    BY <1>0, <1>2 DEF ServerWrites
  <2>2. WireOK'
    BY <1>2, <2>1, WireGoes DEF ServerWrites, ReqGoes, Keys
  <2>3. RowsOK'
    BY <1>2, <2>1 DEF ServerWrites, RowsOK, Wire, Who
  <2> QED BY <1>2, <2>2, <2>3 DEF ServerWrites, ClientOK
<1>3. CASE ReplyLost(w)
  <2>1. req[w].key \in Key
    BY <1>0, <1>3 DEF ReplyLost
  <2> QED BY <1>0, <1>3, <2>1, WireGoes DEF ReplyLost, ReqGoes, RowsOK, ClientOK
<1> QED BY <1>1, <1>2, <1>3 DEF ServerStep

LEMMA HeartbeatKeepsTypes ==
    ASSUME TypeOK, NEW m \in Machine, NEW valid \in BOOLEAN, HeartbeatSets(m, valid),
           UNCHANGED <<row, env, boots>>, age' \in [Machine -> 0..Grace]
    PROVE  TypeOK'
<1> USE DEF TypeOK
<1>1. WireOK'
    BY AnsweredOK, Wires DEF HeartbeatSets
<1>2. ClientOK'
    BY DEF HeartbeatSets, Saved, ClientOK, State
<1> QED BY <1>1, <1>2 DEF RowsOK

LEMMA ClientKeepsTypes ==
    ASSUME TypeOK, NEW m \in Machine, ClientStep(m)
    PROVE  TypeOK'
<1> USE Wires DEF TypeOK
<1>1. ASSUME NEW k \in Key, AskActivate(m, k) PROVE TypeOK'
    BY <1>1, WireGoes DEF AskActivate, RowsOK, ClientOK, Keys
<1>2. CASE AskHeartbeat(m)
  <2>1. mem[m].key \in Key
    BY <1>2 DEF AskHeartbeat, ClientOK, State, Keys
  <2> QED BY <1>2, <2>1, WireGoes DEF AskHeartbeat, RowsOK, ClientOK, Keys
<1>3. CASE Activated(m)
  <2>1. req[<<m, "activate">>].key \in Keys
    BY DEF WireOK
  <2>2. ClientOK'
    BY <1>3, <2>1, LicenseAssumption DEF Activated, Saved, WithEnvKey, ClientOK, State
  <2> QED BY <1>3, <2>2, AnsweredOK DEF Activated, RowsOK
<1>4. CASE NotActivated(m)
    BY <1>4, AnsweredOK DEF NotActivated, RowsOK, ClientOK
<1>5. CASE HeartbeatOk(m)
  <2>1. age' \in [Machine -> 0..Grace]
    BY <1>5, LicenseAssumption DEF HeartbeatOk, ClientOK
  <2> QED BY <1>5, <2>1, HeartbeatKeepsTypes DEF HeartbeatOk
<1>6. CASE HeartbeatRejected(m)
    BY <1>6, HeartbeatKeepsTypes DEF HeartbeatRejected, ClientOK
<1>7. CASE HeartbeatFailed(m)
  <2>1. CASE InGrace(m)
    BY <1>7, <2>1, AnsweredOK DEF HeartbeatFailed, RowsOK, ClientOK
  <2>2. CASE ~InGrace(m)
    BY <1>7, <2>2, HeartbeatKeepsTypes DEF HeartbeatFailed, ClientOK
  <2> QED BY <2>1, <2>2
<1>8. CASE GuardExpires(m)
    BY <1>8 DEF GuardExpires, RowsOK, WireOK, ClientOK, State
<1>9. CASE Restart(m)
  <2>1. Loaded(m) \in State
    BY DEF Loaded, ClientOK, State
  <2>2. ClientOK'
    BY <1>9, <2>1, LicenseAssumption DEF Restart, ClientOK
  <2>3. WireOK'
    BY <1>9, <2>1 DEF Restart, WireOK, NoReq, State, Keys
  <2> QED BY <1>9, <2>2, <2>3 DEF Restart, RowsOK
<1>10. CASE CacheLost(m)
    BY <1>10 DEF CacheLost, NoFile, RowsOK, WireOK, ClientOK, Keys
<1> QED BY <1>1, <1>2, <1>3, <1>4, <1>5, <1>6, <1>7, <1>8, <1>9, <1>10
       DEF ClientStep, ApplyActivation, ApplyHeartbeat

LEMMA RestKeepsTypes ==
    ASSUME TypeOK,
           \/ TimePasses
           \/ \E k \in Key : AdminStep(k) \/ \E x \in Other : OtherActivates(k, x)
    PROVE  TypeOK'
<1> USE DEF TypeOK
<1>1. CASE TimePasses
    BY <1>1, LicenseAssumption DEF TimePasses, RowsOK, WireOK, ClientOK
<1>2. ASSUME NEW k \in Key, NEW state \in {"good", "dead"},
             NEW x \in Machine \cup Other \cup {NoMachine}, AdminSets(k, state, x)
      PROVE  TypeOK'
    BY <1>2 DEF AdminSets, RowsOK, WireOK, ClientOK
<1>3. \A k \in Key : row[k].state \in {"good", "dead"} /\ row[k].machine \in Machine \cup Other \cup {NoMachine}
    BY DEF RowsOK
<1> QED BY <1>1, <1>2, <1>3 DEF AdminStep, Revoke, Renew, Unbind, OtherActivates

(* Types are kept by the server, the clients, the clock and the administrator.  *)
THEOREM LicenseTypeCorrect == Spec => []TypeOK
<1>1. Init => TypeOK
    BY LicenseAssumption DEF Init, NewLicense, TypeOK, RowsOK, WireOK, ClientOK, NoReq, NeverVerified, NoFile, State, Keys
<1>2. TypeOK /\ [Next]_vars => TypeOK'
  <2> SUFFICES ASSUME TypeOK, [Next]_vars PROVE TypeOK'
    OBVIOUS
  <2>1. CASE UNCHANGED vars
    BY <2>1 DEF vars, TypeOK, RowsOK, WireOK, ClientOK
  <2> QED BY <2>1, ServerKeepsTypes, ClientKeepsTypes, RestKeepsTypes DEF Next
<1> QED BY <1>1, <1>2, PTL DEF Spec
-----------------------------------------------------------------------------
(* What the two copies of machine m say, as FileFollowsMemory has it.          *)
Follows(m) ==
    file[m].there =>
        /\ file[m].key = mem[m].key
        /\ mem[m].valid => file[m].valid
        /\ file[m].valid /\ ~mem[m].valid => ~InGrace(m)

(* A state that is written to the memory and then to the file is in both.      *)
LEMMA SavedFollows ==
    ASSUME TypeOK, FileFollowsMemory, NEW m \in Machine, NEW st \in State,
           mem' = [mem EXCEPT ![m] = st], file' = Saved(m, st),
           \A n \in Machine \ {m} : age'[n] = age[n]
    PROVE  FileFollowsMemory'
<1> SUFFICES ASSUME NEW n \in Machine PROVE Follows(n)'
    BY DEF FileFollowsMemory, Follows
<1>1. CASE n = m
    BY <1>1 DEF Follows, Saved, TypeOK, ClientOK, State
<1>2. CASE n # m
    BY <1>2 DEF FileFollowsMemory, Follows, Saved, TypeOK, ClientOK, InGrace
<1> QED BY <1>1, <1>2

LEMMA HeartbeatFollows ==
    ASSUME TypeOK, FileFollowsMemory, NEW m \in Machine, ApplyHeartbeat(m)
    PROVE  FileFollowsMemory'
<1>1. \A valid \in BOOLEAN : [valid |-> valid, key |-> mem[m].key] \in State
    BY DEF TypeOK, ClientOK, State
<1>2. ASSUME NEW valid \in BOOLEAN, HeartbeatSets(m, valid),
             \A n \in Machine \ {m} : age'[n] = age[n]
      PROVE  FileFollowsMemory'
    BY <1>1, <1>2, SavedFollows DEF HeartbeatSets
<1>3. CASE HeartbeatOk(m)
    BY <1>2, <1>3 DEF HeartbeatOk, TypeOK, ClientOK
<1>4. CASE HeartbeatRejected(m)
    BY <1>2, <1>4 DEF HeartbeatRejected
<1>5. CASE HeartbeatFailed(m)
  <2>1. CASE InGrace(m)
    BY <1>5, <2>1 DEF HeartbeatFailed, FileFollowsMemory, InGrace
  <2>2. CASE ~InGrace(m)
    BY <1>2, <1>5, <2>2 DEF HeartbeatFailed
  <2> QED BY <2>1, <2>2
<1> QED BY <1>3, <1>4, <1>5 DEF ApplyHeartbeat

LEMMA ClientFollows ==
    ASSUME TypeOK, FileFollowsMemory, NEW m \in Machine, ClientStep(m)
    PROVE  FileFollowsMemory'
<1>1. CASE (\E k \in Key : AskActivate(m, k)) \/ AskHeartbeat(m) \/ NotActivated(m)
    BY <1>1 DEF AskActivate, AskHeartbeat, NotActivated, FileFollowsMemory, InGrace
<1>2. CASE Activated(m)
  <2>1. [valid |-> TRUE, key |-> req[<<m, "activate">>].key] \in State
    BY Wires DEF TypeOK, WireOK, State
  <2>2. \A n \in Machine \ {m} : age'[n] = age[n]
    BY <1>2 DEF Activated, TypeOK, ClientOK
  <2> QED BY <1>2, <2>1, <2>2, SavedFollows DEF Activated
<1>3. CASE ApplyHeartbeat(m)
    BY <1>3, HeartbeatFollows
<1>4. CASE GuardExpires(m)
  <2> SUFFICES ASSUME NEW n \in Machine PROVE Follows(n)'
    BY DEF FileFollowsMemory, Follows
  <2> QED BY <1>4 DEF GuardExpires, FileFollowsMemory, Follows, TypeOK, ClientOK, State, InGrace
<1>5. CASE Restart(m)
  <2> SUFFICES ASSUME NEW n \in Machine, file[n].there PROVE Follows(n)'
    BY <1>5 DEF Restart, FileFollowsMemory, Follows
  <2>1. mem' = [mem EXCEPT ![m] = Loaded(m)] /\ file' = file
    BY <1>5 DEF Restart
  <2>2. age'[n] = age[n]
    BY <1>5 DEF Restart, TypeOK, ClientOK
  <2>3. CASE n = m
    BY <2>1, <2>2, <2>3 DEF Follows, Loaded, TypeOK, ClientOK, InGrace
  <2>4. CASE n # m
    BY <2>1, <2>2, <2>4 DEF FileFollowsMemory, Follows, TypeOK, ClientOK, InGrace
  <2> QED BY <2>3, <2>4
<1>6. CASE CacheLost(m)
    BY <1>6 DEF CacheLost, NoFile, FileFollowsMemory, TypeOK, ClientOK, InGrace
<1> QED BY <1>1, <1>2, <1>3, <1>4, <1>5, <1>6 DEF ClientStep, ApplyActivation

(* The grace period never comes back by itself: time only makes a state older.   *)
LEMMA RestFollows ==
    ASSUME TypeOK, FileFollowsMemory,
           \/ \E w \in Wire : ServerStep(w)
           \/ TimePasses
           \/ \E k \in Key : AdminStep(k) \/ \E x \in Other : OtherActivates(k, x)
    PROVE  FileFollowsMemory'
<1>1. CASE TimePasses
    BY <1>1, LicenseAssumption DEF TimePasses, FileFollowsMemory, InGrace, TypeOK, ClientOK
<1>2. CASE UNCHANGED <<mem, file, age>>
    BY <1>2 DEF FileFollowsMemory, InGrace
<1> QED BY <1>1, <1>2 DEF ServerStep, ServerReads, ServerWrites, ReplyLost,
           AdminStep, Revoke, Renew, Unbind, OtherActivates, AdminSets

(* The guard, which asks the memory, and the task runner, which asks the file,  *)
(* disagree only after the file was deleted, or once the grace period is over     *)
(* and before the next heartbeat, and then it is the guard that refuses.        *)
THEOREM FileAndMemory == Spec => []FileFollowsMemory
<1>1. Init => FileFollowsMemory
    BY DEF Init, NoFile, FileFollowsMemory
<1>2. TypeOK /\ FileFollowsMemory /\ [Next]_vars => FileFollowsMemory'
  <2> SUFFICES ASSUME TypeOK, FileFollowsMemory, [Next]_vars PROVE FileFollowsMemory'
    OBVIOUS
  <2>1. CASE UNCHANGED vars
    BY <2>1 DEF vars, FileFollowsMemory, InGrace
  <2> QED BY <2>1, ClientFollows, RestFollows DEF Next
<1> QED BY <1>1, <1>2, LicenseTypeCorrect, PTL DEF Spec

(* A restart makes no license valid that the running process refused, nor one    *)
(* last verified before the grace period: what it loads is in the file, and the  *)
(* file is valid beyond the memory only when the grace period is over.          *)
THEOREM NothingResurrected == Spec => NoResurrection
<1>1. TypeOK /\ FileFollowsMemory /\ [Next]_vars
        => [\A m \in Machine : Restart(m) /\ mem'[m].valid => mem[m].valid /\ InGrace(m)]_vars
  <2> SUFFICES ASSUME TypeOK, FileFollowsMemory, NEW m \in Machine, Restart(m), mem'[m].valid
               PROVE  mem[m].valid /\ InGrace(m)
    OBVIOUS
  <2>1. mem'[m] = Loaded(m)
    BY DEF Restart, TypeOK, ClientOK
  <2>2. file[m].there
    BY <2>1 DEF Loaded
  <2>3. ~(file[m].valid /\ InGrace(m)) => Loaded(m) = [valid |-> FALSE, key |-> file[m].key]
    BY <2>2, Zenon DEF Loaded
  <2>4. file[m].valid /\ InGrace(m)
    BY <2>1, <2>3
  <2> QED BY <2>2, <2>4 DEF FileFollowsMemory, TypeOK, ClientOK, State
<1> QED BY <1>1, LicenseTypeCorrect, FileAndMemory, PTL DEF Spec, NoResurrection
-----------------------------------------------------------------------------
(* The user and his sessions (Sessions): both sets of calls act on the same    *)
(* rows, so one invariant serves for the two.                                *)
CallName == {"none"} \cup UNION {SessionCalls[r] \cup UserCalls[r] : r \in Request}
Change   == Settings \cup {"profile", "joins", "key", "password", "language", "suspended"}
UserRow  == [state: {"none", "live", "deleted", "gone"}, has: SUBSET Change]
TokenRow == [token: Nat, refresh: Nat, revoked: BOOLEAN]

CallRow == [op: CallName, at: {"idle", "go", "insert", "find", "save", "issue", "revoke", "update"},
            by: Client \cup {NoClient}, token: Nat, id: Session \cup {NoSession}, copy: UserRow \cup TokenRow]

(* A row that was never there, and one deleted for good, has no change.        *)
UserOK ==
    /\ user \in UserRow
    /\ user.state = "none" => user.has = {}

ClockOK == held \in [Client -> Nat] /\ now \in Nat

(* A call that is about to save a session has read one, a call that is about    *)
(* to save the user has read a row that was not deleted, and no other call      *)
(* names a session.                                                          *)
Fits(c) ==
    /\ c.at = "save" /\ c.op \in {"refresh", "logout", "revoke"} => c.id \in Session /\ c.copy \in TokenRow
    /\ c.at = "save" /\ c.op \notin {"refresh", "logout", "revoke"}
           => c.id = NoSession /\ c.copy \in UserRow /\ c.copy.state = "live"
    /\ c.at = "find" /\ c.op = "refresh" => c.id \in Session
    /\ c.at = "find" /\ c.op # "refresh" => c.id = NoSession
    /\ c.at = "go" => c.id = NoSession

CallsOK == call \in [Request -> CallRow] /\ \A r \in Request : Fits(call[r])

SessionsOK == UserOK /\ session \in [Session -> TokenRow] /\ ClockOK /\ CallsOK
-----------------------------------------------------------------------------
(* What is served in a slot: Sessions' actions, but for the ask and the clock.  *)
Serves(r) ==
    \/ S!RegisterFinds(r) \/ S!RegisterInserts(r)
    \/ S!LoginChecks(r) \/ S!LoginCounts(r) \/ S!LoginSaves(r) \/ S!Issues(r)
    \/ S!RefreshValidates(r) \/ S!RefreshFinds(r) \/ S!RefreshSaves(r)
    \/ S!LogoutFinds(r) \/ S!RevokeFinds(r) \/ S!RevokeSaves(r)
    \/ S!LogoutAll(r) \/ S!PasswordRevokes(r)
    \/ S!ChangeFinds(r) \/ S!ChangeSaves(r) \/ S!Writes(r) \/ S!Removes(r)
    \/ S!ActivationFinds(r) \/ S!ActivationWrites(r)

Begins(r) ==
    /\ \E c \in Client, op \in CallName :
        call' = [call EXCEPT ![r] = [S!NoCall EXCEPT !.op = op, !.at = "go", !.by = c, !.token = held[c]]]
    /\ UNCHANGED <<user, session, held, now, expired>>

(* A browser forgets its token, or a second passes.                            *)
Passes ==
    /\ UNCHANGED <<user, session, call>>
    /\ ClockOK => ClockOK'

(* The calls of the two parts are the same but for which slot serves them.     *)
LEMMA SessionSteps == S!Next => Passes \/ \E r \in Request : Begins(r) \/ Serves(r)
<1> SUFFICES ASSUME S!Next PROVE Passes \/ \E r \in Request : Begins(r) \/ Serves(r)
    OBVIOUS
<1>1. ASSUME NEW r \in Request, NEW c \in Client, NEW op \in SessionCalls[r], S!Asks(r, c, op)
      PROVE  Begins(r)
  <2>1. op \in CallName
    BY DEF CallName
  <2> QED BY <1>1, <2>1 DEF S!Asks, Begins
<1>2. ASSUME NEW c \in Client, S!Refused(c) PROVE Passes
    BY <1>2 DEF S!Refused, Passes, ClockOK
<1>3. CASE S!SecondPasses \/ S!Expire
    BY <1>3 DEF S!SecondPasses, S!Expire, Passes, ClockOK
<1> QED BY <1>1, <1>2, <1>3 DEF S!Next, Serves

LEMMA UserSteps == U!Next => Passes \/ \E r \in Request : Begins(r) \/ Serves(r)
<1> SUFFICES ASSUME U!Next PROVE Passes \/ \E r \in Request : Begins(r) \/ Serves(r)
    OBVIOUS
<1>1. ASSUME NEW r \in Request, NEW c \in Client, NEW op \in UserCalls[r], U!Asks(r, c, op)
      PROVE  Begins(r)
  <2>1. op \in CallName
    BY DEF CallName
  <2> QED BY <1>1, <2>1 DEF U!Asks, Begins, U!NoCall, U!NoRow, S!NoCall, S!NoRow
<1>2. ASSUME NEW c \in Client, U!Refused(c) PROVE Passes
    BY <1>2 DEF U!Refused, Passes, ClockOK
<1>3. CASE U!SecondPasses \/ U!Expire
    BY <1>3 DEF U!SecondPasses, U!Expire, Passes, ClockOK
<1>4. ASSUME NEW r \in Request,
             \/ U!RegisterFinds(r) \/ U!RegisterInserts(r) \/ U!LoginChecks(r) \/ U!LoginCounts(r)
             \/ U!LoginSaves(r) \/ U!Issues(r)
      PROVE  Serves(r)
    BY <1>4 DEF U!RegisterFinds, U!RegisterInserts, U!LoginChecks, U!LoginCounts, U!LoginSaves, U!Issues,
                S!RegisterFinds, S!RegisterInserts, S!LoginChecks, S!LoginCounts, S!LoginSaves, S!Issues,
                U!EmailTaken, S!EmailTaken, U!Live, S!Live, U!Active, S!Active, U!Ends, S!Ends, U!Goes, S!Goes,
                U!NoCall, S!NoCall, U!NoRow, S!NoRow, U!SavesUser, S!SavesUser, U!Answered, S!Answered,
                U!Created, S!Created, U!Unborn, S!Unborn, Serves
<1>5. ASSUME NEW r \in Request, U!RefreshValidates(r) \/ U!RefreshFinds(r) \/ U!RefreshSaves(r)
      PROVE  Serves(r)
    BY <1>5 DEF U!RefreshValidates, U!RefreshFinds, U!RefreshSaves, S!RefreshValidates, S!RefreshFinds,
                S!RefreshSaves, U!Active, S!Active, U!Live, S!Live, U!Valid, S!Valid, U!Ends, S!Ends,
                U!NoCall, S!NoCall, U!NoRow, S!NoRow, U!Answered, S!Answered, U!Renewed, S!Renewed, Serves
<1>6. ASSUME NEW r \in Request, U!LogoutFinds(r) \/ U!RevokeFinds(r) \/ U!RevokeSaves(r)
      PROVE  Serves(r)
    BY <1>6 DEF U!LogoutFinds, U!RevokeFinds, U!RevokeSaves, S!LogoutFinds, S!RevokeFinds, S!RevokeSaves,
                U!Found, S!Found, U!Ends, S!Ends, U!NoCall, S!NoCall, U!NoRow, S!NoRow, U!Unborn, S!Unborn,
                U!Answered, S!Answered, Serves
<1>7. ASSUME NEW r \in Request, U!LogoutAll(r) \/ U!PasswordRevokes(r) \/ U!Writes(r) \/ U!Removes(r)
      PROVE  Serves(r)
    BY <1>7 DEF U!LogoutAll, U!PasswordRevokes, U!Writes, U!Removes, S!LogoutAll, S!PasswordRevokes,
                S!Writes, S!Removes, U!RevokesAll, S!RevokesAll, U!Unborn, S!Unborn, U!Live, S!Live,
                U!Ends, S!Ends, U!NoCall, S!NoCall, U!NoRow, S!NoRow, Serves
<1>8. ASSUME NEW r \in Request, U!ChangeFinds(r) \/ U!ChangeSaves(r)
      PROVE  Serves(r)
    BY <1>8 DEF U!ChangeFinds, U!ChangeSaves, S!ChangeFinds, S!ChangeSaves, U!Saved, S!Saved, U!Live, S!Live,
                U!Keys, S!Keys, U!Merged, S!Merged, U!Written, S!Written, U!Spread, S!Spread,
                U!Warmup, S!Warmup, U!SavesUser, S!SavesUser, U!Goes, S!Goes,
                U!Ends, S!Ends, U!NoCall, S!NoCall, U!NoRow, S!NoRow, Serves
<1>9. ASSUME NEW r \in Request, U!ActivationFinds(r) \/ U!ActivationWrites(r)
      PROVE  Serves(r)
    BY <1>9 DEF U!ActivationFinds, U!ActivationWrites, S!ActivationFinds, S!ActivationWrites,
                U!Synced, S!Synced, U!Goes, S!Goes, U!Ends, S!Ends, U!NoCall, S!NoCall, U!NoRow, S!NoRow, Serves
<1> QED BY <1>1, <1>2, <1>3, <1>4, <1>5, <1>6, <1>7, <1>8, <1>9 DEF U!Next
-----------------------------------------------------------------------------
LEMMA NoCallOK == S!NoCall \in CallRow /\ Fits(S!NoCall)
BY DEF S!NoCall, S!NoRow, CallRow, CallName, UserRow, Fits

LEMMA CallGoes ==
    ASSUME CallsOK, NEW r \in Request, NEW c \in CallRow, Fits(c), call' = [call EXCEPT ![r] = c]
    PROVE  CallsOK'
<1>1. \A q \in Request : Fits(call'[q])
    BY DEF CallsOK
<1>2. call' \in [Request -> CallRow]
    BY DEF CallsOK
<1> QED BY <1>1, <1>2 DEF CallsOK, Fits

LEMMA CallEnds ==
    ASSUME CallsOK, NEW r \in Request, S!Ends(r)
    PROVE  CallsOK'
BY NoCallOK, CallGoes DEF S!Ends

LEMMA BeginsOK ==
    ASSUME SessionsOK, NEW r \in Request, Begins(r)
    PROVE  SessionsOK'
<1> PICK c \in Client, op \in CallName :
        call' = [call EXCEPT ![r] = [S!NoCall EXCEPT !.op = op, !.at = "go", !.by = c, !.token = held[c]]]
    BY DEF Begins
<1> DEFINE C == [S!NoCall EXCEPT !.op = op, !.at = "go", !.by = c, !.token = held[c]]
<1>1. C \in CallRow /\ Fits(C)
    BY DEF S!NoCall, S!NoRow, CallRow, UserRow, Fits, SessionsOK, ClockOK
<1>2. call' = [call EXCEPT ![r] = C]
    OBVIOUS
<1> HIDE DEF C
<1>3. CallsOK'
    BY <1>1, <1>2, CallGoes DEF SessionsOK
<1> QED BY <1>3 DEF Begins, SessionsOK, UserOK, ClockOK

(* A call goes on without touching what it carries.                           *)
LEMMA CallStep ==
    ASSUME CallsOK, NEW r \in Request, NEW at \in {"insert", "issue", "revoke", "update"}, S!Goes(r, at)
    PROVE  CallsOK'
<1> DEFINE C == [call[r] EXCEPT !.at = at]
<1>1. C \in CallRow /\ Fits(C)
    BY DEF CallsOK, CallRow, Fits
<1>2. call' = [call EXCEPT ![r] = C]
    BY DEF S!Goes, CallsOK
<1> HIDE DEF C
<1> QED BY <1>1, <1>2, CallGoes

(* An answer ends the call and may bring the browser a token.                 *)
LEMMA AnsweredSession ==
    ASSUME SessionsOK, NEW r \in Request, NEW token \in Nat, S!Answered(r, token), now' = now
    PROVE  CallsOK' /\ ClockOK'
BY CallEnds DEF S!Answered, SessionsOK, ClockOK

LEMMA CallFacts ==
    ASSUME SessionsOK, NEW r \in Request
    PROVE  call[r] \in CallRow /\ Fits(call[r])
BY DEF SessionsOK, CallsOK
LEMMA ServesCalls ==
    ASSUME SessionsOK, UsersAssumption, NEW r \in Request, Serves(r)
    PROVE  CallsOK'
<1>0. CallsOK /\ call[r] \in CallRow /\ Fits(call[r]) /\ now \in Nat /\ session \in [Session -> TokenRow] /\ user \in UserRow
    BY CallFacts DEF SessionsOK, ClockOK, UserOK
<1>1. CASE S!RegisterFinds(r) \/ S!RegisterInserts(r)
    BY <1>0, <1>1, CallEnds, CallStep DEF S!RegisterFinds, S!RegisterInserts
<1>2. CASE S!LoginChecks(r)
  <2> DEFINE C == [call[r] EXCEPT !.at = "find"]
  <2>1. CASE S!Goes(r, "find")
    <3>1. C \in CallRow /\ Fits(C)
        BY <1>0, <1>2 DEF S!LoginChecks, CallRow, Fits
    <3>2. call' = [call EXCEPT ![r] = C]
        BY <2>1, <1>0 DEF S!Goes, CallsOK
    <3> HIDE DEF C
    <3> QED BY <1>0, <3>1, <3>2, CallGoes
  <2> QED BY <1>0, <1>2, <2>1, CallEnds DEF S!LoginChecks
<1>3. CASE S!LoginCounts(r)
  <2> DEFINE C == [call[r] EXCEPT !.at = IF S!Live THEN "save" ELSE "issue",
                                  !.copy = IF S!Live THEN user ELSE S!NoRow]
  <2>1. C \in CallRow /\ Fits(C)
      BY <1>0, <1>3 DEF S!LoginCounts, S!Live, S!NoRow, CallRow, UserRow, Fits
  <2>2. call' = [call EXCEPT ![r] = C]
      BY <1>0, <1>3 DEF S!LoginCounts, CallsOK
  <2> HIDE DEF C
  <2> QED BY <1>0, <2>1, <2>2, CallGoes
<1>4. CASE S!LoginSaves(r)
  <2> DEFINE C == [call[r] EXCEPT !.at = "issue", !.copy = S!NoRow]
  <2>1. C \in CallRow /\ Fits(C)
      BY <1>0 DEF S!NoRow, CallRow, UserRow, Fits
  <2>2. call' = [call EXCEPT ![r] = C]
      BY <1>0, <1>4 DEF S!LoginSaves, CallsOK
  <2> HIDE DEF C
  <2> QED BY <1>0, <2>1, <2>2, CallGoes
<1>5. CASE S!Issues(r) \/ S!RefreshSaves(r) \/ S!RevokeSaves(r) \/ S!LogoutAll(r) \/ S!PasswordRevokes(r)
    BY <1>0, <1>5, CallEnds DEF S!Issues, S!RefreshSaves, S!RevokeSaves, S!LogoutAll, S!PasswordRevokes, S!Answered
<1>6. CASE S!RefreshValidates(r)
  <2>1. ASSUME NEW s \in Session, call' = [call EXCEPT ![r].at = "find", ![r].id = s]
        PROVE  CallsOK'
    <3> DEFINE C == [call[r] EXCEPT !.at = "find", !.id = s]
    <3>1. C \in CallRow /\ Fits(C)
        BY <1>0, <1>6 DEF S!RefreshValidates, CallRow, Fits
    <3>2. call' = [call EXCEPT ![r] = C]
        BY <1>0, <2>1 DEF CallsOK
    <3> HIDE DEF C
    <3> QED BY <1>0, <3>1, <3>2, CallGoes
  <2> QED BY <1>0, <1>6, <2>1, CallEnds DEF S!RefreshValidates
<1>7. CASE S!RefreshFinds(r)
  <2> DEFINE C == [call[r] EXCEPT !.at = "save", !.token = now, !.copy = session[call[r].id]]
  <2>1. C \in CallRow /\ Fits(C)
      BY <1>0, <1>7 DEF S!RefreshFinds, CallRow, Fits
  <2>2. call' = [call EXCEPT ![r] = C]
      BY <1>0, <1>7 DEF S!RefreshFinds, CallsOK
  <2> HIDE DEF C
  <2> QED BY <1>0, <2>1, <2>2, CallGoes
<1>8. CASE S!LogoutFinds(r) \/ S!RevokeFinds(r)
  <2>1. ASSUME NEW s \in Session, call' = [call EXCEPT ![r].at = "save", ![r].id = s, ![r].copy = session[s]]
        PROVE  CallsOK'
    <3> DEFINE C == [call[r] EXCEPT !.at = "save", !.id = s, !.copy = session[s]]
    <3>1. C \in CallRow /\ Fits(C)
        BY <1>0, <1>8 DEF S!LogoutFinds, S!RevokeFinds, CallRow, Fits
    <3>2. call' = [call EXCEPT ![r] = C]
        BY <1>0, <2>1 DEF CallsOK
    <3> HIDE DEF C
    <3> QED BY <1>0, <3>1, <3>2, CallGoes
  <2> QED BY <1>0, <1>8, <2>1, CallEnds DEF S!LogoutFinds, S!RevokeFinds, S!Found, S!Answered
<1>9. CASE S!ChangeFinds(r)
  <2>1. ASSUME S!Live, call' = [call EXCEPT ![r].at = "save", ![r].copy = user]
        PROVE  CallsOK'
    <3> DEFINE C == [call[r] EXCEPT !.at = "save", !.copy = user]
    <3>1. call[r].op \notin {"refresh", "logout", "revoke"} /\ call[r].id = NoSession
        BY <1>0, <1>9, UsersAssumption DEF S!ChangeFinds, S!Saved, Fits
    <3>2. C \in CallRow /\ Fits(C)
        BY <1>0, <2>1, <3>1 DEF S!Live, CallRow, Fits
    <3>3. call' = [call EXCEPT ![r] = C]
        BY <1>0, <2>1 DEF CallsOK
    <3> HIDE DEF C
    <3> QED BY <1>0, <3>2, <3>3, CallGoes
  <2> QED BY <1>0, <1>9, <2>1, CallEnds DEF S!ChangeFinds
<1>10. CASE S!ChangeSaves(r)
    BY <1>0, <1>10, CallEnds, CallStep DEF S!ChangeSaves
<1>11. CASE S!Writes(r) \/ S!Removes(r)
    BY <1>0, <1>11, CallEnds DEF S!Writes, S!Removes
<1>12. CASE S!ActivationFinds(r) \/ S!ActivationWrites(r)
    BY <1>0, <1>12, CallEnds, CallStep DEF S!ActivationFinds, S!ActivationWrites
<1> QED BY <1>1, <1>2, <1>3, <1>4, <1>5, <1>6, <1>7, <1>8, <1>9, <1>10, <1>11, <1>12 DEF Serves

(* The rows of sessions, and that none but a refresh gives one back.           *)
LEMMA ServesSessions ==
    ASSUME SessionsOK, UsersAssumption, NEW r \in Request, Serves(r)
    PROVE  /\ session' \in [Session -> TokenRow]
           /\ \A s \in Session : session[s].revoked /\ ~session'[s].revoked
                  => call[r].at = "save" /\ call[r].id = s /\ ~call[r].copy.revoked
<1>0. call[r] \in CallRow /\ Fits(call[r]) /\ now \in Nat /\ session \in [Session -> TokenRow]
    BY CallFacts DEF SessionsOK, ClockOK
<1>1. CASE S!Issues(r)
  <2>1. PICK s \in Session : session[s] = S!Unborn /\ session' = [session EXCEPT ![s] = S!Created(now)]
    BY <1>1 DEF S!Issues
  <2> QED BY <1>0, <2>1 DEF S!Unborn, S!Created, TokenRow
<1>2. CASE S!RefreshSaves(r)
  <2>1. call[r].id \in Session /\ call[r].copy \in TokenRow /\ call[r].token \in Nat
    BY <1>0, <1>2 DEF S!RefreshSaves, Fits, CallRow
  <2>2. session' = [session EXCEPT ![call[r].id] = S!Renewed(call[r].copy, call[r].token)] /\ call[r].at = "save"
    BY <1>2 DEF S!RefreshSaves
  <2>3. /\ S!Renewed(call[r].copy, call[r].token) \in TokenRow
        /\ S!Renewed(call[r].copy, call[r].token).revoked = call[r].copy.revoked
    BY <2>1 DEF S!Renewed, TokenRow
  <2> QED BY <1>0, <2>1, <2>2, <2>3
<1>3. CASE S!RevokeSaves(r)
  <2>1. call[r].id \in Session /\ call[r].copy \in TokenRow
    BY <1>0, <1>3 DEF S!RevokeSaves, Fits
  <2>2. session' = [session EXCEPT ![call[r].id] = [call[r].copy EXCEPT !.revoked = TRUE]]
    BY <1>3 DEF S!RevokeSaves
  <2> QED BY <1>0, <2>1, <2>2 DEF TokenRow
<1>4. CASE S!LogoutAll(r) \/ S!PasswordRevokes(r)
  <2>1. session' = [s \in Session |-> IF session[s] = S!Unborn THEN S!Unborn ELSE [session[s] EXCEPT !.revoked = TRUE]]
    BY <1>4 DEF S!LogoutAll, S!PasswordRevokes, S!RevokesAll
  <2>2. \A s \in Session : [session[s] EXCEPT !.revoked = TRUE] \in TokenRow /\ S!Unborn \in TokenRow
    BY <1>0 DEF S!Unborn, TokenRow
  <2>3. \A s \in Session : [session[s] EXCEPT !.revoked = TRUE].revoked
    BY <1>0 DEF TokenRow
  <2>4. \A s \in Session : session[s] = S!Unborn => ~session[s].revoked
    BY DEF S!Unborn
  <2> QED BY <2>1, <2>2, <2>3, <2>4
<1>5. CASE session' = session
    BY <1>0, <1>5
<1> QED BY <1>1, <1>2, <1>3, <1>4, <1>5
       DEF Serves, S!RegisterFinds, S!RegisterInserts, S!LoginChecks, S!LoginCounts, S!LoginSaves,
           S!RefreshValidates, S!RefreshFinds, S!LogoutFinds, S!RevokeFinds, S!Found, S!ChangeFinds,
           S!ChangeSaves, S!Writes, S!Removes, S!ActivationFinds, S!ActivationWrites

(* f is undone between the row before and the row after.                       *)
Undone(f) ==
    /\ f \in user.has \cup {user.state} /\ f # "none"
    /\ f \notin user'.has \cup {user'.state} /\ user'.state # "gone"
    /\ f # "live" \/ user'.state # "deleted"

(* The call that may undo it.                                                *)
Undoes(r, f) ==
    \/ call[r].at = "save" /\ call[r].id = NoSession /\ f \notin call[r].copy.has \cup {call[r].copy.state}
    \/ call[r].at = "save" /\ call[r].op = "preferences" /\ f \in S!Warmup
    \/ call[r].at = "save" /\ call[r].op = "joins" /\ f = "key"
    \/ call[r].at = "update" /\ f \in {"password", "suspended"}

(* The row of the user, and who undoes a change of it.                         *)
LEMMA ServesUser ==
    ASSUME SessionsOK, UsersAssumption, NEW r \in Request, Serves(r)
    PROVE  /\ UserOK'
           /\ \A f : Undone(f) => Undoes(r, f)
<1>0. call[r] \in CallRow /\ Fits(call[r]) /\ UserOK
    BY CallFacts DEF SessionsOK
<1>1. CASE S!RegisterInserts(r)
    BY <1>0, <1>1 DEF S!RegisterInserts, UserOK, UserRow, Undone, Undoes
<1>2. CASE S!LoginSaves(r)
  <2>1. /\ call[r].id = NoSession /\ call[r].copy \in UserRow /\ call[r].copy.state = "live" /\ call[r].at = "save"
        /\ user' = [state |-> "live", has |-> call[r].copy.has]
    BY <1>0, <1>2 DEF S!LoginSaves, S!SavesUser, Fits
  <2> QED BY <2>1 DEF UserOK, UserRow, Undone, Undoes
<1>3. CASE S!ChangeSaves(r)
  <2>1. /\ call[r].id = NoSession /\ call[r].copy \in UserRow /\ call[r].copy.state = "live" /\ call[r].at = "save"
    BY <1>0, <1>3, UsersAssumption DEF S!ChangeSaves, S!Saved, Fits
  <2>2. PICK has \in S!Written(call[r].copy.has, call[r].op) : user' = [state |-> "live", has |-> has]
    BY <1>3 DEF S!ChangeSaves, S!SavesUser
  <2>3. CASE call[r].op = "preferences"
    <3>1. has \in SUBSET Change /\ \A f : f \in call[r].copy.has => f \in has \/ f \in S!Warmup
        BY <2>1, <2>2, <2>3 DEF S!Written, S!Spread, S!Warmup, UserRow, Change
    <3> QED BY <2>1, <2>2, <2>3, <3>1 DEF Undone, Undoes, UserOK, UserRow
  <2>4. CASE call[r].op # "preferences"
    <3>1. /\ call[r].op \in Change
          /\ call[r].copy.has \in SUBSET Change
        BY <1>3, <2>1, <2>4 DEF S!ChangeSaves, S!Saved, UserRow, Change
    <3>2. PICK kept : /\ has = kept \cup {call[r].op}
                      /\ kept \in SUBSET Change
                      /\ \A f : f \in call[r].copy.has => f \in kept \/ (f = "key" /\ call[r].op = "joins")
        BY <2>2, <2>4, <3>1 DEF S!Written, S!Keys, S!Merged, Change
    <3> QED BY <2>1, <2>2, <3>1, <3>2 DEF Undone, Undoes, UserOK, UserRow
  <2> QED BY <2>3, <2>4
<1>4. CASE S!Writes(r)
    BY <1>0, <1>4 DEF S!Writes, UserOK, UserRow, Change, Undone
<1>5. CASE S!Removes(r)
    BY <1>0, <1>5 DEF S!Removes, S!Live, UserOK, UserRow, Undone, Undoes
<1>6. CASE S!ActivationWrites(r)
  <2>1. CASE call[r].at = "insert" /\ user.state = "none" /\ user' = [state |-> "live", has |-> {}]
    BY <1>0, <2>1 DEF UserOK, UserRow, Undone, Undoes
  <2>2. CASE /\ call[r].at = "update" /\ user.state \in {"live", "deleted"}
             /\ user' = [user EXCEPT !.has = user.has \ {"password", "suspended"}]
    BY <1>0, <2>2 DEF UserOK, UserRow, Undone, Undoes
  <2>3. CASE user' = user
    BY <1>0, <2>3 DEF UserOK, Undone
  <2> QED BY <1>6, <2>1, <2>2, <2>3 DEF S!ActivationWrites, S!Synced
<1>7. CASE user' = user
    BY <1>0, <1>7 DEF UserOK, Undone
<1> QED BY <1>1, <1>2, <1>3, <1>4, <1>5, <1>6, <1>7
       DEF Serves, S!RegisterFinds, S!LoginChecks, S!LoginCounts, S!Issues, S!RefreshValidates, S!RefreshFinds,
           S!RefreshSaves, S!LogoutFinds, S!RevokeFinds, S!Found, S!RevokeSaves, S!LogoutAll, S!PasswordRevokes,
           S!ChangeFinds, S!ActivationFinds

(* A call that writes the user's row goes on or ends.                         *)
LEMMA ServesMoves ==
    ASSUME SessionsOK, NEW r \in Request, Serves(r), user' # user
    PROVE  call'[r] # call[r]
<1>0. call \in [Request -> CallRow] /\ S!NoCall.at = "idle"
    BY DEF SessionsOK, CallsOK, S!NoCall
<1>1. call[r].at # "idle" /\ (S!Ends(r) \/ S!Goes(r, "issue") \/ S!Goes(r, "revoke") \/ call'[r].at = "issue")
    BY <1>0 DEF Serves, S!RegisterFinds, S!RegisterInserts, S!LoginChecks, S!LoginCounts, S!LoginSaves, S!Issues,
           S!RefreshValidates, S!RefreshFinds, S!RefreshSaves, S!LogoutFinds, S!RevokeFinds, S!Found,
           S!RevokeSaves, S!LogoutAll, S!PasswordRevokes, S!ChangeFinds, S!ChangeSaves, S!Writes, S!Removes,
           S!ActivationFinds, S!ActivationWrites, CallRow
<1>2. call[r].at # "issue" /\ (call[r].at = "revoke" => ~S!Goes(r, "revoke"))
    BY DEF Serves, S!RegisterFinds, S!RegisterInserts, S!LoginChecks, S!LoginCounts, S!LoginSaves, S!Issues,
           S!RefreshValidates, S!RefreshFinds, S!RefreshSaves, S!LogoutFinds, S!RevokeFinds, S!Found,
           S!RevokeSaves, S!LogoutAll, S!PasswordRevokes, S!ChangeFinds, S!ChangeSaves, S!Writes, S!Removes,
           S!ActivationFinds, S!ActivationWrites
<1> QED BY <1>0, <1>1, <1>2 DEF S!Ends, S!Goes, CallRow

LEMMA ServesClock ==
    ASSUME SessionsOK, NEW r \in Request, Serves(r)
    PROVE  ClockOK'
<1>0. call[r] \in CallRow /\ ClockOK
    BY CallFacts DEF SessionsOK
<1>1. ASSUME NEW token \in Nat, S!Answered(r, token), now' = now PROVE ClockOK'
    BY <1>0, <1>1 DEF S!Answered, ClockOK
<1>2. CASE S!Issues(r) \/ S!RefreshSaves(r) \/ S!LogoutFinds(r) \/ S!RevokeSaves(r)
    BY <1>0, <1>1, <1>2 DEF S!Issues, S!RefreshSaves, S!LogoutFinds, S!Found, S!RevokeSaves, ClockOK, CallRow
<1>3. CASE UNCHANGED <<held, now>>
    BY <1>0, <1>3 DEF ClockOK
<1> QED BY <1>2, <1>3
       DEF Serves, S!RegisterFinds, S!RegisterInserts, S!LoginChecks, S!LoginCounts, S!LoginSaves,
           S!RefreshValidates, S!RefreshFinds, S!RevokeFinds, S!Found, S!LogoutAll, S!PasswordRevokes,
           S!ChangeFinds, S!ChangeSaves, S!Writes, S!Removes, S!ActivationFinds, S!ActivationWrites

LEMMA UsersStep ==
    UsersNext => \/ UNCHANGED sessionVars
                 \/ Passes
                 \/ \E r \in Request : Begins(r) \/ Serves(r)
BY SessionSteps, UserSteps DEF UsersNext

(* A call that saves carries the copy it read, of the right kind: a session for  *)
(* a refresh or a revocation, a user not deleted for a login or a change.        *)
THEOREM SessionsTypeCorrect == UsersSpec => []SessionsOK
<1>1. UsersInit => SessionsOK
    BY NoCallOK DEF UsersInit, S!Init, S!NoRow, S!Unborn, SessionsOK, UserOK, UserRow, TokenRow, ClockOK, CallsOK
<1>2. SessionsOK /\ [UsersNext]_<<part, licenseVars, sessionVars>> => SessionsOK'
  <2> SUFFICES ASSUME SessionsOK, [UsersNext]_<<part, licenseVars, sessionVars>> PROVE SessionsOK'
    OBVIOUS
  <2>1. CASE UNCHANGED sessionVars
    BY <2>1 DEF sessionVars, SessionsOK, UserOK, ClockOK, CallsOK
  <2>2. CASE Passes
    BY <2>2 DEF Passes, SessionsOK, UserOK, CallsOK
  <2>3. ASSUME NEW r \in Request, Serves(r) PROVE SessionsOK'
    BY <2>3, ServesCalls, ServesSessions, ServesUser, ServesClock, UsersAssumption DEF SessionsOK
  <2> QED BY <2>1, <2>2, <2>3, BeginsOK, UsersStep
<1> QED BY <1>1, <1>2, PTL DEF UsersSpec

(* A revoked session becomes valid again only by a refresh that read it before   *)
(* the revocation: every other call writes revoked rows, fresh ones, or none.    *)
THEOREM RevocationKept == UsersSpec => RevokedStaysRevoked
<1>1. SessionsOK /\ [UsersNext]_<<part, licenseVars, sessionVars>>
        => [\A s \in Session :
              session[s].revoked /\ ~session'[s].revoked
                => \E r \in Request : call[r].at = "save" /\ call[r].id = s /\ ~call[r].copy.revoked]_S!vars
  <2> SUFFICES ASSUME SessionsOK, [UsersNext]_<<part, licenseVars, sessionVars>>, NEW s \in Session,
                      session[s].revoked, ~session'[s].revoked
               PROVE  \E r \in Request : call[r].at = "save" /\ call[r].id = s /\ ~call[r].copy.revoked
    OBVIOUS
  <2>1. PICK r \in Request : Begins(r) \/ Serves(r)
    BY UsersStep DEF sessionVars, Passes
  <2> QED BY <2>1, ServesSessions, UsersAssumption DEF Begins
<1> QED BY <1>1, SessionsTypeCorrect, PTL DEF UsersSpec, RevokedStaysRevoked, S!RevokedStaysRevoked

(* What a user changed is undone only by a save whose copy is older than the     *)
(* change, by preferences that bring a warmup of their own, by the owner of an  *)
(* API key, or by an activation: no other statement takes anything off a row    *)
(* that it does not delete for good.                                         *)
THEOREM NothingUndone == UsersSpec => ChangesKept
<1>1. ASSUME SessionsOK, [UsersNext]_<<part, licenseVars, sessionVars>>, NEW f, Undone(f)
      PROVE  \E r \in Request : call'[r] # call[r] /\ Undoes(r, f)
  <2>1. user' # user
    BY <1>1 DEF Undone
  <2>2. PICK r \in Request : Serves(r)
    BY <1>1, <2>1, UsersStep DEF sessionVars, Passes, Begins
  <2>3. Undoes(r, f)
    BY <1>1, <2>2, ServesUser, UsersAssumption
  <2>4. call'[r] # call[r]
    BY <1>1, <2>1, <2>2, ServesMoves
  <2> QED BY <2>3, <2>4
<1>2. SessionsOK /\ [UsersNext]_<<part, licenseVars, sessionVars>>
        => [\A f \in user.has \cup {user.state} :
              LET undone  == f \notin user'.has \cup {user'.state} /\ user'.state # "gone"
                  deleted == f # "live" \/ user'.state # "deleted"
              IN  undone /\ deleted /\ f # "none"
                  => \E r \in Request : call'[r] # call[r] /\
                      \/ call[r].at = "save" /\ call[r].id = NoSession
                         /\ f \notin call[r].copy.has \cup {call[r].copy.state}
                      \/ call[r].at = "save" /\ call[r].op = "preferences" /\ f \in S!Warmup
                      \/ call[r].at = "save" /\ call[r].op = "joins" /\ f = "key"
                      \/ call[r].at = "update" /\ f \in {"password", "suspended"}]_S!vars
    BY <1>1 DEF Undone, Undoes
<1> QED BY <1>2, SessionsTypeCorrect, PTL DEF UsersSpec, ChangesKept, S!ChangesKept
=============================================================================
