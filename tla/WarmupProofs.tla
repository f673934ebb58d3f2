----------------------------- MODULE WarmupProofs -----------------------------
(***************************************************************************)
(* The progress of warm-ups and their parent tasks, proved for any number of     *)
(* accounts, tasks and overlapping requests, and any crashes and failures: two    *)
(* rows that two statements write agree, save where ParentAgrees says.           *)
(* And the minutes at which one account acts (WarmupSchedule), for any groups,     *)
(* positions, starts, length of the package and time the machine is off: its      *)
(* windows fire in its turn, once each, unless the machine is off in them.         *)
(***************************************************************************)
EXTENDS MCWarmup, Integers, TLAPS

RowState ==
    [task: Task \cup {NoTask}, status: {"none", "active", "retired"}, phase: {"none", "package", "P3"}]

CheckState == [pc: {"none", "listed", "save"}, does: {"none", "retire", "toP3", "look"}, seen: RowState]

RequestState ==
    [op: {"none", "start", "retire", "resume", "reset"},
     pc: {"none", "find", "existing", "transaction", "save", "parent", "progress", "tasks", "account"},
     acct: Account \cup {NoAccount}, seen: RowState]

(* A row of an account, or a copy of one, points to a parent of this account; o is  *)
(* tasks.accountId.                                                             *)
Owned(o, p, a) ==
    p = NoRow \/ (p.task \in Task /\ a \in Account /\ o[p.task] = a /\ p.status \in {"active", "retired"})

CheckOK(o, c, a) ==
    /\ c \in CheckState
    /\ Owned(o, c.seen, a)
    /\ c.pc # "none" => c.seen.status = "active"

RequestOK(o, q) ==
    /\ q \in RequestState
    /\ Owned(o, q.seen, q.acct)
    /\ q.pc # "none" => q.acct \in Account
    /\ q.pc = "transaction" => q.seen.status # "active"
    /\ q.pc \in {"save", "parent"} => q.op \in {"retire", "resume"} /\ q.seen.task \in Task
    /\ q.pc = "parent" => q.seen.status = Wanted(q.op)

RowsOK ==
    /\ acct \in [Account -> {"grouped", "ungrouped", "deleted"}]
    /\ parent \in [Task -> {"unborn", "running", "cancelled", "removed"}]
    /\ of \in [Task -> Account \cup {NoAccount}]
    /\ \A t \in Task : parent[t] = "unborn" <=> of[t] = NoAccount
    /\ row \in [Account -> RowState] /\ \A a \in Account : Owned(of, row[a], a)

ChecksOK   == check \in [Account -> CheckState] /\ \A a \in Account : CheckOK(of, check[a], a)
RequestsOK == req \in [Request -> RequestState] /\ \A r \in Request : RequestOK(of, req[r])
HistoryOK  == over \subseteq Task /\ faults \in 0..MaxFaults /\ loose \subseteq Task

(* Every variable has its type, and every copy that is under way fits its step.       *)
TypeOK == RowsOK /\ ChecksOK /\ RequestsOK /\ HistoryOK
-----------------------------------------------------------------------------
(* Rows and copies *)

LEMMA NoRowIs ==
    /\ NoRow \in RowState /\ NoRow.task = NoTask /\ NoRow.status = "none" /\ NoTask \notin Task
    /\ NoCheck \in CheckState /\ NoCheck.pc = "none" /\ NoCheck.seen = NoRow
    /\ NoReq \in RequestState /\ NoReq.pc = "none" /\ NoReq.op = "none" /\ NoReq.seen = NoRow
BY WarmupAssumption DEF NoRow, NoCheck, NoReq, RowState, CheckState, RequestState

LEMMA NoneFits == \A o, a : Owned(o, NoRow, a) /\ CheckOK(o, NoCheck, a) /\ RequestOK(o, NoReq)
BY NoRowIs DEF Owned, CheckOK, RequestOK

(* The same row with another status or phase belongs to the same account.            *)
LEMMA WithOwned ==
    ASSUME NEW o, NEW p \in RowState, NEW a, Owned(o, p, a), p.task \in Task,
           NEW status \in {"active", "retired"}, NEW phase \in {"none", "package", "P3"}
    PROVE  LET q == With(p, status, phase)
           IN  q \in RowState /\ q.task = p.task /\ q.status = status /\ q.phase = phase /\ Owned(o, q, a)
<1> DEFINE q == With(p, status, phase)
<1>1. q \in RowState /\ q.task = p.task /\ q.status = status /\ q.phase = phase
    BY DEF With, RowState
<1>2. p # NoRow
    BY NoRowIs
<1> QED BY <1>1, <1>2 DEF Owned

LEMMA OwnedRow ==
    ASSUME NEW o, NEW p \in RowState, NEW a, Owned(o, p, a)
    PROVE  /\ p.task \in Task => a \in Account /\ o[p.task] = a /\ p.status \in {"active", "retired"}
           /\ p.task = NoTask <=> p = NoRow
           /\ p.status = "active" => p.task \in Task
BY NoRowIs DEF Owned

(* A parent that is born takes none of the others from its account.                 *)
LEMMA OwnersKept ==
    ASSUME NEW t \in Task, NEW b \in Account, of[t] = NoAccount, of \in [Task -> Account \cup {NoAccount}],
           of' = [of EXCEPT ![t] = b]
    PROVE  /\ \A p, a : Owned(of, p, a) => Owned(of', p, a)
           /\ \A c, a : CheckOK(of, c, a) => CheckOK(of', c, a)
           /\ \A q : RequestOK(of, q) => RequestOK(of', q)
           /\ of' \in [Task -> Account \cup {NoAccount}] /\ of'[t] = b /\ \A u \in Task \ {t} : of'[u] = of[u]
<1>1. of' \in [Task -> Account \cup {NoAccount}] /\ of'[t] = b /\ \A u \in Task \ {t} : of'[u] = of[u]
    OBVIOUS
<1>2. \A p, a : Owned(of, p, a) => Owned(of', p, a)
    BY <1>1, WarmupAssumption DEF Owned
<1>3. \A c, a : CheckOK(of, c, a) => CheckOK(of', c, a)
    BY <1>2 DEF CheckOK
<1>4. \A q : RequestOK(of, q) => RequestOK(of', q)
    BY <1>2 DEF RequestOK
<1> QED BY <1>1, <1>2, <1>3, <1>4

(* Parts of the state that stay, or of which one row, check or request changes.        *)
LEMMA RowsStay ==
    ASSUME RowsOK, UNCHANGED <<acct, row, parent, of>> PROVE RowsOK'
BY DEF RowsOK

LEMMA RowChanges ==
    ASSUME RowsOK, UNCHANGED <<acct, parent, of>>, NEW a \in Account, NEW p \in RowState, Owned(of, p, a),
           row' = [row EXCEPT ![a] = p]
    PROVE  RowsOK'
BY DEF RowsOK

LEMMA ParentsChange ==
    ASSUME RowsOK, UNCHANGED <<acct, row, of>>, parent' \in [Task -> {"unborn", "running", "cancelled", "removed"}],
           \A t \in Task : parent'[t] = parent[t] \/ (parent'[t] # "unborn" /\ of[t] # NoAccount)
    PROVE  RowsOK'
BY DEF RowsOK

LEMMA RequestMoves ==
    ASSUME RequestsOK, of' = of, NEW r \in Request, NEW q, req' = [req EXCEPT ![r] = q], RequestOK(of, q)
    PROVE  RequestsOK' /\ req'[r] = q /\ \A s \in Request \ {r} : req'[s] = req[s]
BY DEF RequestsOK, RequestOK

LEMMA CheckMoves ==
    ASSUME ChecksOK, of' = of, NEW a \in Account, NEW c, check' = [check EXCEPT ![a] = c], CheckOK(of, c, a)
    PROVE  ChecksOK' /\ check'[a] = c /\ \A b \in Account \ {a} : check'[b] = check[b]
BY DEF ChecksOK, CheckOK

LEMMA Endings ==
    ASSUME RequestsOK, of' = of, NEW r \in Request, Ends(r)
    PROVE  RequestsOK' /\ req'[r] = NoReq /\ \A s \in Request \ {r} : req'[s] = req[s]
BY RequestMoves, NoneFits DEF Ends

LEMMA Apartness ==
    ASSUME RowsOK, NEW a \in Account, NEW p \in RowState
    PROVE  /\ Apart(a, p) \subseteq Task
           /\ row[a] = p => Apart(a, p) = {}
           /\ row[a] # p => /\ p.task \in Task => p.task \in Apart(a, p)
                            /\ row[a].task \in Task => row[a].task \in Apart(a, p)
BY NoRowIs DEF Apart, RowsOK, RowState
-----------------------------------------------------------------------------
(* The types are kept by every step *)

LEMMA TypesInit == Init => TypeOK
<1> SUFFICES ASSUME Init PROVE TypeOK
    OBVIOUS
<1>1. RowsOK
    BY NoRowIs, NoneFits DEF Init, RowsOK
<1>2. ChecksOK
    BY NoRowIs, NoneFits DEF Init, ChecksOK
<1>3. RequestsOK
    BY NoRowIs, NoneFits DEF Init, RequestsOK
<1>4. HistoryOK
    BY WarmupAssumption DEF Init, HistoryOK
<1> QED BY <1>1, <1>2, <1>3, <1>4 DEF TypeOK

LEMMA ParentBorn ==
    ASSUME TypeOK, NEW r \in Request, NEW t \in Task, StartCommits(r, t)
    PROVE  /\ RowsOK' /\ ChecksOK' /\ RequestsOK'
           /\ of[t] = NoAccount /\ parent[t] = "unborn"
           /\ of'[t] = req[r].acct /\ parent'[t] = "running"
           /\ \A u \in Task \ {t} : of'[u] = of[u] /\ parent'[u] = parent[u]
           /\ req[r].acct \in Account /\ req[r].seen \in RowState /\ req[r].seen.status # "active"
           /\ row'[req[r].acct].task = t /\ row'[req[r].acct].status = "active"
           /\ \A b \in Account \ {req[r].acct} : row'[b] = row[b]
           /\ req'[r] = NoReq /\ \A s \in Request \ {r} : req'[s] = req[s]
<1> DEFINE a == req[r].acct
           new == [task |-> t, status |-> "active", phase |-> "package"]
<1>1. a \in Account /\ req[r].seen \in RowState /\ req[r].seen.status # "active"
    BY DEF TypeOK, RequestsOK, RequestOK, RequestState, StartCommits
<1>2. /\ parent[t] = "unborn" /\ of[t] = NoAccount
      /\ parent' = [parent EXCEPT ![t] = "running"] /\ of' = [of EXCEPT ![t] = a]
      /\ row' = [row EXCEPT ![a] = new] /\ Ends(r) /\ UNCHANGED <<acct, check>>
    BY DEF StartCommits, Born, TypeOK, RowsOK
<1>3. /\ \A p, b : Owned(of, p, b) => Owned(of', p, b)
      /\ \A c, b : CheckOK(of, c, b) => CheckOK(of', c, b)
      /\ \A q : RequestOK(of, q) => RequestOK(of', q)
      /\ of' \in [Task -> Account \cup {NoAccount}] /\ of'[t] = a /\ \A u \in Task \ {t} : of'[u] = of[u]
    BY <1>1, <1>2, OwnersKept DEF TypeOK, RowsOK
<1>4. parent' \in [Task -> {"unborn", "running", "cancelled", "removed"}]
      /\ parent'[t] = "running" /\ \A u \in Task \ {t} : parent'[u] = parent[u]
    BY <1>2 DEF TypeOK, RowsOK
<1>5. new \in RowState /\ new.task = t /\ new.status = "active"
    BY DEF RowState
<1>6. row' \in [Account -> RowState] /\ row'[a] = new /\ \A b \in Account \ {a} : row'[b] = row[b]
    BY <1>1, <1>2, <1>5 DEF TypeOK, RowsOK
<1>7. RowsOK'
  <2>1. \A b \in Account : Owned(of', row'[b], b)
    <3>1. Owned(of', new, a)
        BY <1>1, <1>3, <1>5 DEF Owned
    <3> QED BY <3>1, <1>3, <1>6 DEF TypeOK, RowsOK
  <2>2. \A u \in Task : parent'[u] = "unborn" <=> of'[u] = NoAccount
      BY <1>1, <1>3, <1>4, WarmupAssumption DEF TypeOK, RowsOK
  <2> QED BY <2>1, <2>2, <1>2, <1>3, <1>4, <1>6 DEF TypeOK, RowsOK
<1>8. ChecksOK'
    BY <1>2, <1>3 DEF TypeOK, ChecksOK
<1>9. req' = [req EXCEPT ![r] = NoReq]
    BY <1>2 DEF Ends
<1>10. RequestsOK' /\ req'[r] = NoReq /\ \A s \in Request \ {r} : req'[s] = req[s]
  <2>1. req' \in [Request -> RequestState] /\ req'[r] = NoReq /\ \A s \in Request \ {r} : req'[s] = req[s]
      BY <1>9, NoRowIs DEF TypeOK, RequestsOK
  <2>2. \A s \in Request : RequestOK(of', req'[s])
      BY <2>1, <1>3, NoneFits DEF TypeOK, RequestsOK
  <2> QED BY <2>1, <2>2 DEF RequestsOK
<1> QED BY <1>1, <1>2, <1>3, <1>4, <1>5, <1>6, <1>7, <1>8, <1>10

(* A request that goes to a step with a copy that fits it.                            *)
LEMMA Steps ==
    ASSUME TypeOK, of' = of, NEW r \in Request, NEW pc, NEW p, Goes(r, pc, p),
           RequestOK(of, [op |-> req[r].op, pc |-> pc, acct |-> req[r].acct, seen |-> p])
    PROVE  /\ RequestsOK'
           /\ req'[r] = [op |-> req[r].op, pc |-> pc, acct |-> req[r].acct, seen |-> p]
           /\ \A s \in Request \ {r} : req'[s] = req[s]
BY RequestMoves DEF Goes, TypeOK

LEMMA RequestFit ==
    ASSUME NEW o, NEW op \in {"none", "start", "retire", "resume", "reset"},
           NEW pc \in {"none", "find", "existing", "transaction", "save", "parent", "progress", "tasks", "account"},
           NEW a \in Account, NEW p \in RowState, Owned(o, p, a),
           pc = "transaction" => p.status # "active",
           pc \in {"save", "parent"} => op \in {"retire", "resume"} /\ p.task \in Task,
           pc = "parent" => p.status = Wanted(op)
    PROVE  RequestOK(o, [op |-> op, pc |-> pc, acct |-> a, seen |-> p])
BY DEF RequestOK, RequestState

LEMMA RequestIs ==
    ASSUME TypeOK, NEW r \in Request
    PROVE  /\ req[r].op \in {"none", "start", "retire", "resume", "reset"}
           /\ req[r].pc # "none" => req[r].acct \in Account
           /\ req[r].seen \in RowState /\ Owned(of, req[r].seen, req[r].acct)
           /\ req[r].pc \in {"save", "parent"} => req[r].op \in {"retire", "resume"} /\ req[r].seen.task \in Task
           /\ req[r].pc = "parent" => req[r].seen.status = Wanted(req[r].op)
BY DEF TypeOK, RequestsOK, RequestOK, RequestState

LEMMA ProgressSaved ==
    ASSUME TypeOK, NEW r \in Request, SavesProgress(r)
    PROVE  LET a == req[r].acct
               p == req[r].seen
               q == With(p, Wanted(req[r].op), p.phase)
           IN  /\ TypeOK' /\ a \in Account /\ p \in RowState /\ p.task \in Task /\ q.task = p.task
               /\ \/ /\ row'[a] = q /\ \A b \in Account \ {a} : row'[b] = row[b]
                     /\ req'[r].acct = a /\ req'[r].pc = "parent" /\ req'[r].seen = q
                     /\ loose' = loose \cup Apart(a, p)
                  \/ row' = row /\ loose' = loose
<1> DEFINE a == req[r].acct
           p == req[r].seen
           q == With(p, Wanted(req[r].op), p.phase)
<1>1. /\ a \in Account /\ p \in RowState /\ Owned(of, p, a) /\ p.task \in Task
      /\ req[r].op \in {"retire", "resume"} /\ UNCHANGED <<acct, parent, of, over, check, faults>>
    BY RequestIs DEF SavesProgress
<1>2. Wanted(req[r].op) \in {"active", "retired"} /\ p.phase \in {"none", "package", "P3"}
    BY <1>1 DEF Wanted, RowState
<1>3. q \in RowState /\ q.task = p.task /\ q.status = Wanted(req[r].op) /\ Owned(of, q, a)
    BY <1>1, <1>2, WithOwned
<1>4. ChecksOK'
    BY <1>1 DEF TypeOK, ChecksOK
<1>5. CASE Saves(a, q) /\ Goes(r, "parent", q) /\ loose' = loose \cup Apart(a, p)
  <2>1. RowsOK' /\ row'[a] = q /\ \A b \in Account \ {a} : row'[b] = row[b]
      BY <1>1, <1>3, <1>5, RowChanges DEF Saves, TypeOK, RowsOK
  <2>2. RequestOK(of, [op |-> req[r].op, pc |-> "parent", acct |-> a, seen |-> q])
      BY <1>1, <1>3, RequestFit
  <2>3. RequestsOK' /\ req'[r] = [op |-> req[r].op, pc |-> "parent", acct |-> a, seen |-> q]
      BY <1>1, <1>5, <2>2, Steps
  <2>4. HistoryOK'
      BY <1>1, <1>5, Apartness DEF HistoryOK, TypeOK
  <2> QED BY <1>1, <1>3, <1>4, <1>5, <2>1, <2>3, <2>4 DEF TypeOK
<1>6. CASE Refused(a, q) /\ Ends(r) /\ UNCHANGED <<row, loose>>
  <2>1. RowsOK' /\ RequestsOK' /\ HistoryOK'
      BY <1>1, <1>6, RowsStay, Endings DEF TypeOK, HistoryOK
  <2> QED BY <1>1, <1>3, <1>4, <1>6, <2>1 DEF TypeOK
<1> QED BY <1>5, <1>6 DEF SavesProgress

LEMMA ParentIsTold ==
    ASSUME TypeOK, NEW r \in Request, TellsParent(r)
    PROVE  LET a == req[r].acct
               t == req[r].seen.task
           IN  /\ TypeOK' /\ a \in Account /\ t \in Task /\ of[t] = a
               /\ req[r].seen \in RowState /\ req[r].seen.status = Wanted(req[r].op) /\ req[r].op \in {"retire", "resume"}
               /\ \A u \in Task \ {t} : parent'[u] = parent[u]
               /\ IF parent[t] = "removed" THEN parent'[t] = "removed"
                  ELSE parent'[t] = IF req[r].op = "retire" THEN "cancelled" ELSE "running"
               /\ loose' = loose \cup Apart(a, req[r].seen)
               /\ req'[r] = NoReq /\ \A s \in Request \ {r} : req'[s] = req[s]
<1> DEFINE a == req[r].acct
           t == req[r].seen.task
<1>1. /\ a \in Account /\ t \in Task /\ req[r].seen \in RowState /\ Owned(of, req[r].seen, a)
      /\ req[r].seen.status = Wanted(req[r].op) /\ req[r].op \in {"retire", "resume"}
      /\ UNCHANGED <<acct, row, of, over, check, faults>> /\ parent' = ParentTold(req[r].op, t)
      /\ loose' = loose \cup Apart(a, req[r].seen) /\ Ends(r)
    BY RequestIs DEF TellsParent
<1>2. of[t] = a
    BY <1>1, OwnedRow
<1>3. /\ parent' \in [Task -> {"unborn", "running", "cancelled", "removed"}]
      /\ \A u \in Task \ {t} : parent'[u] = parent[u]
      /\ parent'[t] # "unborn" \/ parent'[t] = parent[t]
      /\ IF parent[t] = "removed" THEN parent'[t] = "removed"
         ELSE parent'[t] = IF req[r].op = "retire" THEN "cancelled" ELSE "running"
    BY <1>1 DEF ParentTold, TypeOK, RowsOK
<1>4. RowsOK'
    BY <1>1, <1>2, <1>3, ParentsChange, WarmupAssumption DEF TypeOK
<1>5. ChecksOK' /\ HistoryOK'
    BY <1>1, Apartness DEF TypeOK, ChecksOK, HistoryOK
<1>6. RequestsOK' /\ req'[r] = NoReq /\ \A s \in Request \ {r} : req'[s] = req[s]
    BY <1>1, Endings DEF TypeOK
<1> QED BY <1>1, <1>2, <1>3, <1>4, <1>5, <1>6 DEF TypeOK

LEMMA ProgressDeleted ==
    ASSUME TypeOK, NEW r \in Request, ResetDeletesProgress(r)
    PROVE  LET a == req[r].acct
           IN  /\ TypeOK' /\ a \in Account /\ \A b \in Account \ {a} : row'[b] = row[b]
               /\ row'[a] = NoRow
               /\ req'[r].acct = a /\ req'[r].op = "reset" /\ req'[r].pc = "tasks"
               /\ \A s \in Request \ {r} : req'[s] = req[s]
<1> DEFINE a == req[r].acct
<1>1. a \in Account /\ UNCHANGED <<acct, parent, of, over, check, faults, loose>> /\ req[r].op = "reset"
    BY RequestIs DEF ResetDeletesProgress
<1>2. RequestOK(of, [op |-> req[r].op, pc |-> "tasks", acct |-> a, seen |-> NoRow])
    BY <1>1, RequestFit, NoRowIs, NoneFits
<1>3. RequestsOK' /\ req'[r] = [op |-> req[r].op, pc |-> "tasks", acct |-> a, seen |-> NoRow]
      /\ \A s \in Request \ {r} : req'[s] = req[s]
    BY <1>1, <1>2, Steps DEF ResetDeletesProgress
<1>4. RowsOK' /\ row'[a] = NoRow /\ \A b \in Account \ {a} : row'[b] = row[b]
    BY <1>1, NoRowIs, NoneFits, RowChanges DEF ResetDeletesProgress, TypeOK, RowsOK
<1>5. ChecksOK' /\ HistoryOK'
    BY <1>1 DEF TypeOK, ChecksOK, HistoryOK
<1> QED BY <1>1, <1>3, <1>4, <1>5 DEF TypeOK

LEMMA TasksDeleted ==
    ASSUME TypeOK, NEW r \in Request, ResetDeletesTasks(r)
    PROVE  LET a == req[r].acct
           IN  /\ TypeOK' /\ a \in Account
               /\ \A t \in Task : parent'[t] = IF of[t] = a THEN "removed" ELSE parent[t]
               /\ loose' = loose \cup Apart(a, NoRow)
               /\ \A s \in Request \ {r} : req'[s] = req[s]
<1> DEFINE a == req[r].acct
<1>1. /\ a \in Account /\ UNCHANGED <<acct, row, of, over, check, faults>>
      /\ parent' = [t \in Task |-> IF t \in TasksOf(a) THEN "removed" ELSE parent[t]]
      /\ loose' = loose \cup Apart(a, NoRow) /\ Goes(r, "account", NoRow) /\ req[r].op = "reset"
    BY RequestIs DEF ResetDeletesTasks
<1>2. RequestOK(of, [op |-> req[r].op, pc |-> "account", acct |-> a, seen |-> NoRow])
    BY <1>1, RequestFit, NoRowIs, NoneFits
<1>3. RequestsOK' /\ \A s \in Request \ {r} : req'[s] = req[s]
    BY <1>1, <1>2, Steps
<1>4. \A t \in Task : parent'[t] = IF of[t] = a THEN "removed" ELSE parent[t]
    BY <1>1 DEF TasksOf
<1>5. RowsOK'
  <2>1. parent' \in [Task -> {"unborn", "running", "cancelled", "removed"}]
      BY <1>1 DEF TypeOK, RowsOK
  <2>2. \A t \in Task : parent'[t] = parent[t] \/ (parent'[t] # "unborn" /\ of[t] # NoAccount)
      BY <1>1, <1>4, WarmupAssumption
  <2> QED BY <1>1, <2>1, <2>2, ParentsChange DEF TypeOK
<1>6. ChecksOK' /\ HistoryOK'
    BY <1>1, Apartness, NoRowIs DEF TypeOK, ChecksOK, HistoryOK
<1> QED BY <1>1, <1>3, <1>4, <1>5, <1>6 DEF TypeOK

(* The steps of a request that read: no row, parent or loose task changes.             *)
LEMMA Reads ==
    ASSUME TypeOK, NEW r \in Request,
           StartFindsAccount(r) \/ StartFindsExisting(r) \/ StartRollsBack(r) \/ Finds(r)
           \/ ResetFinds(r) \/ ResetDeletesAccount(r)
    PROVE  /\ TypeOK' /\ UNCHANGED <<row, parent, of, loose>>
           /\ ~(req[r].pc = "parent" \/ (req[r].op = "reset" /\ req[r].pc = "tasks"))
           /\ \A s \in Request \ {r} : req'[s] = req[s]
<1> DEFINE a == req[r].acct
<1>1. /\ a \in Account /\ UNCHANGED <<row, parent, of, over, check, faults, loose>>
      /\ ~(req[r].pc = "parent" \/ (req[r].op = "reset" /\ req[r].pc = "tasks"))
    BY RequestIs DEF StartFindsAccount, StartFindsExisting, StartRollsBack, Finds, ResetFinds, ResetDeletesAccount
<1>2. row[a] \in RowState /\ Owned(of, row[a], a)
    BY <1>1 DEF TypeOK, RowsOK
<1>3. RowsOK'
  <2>1. acct' \in [Account -> {"grouped", "ungrouped", "deleted"}]
      BY DEF StartFindsAccount, StartFindsExisting, StartRollsBack, Finds, ResetFinds, ResetDeletesAccount,
             TypeOK, RowsOK
  <2> QED BY <1>1, <2>1 DEF TypeOK, RowsOK
<1>4. RequestsOK' /\ \A s \in Request \ {r} : req'[s] = req[s]
  <2>1. CASE Ends(r)
      BY <1>1, <2>1, Endings DEF TypeOK
  <2>2. CASE Goes(r, "existing", NoRow) \/ Goes(r, "progress", NoRow)
    <3>1. /\ RequestOK(of, [op |-> req[r].op, pc |-> "existing", acct |-> a, seen |-> NoRow])
          /\ RequestOK(of, [op |-> req[r].op, pc |-> "progress", acct |-> a, seen |-> NoRow])
      <4>1. req[r].op \in {"none", "start", "retire", "resume", "reset"}
          BY RequestIs
      <4>2. NoRow \in RowState /\ Owned(of, NoRow, a) /\ a \in Account
          BY <1>1, NoRowIs, NoneFits
      <4> HIDE DEF a
      <4>3. RequestOK(of, [op |-> req[r].op, pc |-> "existing", acct |-> a, seen |-> NoRow])
          BY <4>1, <4>2, RequestFit
      <4>4. RequestOK(of, [op |-> req[r].op, pc |-> "progress", acct |-> a, seen |-> NoRow])
          BY <4>1, <4>2, RequestFit
      <4> QED BY <4>3, <4>4
    <3> QED BY <1>1, <2>2, <3>1, Steps
  <2>3. CASE Goes(r, "transaction", row[a]) /\ row[a].status # "active"
    <3>1. RequestOK(of, [op |-> req[r].op, pc |-> "transaction", acct |-> a, seen |-> row[a]])
        BY <1>1, <1>2, <2>3, RequestIs, RequestFit
    <3> QED BY <1>1, <2>3, <3>1, Steps
  <2>4. CASE Goes(r, "save", row[a]) /\ req[r].op \in {"retire", "resume"} /\ row[a] # NoRow
    <3>1. row[a].task \in Task
        BY <1>2, <2>4 DEF Owned
    <3>2. RequestOK(of, [op |-> req[r].op, pc |-> "save", acct |-> a, seen |-> row[a]])
        BY <1>1, <1>2, <2>4, <3>1, RequestIs, RequestFit
    <3> QED BY <1>1, <2>4, <3>2, Steps
  <2> QED BY <2>1, <2>2, <2>3, <2>4
          DEF StartFindsAccount, StartFindsExisting, StartRollsBack, Finds, ResetFinds, ResetDeletesAccount
<1>5. ChecksOK' /\ HistoryOK'
    BY <1>1 DEF TypeOK, ChecksOK, HistoryOK
<1> QED BY <1>1, <1>3, <1>4, <1>5 DEF TypeOK

LEMMA AskedTypes ==
    ASSUME TypeOK, NEW r \in Request, NEW a \in Account, NEW op \in Ops[r], Asks(r, op, a)
    PROVE  /\ TypeOK' /\ UNCHANGED <<row, parent, of, loose>> /\ req[r] = NoReq
           /\ \A s \in Request \ {r} : req'[s] = req[s]
<1>1. op \in {"none", "start", "retire", "resume", "reset"}
    BY WarmupAssumption
<1>2. RequestOK(of, [op |-> op, pc |-> "find", acct |-> a, seen |-> NoRow])
    BY <1>1, RequestFit, NoRowIs, NoneFits
<1>3. RequestsOK' /\ \A s \in Request \ {r} : req'[s] = req[s]
    BY <1>2, RequestMoves DEF Asks, TypeOK
<1>4. RowsOK' /\ ChecksOK' /\ HistoryOK'
    BY RowsStay DEF Asks, TypeOK, ChecksOK, HistoryOK
<1> QED BY <1>3, <1>4 DEF Asks, TypeOK

LEMMA InterruptedAre == ASSUME TypeOK, NEW r \in Request PROVE Interrupted(r) \subseteq Task
BY RequestIs DEF Interrupted, TasksOf

LEMMA FailedTypes ==
    ASSUME TypeOK, NEW r \in Request, RequestFails(r)
    PROVE  /\ TypeOK' /\ UNCHANGED <<row, parent, of>> /\ loose' = loose \cup Interrupted(r)
           /\ \A s \in Request \ {r} : req'[s] = req[s]
<1>1. /\ UNCHANGED <<acct, row, parent, of, over, check>> /\ loose' = loose \cup Interrupted(r)
      /\ faults < MaxFaults /\ faults' = faults + 1 /\ Ends(r)
    BY DEF RequestFails
<1>2. RequestsOK' /\ \A s \in Request \ {r} : req'[s] = req[s]
    BY <1>1, Endings DEF TypeOK
<1>3. faults' \in 0..MaxFaults
    BY <1>1, WarmupAssumption DEF TypeOK, HistoryOK
<1>4. RowsOK' /\ ChecksOK' /\ HistoryOK'
    BY <1>1, <1>3, RowsStay, InterruptedAre DEF TypeOK, ChecksOK, HistoryOK
<1> QED BY <1>1, <1>2, <1>4 DEF TypeOK

(* What the tick does between its statements changes no row and no parent.             *)
LEMMA TickReads ==
    ASSUME TypeOK, TickStarts \/ \E a \in Account : Decides(a) \/ CheckFails(a)
    PROVE  TypeOK' /\ UNCHANGED <<row, parent, of, req, loose>>
<1>1. UNCHANGED <<acct, row, parent, of, over, req, loose>> /\ RowsOK' /\ RequestsOK'
    BY RowsStay DEF TickStarts, Decides, CheckFails, CheckGoes, TypeOK, RequestsOK
<1>2. CASE TickStarts
  <2>1. \A a \in Account : row[a].status = "active" => CheckOK(of, [pc |-> "listed", does |-> "none", seen |-> row[a]], a)
      BY DEF TypeOK, RowsOK, CheckOK, CheckState
  <2>2. check' \in [Account -> CheckState] /\ \A a \in Account : CheckOK(of, check'[a], a)
      BY <1>2, <2>1, NoneFits, NoRowIs DEF TickStarts, CheckOK
  <2>3. ChecksOK' /\ HistoryOK'
      BY <1>1, <1>2, <2>2 DEF ChecksOK, TickStarts, HistoryOK, TypeOK
  <2> QED BY <1>1, <2>3 DEF TypeOK
<1>3. ASSUME NEW a \in Account, Decides(a)
      PROVE  TypeOK'
  <2>1. PICK d \in {"retire", "toP3", "look"} : CheckGoes(a, "save", d)
      BY <1>3 DEF Decides, Decisions
  <2>2. CheckOK(of, check[a], a) /\ check[a].pc = "listed"
      BY <1>3 DEF Decides, TypeOK, ChecksOK
  <2>3. CheckOK(of, [pc |-> "save", does |-> d, seen |-> check[a].seen], a)
      BY <2>2 DEF CheckOK, CheckState
  <2>4. ChecksOK'
      BY <1>1, <2>1, <2>3, CheckMoves DEF CheckGoes, TypeOK
  <2>5. HistoryOK'
      BY <1>3 DEF Decides, HistoryOK, TypeOK
  <2> QED BY <1>1, <2>4, <2>5 DEF TypeOK
<1>4. ASSUME NEW a \in Account, CheckFails(a)
      PROVE  TypeOK'
  <2>1. ChecksOK'
      BY <1>1, <1>4, CheckMoves, NoneFits DEF CheckFails, TypeOK
  <2>2. HistoryOK'
      BY <1>4, WarmupAssumption DEF CheckFails, HistoryOK, TypeOK
  <2> QED BY <1>1, <2>1, <2>2 DEF TypeOK
<1> QED BY <1>1, <1>2, <1>3, <1>4

LEMMA CheckIsSaved ==
    ASSUME TypeOK, NEW a \in Account, CheckSaves(a)
    PROVE  LET p == check[a].seen
           IN  /\ TypeOK' /\ UNCHANGED <<parent, of, req>> /\ p \in RowState /\ p.task \in Task /\ p.status = "active"
               /\ \/ row' = row /\ loose' = loose
                  \/ /\ row'[a].task = p.task /\ \A b \in Account \ {a} : row'[b] = row[b]
                     /\ row'[a].status = "active" \/ p.task \in loose'
                     /\ loose \subseteq loose' /\ Apart(a, p) \subseteq loose'
<1> DEFINE c == check[a]
           p == c.seen
           q == CASE c.does = "retire" -> With(p, "retired", p.phase)
                  [] c.does = "toP3"   -> With(p, "active", "P3")
                  [] OTHER             -> p
<1>1. /\ p \in RowState /\ p.status = "active" /\ Owned(of, p, a) /\ c.pc = "save"
    BY DEF CheckSaves, TypeOK, ChecksOK, CheckOK, CheckState
<1>2. p.task \in Task /\ p.phase \in {"none", "package", "P3"}
    BY <1>1, OwnedRow DEF RowState
<1>3. /\ q \in RowState /\ q.task = p.task /\ Owned(of, q, a)
      /\ q.status = "active" \/ c.does = "retire"
  <2>1. CASE c.does = "retire"
      BY <1>1, <1>2, <2>1, WithOwned
  <2>2. CASE c.does = "toP3"
      BY <1>1, <1>2, <2>2, WithOwned
  <2>3. CASE c.does \notin {"retire", "toP3"}
      BY <1>1, <1>2, <2>3
  <2> QED BY <2>1, <2>2, <2>3
<1>4. check' = [check EXCEPT ![a] = NoCheck] /\ UNCHANGED <<acct, parent, of, over, req, faults>>
    BY DEF CheckSaves
<1>5. ChecksOK' /\ RequestsOK'
    BY <1>4, CheckMoves, NoneFits DEF TypeOK, RequestsOK
<1>6. CASE /\ Saves(a, q)
           /\ loose' = loose \cup Apart(a, p) \cup (IF c.does = "retire" THEN {q.task} ELSE {})
  <2>1. RowsOK' /\ row'[a] = q /\ \A b \in Account \ {a} : row'[b] = row[b]
      BY <1>3, <1>4, <1>6, RowChanges DEF Saves, TypeOK, RowsOK
  <2>2. HistoryOK'
      BY <1>1, <1>2, <1>3, <1>4, <1>6, Apartness DEF TypeOK, HistoryOK
  <2> QED BY <1>1, <1>2, <1>3, <1>4, <1>5, <1>6, <2>1, <2>2 DEF TypeOK
<1>7. CASE Refused(a, q) /\ UNCHANGED <<row, loose>>
    BY <1>1, <1>2, <1>4, <1>5, <1>7, RowsStay DEF TypeOK, HistoryOK
<1> QED BY <1>6, <1>7 DEF CheckSaves

LEMMA UsersAct ==
    ASSUME TypeOK, (\E a \in Account : AssignGroup(a) \/ RemoveAccount(a)) \/ \E t \in Task : PackageIsOver(t)
    PROVE  TypeOK' /\ UNCHANGED <<row, parent, of, req, loose>>
<1>1. UNCHANGED <<row, parent, of, check, req, faults, loose>>
    BY DEF AssignGroup, RemoveAccount, PackageIsOver
<1>2. acct' \in [Account -> {"grouped", "ungrouped", "deleted"}] /\ over' \subseteq Task
    BY DEF AssignGroup, RemoveAccount, PackageIsOver, TypeOK, RowsOK, HistoryOK
<1>3. RowsOK' /\ ChecksOK' /\ RequestsOK' /\ HistoryOK'
    BY <1>1, <1>2 DEF TypeOK, RowsOK, ChecksOK, RequestsOK, HistoryOK
<1> QED BY <1>1, <1>3 DEF TypeOK

LEMMA Restarts ==
    ASSUME TypeOK, Restart
    PROVE  /\ TypeOK' /\ UNCHANGED <<row, of>>
           /\ \A t \in Task : parent'[t] = IF t \in Orphans THEN "cancelled" ELSE parent[t]
           /\ loose' = loose \cup UNION {Interrupted(r) : r \in Request}
<1>1. /\ UNCHANGED <<acct, row, of, over>> /\ check' = [a \in Account |-> NoCheck]
      /\ req' = [r \in Request |-> NoReq] /\ loose' = loose \cup UNION {Interrupted(r) : r \in Request}
      /\ parent' = [t \in Task |-> IF t \in Orphans THEN "cancelled" ELSE parent[t]]
    BY DEF Restart
<1>2. RowsOK'
  <2>1. parent' \in [Task -> {"unborn", "running", "cancelled", "removed"}]
      BY <1>1 DEF TypeOK, RowsOK
  <2>2. \A t \in Task : parent'[t] = parent[t] \/ (parent'[t] # "unborn" /\ of[t] # NoAccount)
      BY <1>1 DEF Orphans, TypeOK, RowsOK
  <2> QED BY <1>1, <2>1, <2>2, ParentsChange DEF TypeOK
<1>3. ChecksOK' /\ RequestsOK'
    BY <1>1, NoneFits, NoRowIs DEF ChecksOK, RequestsOK
<1>4. HistoryOK'
  <2>1. loose' \subseteq Task
      BY <1>1, InterruptedAre DEF TypeOK, HistoryOK
  <2>2. faults' \in 0..MaxFaults
      BY WarmupAssumption DEF Restart, TypeOK, HistoryOK
  <2> QED BY <1>1, <2>1, <2>2 DEF TypeOK, HistoryOK
<1> QED BY <1>1, <1>2, <1>3, <1>4 DEF TypeOK

LEMMA TypesStep == TypeOK /\ [Next]_vars => TypeOK'
<1> SUFFICES ASSUME TypeOK, [Next]_vars PROVE TypeOK'
    OBVIOUS
<1>1. ASSUME NEW r \in Request, NEW a \in Account, NEW op \in Ops[r], Asks(r, op, a)
      PROVE  TypeOK'
    BY <1>1, AskedTypes
<1>2. ASSUME NEW r \in Request, RequestStep(r)
      PROVE  TypeOK'
  <2>1. ASSUME NEW t \in Task, StartCommits(r, t)
        PROVE  TypeOK'
    <3>1. RowsOK' /\ ChecksOK' /\ RequestsOK' /\ req[r].seen \in RowState /\ req[r].acct \in Account
        BY <2>1, ParentBorn
    <3>2. loose' \subseteq Task
        BY <2>1, <3>1, Apartness DEF StartCommits, TypeOK, HistoryOK
    <3>3. HistoryOK'
        BY <2>1, <3>2 DEF StartCommits, TypeOK, HistoryOK
    <3> QED BY <3>1, <3>3 DEF TypeOK
  <2>2. CASE SavesProgress(r)
      BY <2>2, ProgressSaved
  <2>3. CASE TellsParent(r)
      BY <2>3, ParentIsTold
  <2>4. CASE ResetDeletesProgress(r)
      BY <2>4, ProgressDeleted
  <2>5. CASE ResetDeletesTasks(r)
      BY <2>5, TasksDeleted
  <2>6. CASE RequestFails(r)
      BY <2>6, FailedTypes
  <2>7. CASE StartFindsAccount(r) \/ StartFindsExisting(r) \/ StartRollsBack(r) \/ Finds(r)
             \/ ResetFinds(r) \/ ResetDeletesAccount(r)
      BY <2>7, Reads
  <2> QED BY <1>2, <2>1, <2>2, <2>3, <2>4, <2>5, <2>6, <2>7 DEF RequestStep
<1>3. CASE TickStep
    BY <1>3, TickReads, CheckIsSaved DEF TickStep, CheckStep
<1>4. CASE \E a \in Account : CheckFails(a) \/ AssignGroup(a) \/ RemoveAccount(a)
    BY <1>4, TickReads, UsersAct
<1>5. CASE \E t \in Task : PackageIsOver(t)
    BY <1>5, UsersAct
<1>6. CASE Restart
    BY <1>6, Restarts
<1>7. CASE UNCHANGED vars
    BY <1>7, RowsStay DEF vars, TypeOK, ChecksOK, RequestsOK, HistoryOK
<1> QED BY <1>1, <1>2, <1>3, <1>4, <1>5, <1>6, <1>7 DEF Next

(* Every step keeps the types of the rows, the parents, the tick's copies and what     *)
(* every request has read.                                                      *)
THEOREM WarmupTypeCorrect == Spec => []TypeOK
<1>1. Init => TypeOK
    BY TypesInit
<1>2. TypeOK /\ [Next]_vars => TypeOK'
    BY TypesStep
<1> QED BY <1>1, <1>2, PTL DEF Spec
-----------------------------------------------------------------------------
(* A parent and the progress of its account agree *)

Agrees(t, a) == parent[t] = "running" <=> row[a].task = t /\ row[a].status = "active"

(* A request that has written one of the two and is about to write the other.          *)
Between(q, t, a) ==
    q.acct = a /\ ((q.pc = "parent" /\ q.seen.task = t) \/ (q.op = "reset" /\ q.pc = "tasks"))

BetweenStatements(t, a) == \E r \in Request : Between(req[r], t, a)

(* ParentAgrees alone is not inductive: a row whose parent is gone would let a resumption *)
(* agree with nothing, and any request under way at the account would excuse any        *)
(* difference; an excuse is of one parent and ends with the statement that settles it.    *)
Settled(t, a) ==
    /\ Agrees(t, a) \/ BetweenStatements(t, a)
    /\ parent[t] = "removed" => row[a].task # t

Settles == \A t \in Task \ loose : \A a \in Account : of[t] = a => Settled(t, a)

LEMMA SettledStays ==
    ASSUME NEW t, NEW a, Settled(t, a), row'[a] = row[a], parent'[t] = parent[t],
           BetweenStatements(t, a) => BetweenStatements(t, a)'
    PROVE  Settled(t, a)'
BY DEF Settled, Agrees

LEMMA StillBetween ==
    ASSUME NEW t, NEW a, NEW r \in Request, ~Between(req[r], t, a), \A s \in Request \ {r} : req'[s] = req[s]
    PROVE  BetweenStatements(t, a) => BetweenStatements(t, a)'
BY DEF BetweenStatements, Between

LEMMA SettlesInit == Init => Settles
BY WarmupAssumption DEF Init, Settles

LEMMA SettlesBorn ==
    ASSUME TypeOK, Settles, NEW r \in Request, NEW t \in Task, StartCommits(r, t)
    PROVE  Settles'
<1> DEFINE a == req[r].acct
<1> SUFFICES ASSUME NEW u \in Task, u \notin loose', NEW b \in Account, of'[u] = b
             PROVE  Settled(u, b)'
    BY DEF Settles
<1>1. /\ of'[t] = a /\ parent'[t] = "running"
      /\ \A v \in Task \ {t} : of'[v] = of[v] /\ parent'[v] = parent[v]
      /\ a \in Account /\ req[r].seen \in RowState /\ req[r].seen.status # "active"
      /\ row'[a].task = t /\ row'[a].status = "active"
      /\ \A c \in Account \ {a} : row'[c] = row[c]
      /\ \A s \in Request \ {r} : req'[s] = req[s]
    BY ParentBorn
<1>2. CASE u = t
    BY <1>1, <1>2 DEF Settled, Agrees
<1>3. CASE u # t
  <2>1. loose \subseteq loose' /\ Apart(a, req[r].seen) \subseteq loose' /\ ~Between(req[r], u, b)
      BY DEF StartCommits, Between
  <2>2. /\ of[u] = b /\ parent'[u] = parent[u] /\ Settled(u, b)
        /\ BetweenStatements(u, b) => BetweenStatements(u, b)'
      BY <1>1, <1>3, <2>1, StillBetween DEF Settles
  <2>3. CASE b # a
      BY <1>1, <2>2, <2>3, SettledStays
  <2>4. CASE b = a
    <3>1. row[a].task = u => row[a].status # "active"
        BY <1>1, <2>1, Apartness DEF TypeOK
    <3>2. Agrees(u, b) => Agrees(u, b)'
        BY <1>1, <1>3, <2>2, <2>4, <3>1 DEF Agrees
    <3> QED BY <1>1, <1>3, <2>2, <2>4, <3>2 DEF Settled
  <2> QED BY <2>3, <2>4
<1> QED BY <1>2, <1>3

LEMMA SettlesSaved ==
    ASSUME TypeOK, Settles, NEW r \in Request, SavesProgress(r)
    PROVE  Settles'
<1> DEFINE a == req[r].acct
           p == req[r].seen
           q == With(p, Wanted(req[r].op), p.phase)
<1> SUFFICES ASSUME NEW u \in Task, u \notin loose', NEW b \in Account, of'[u] = b
             PROVE  Settled(u, b)'
    BY DEF Settles
<1>1. /\ UNCHANGED <<parent, of>> /\ ~Between(req[r], u, b) /\ a \in Account /\ p \in RowState
      /\ \A s \in Request \ {r} : req'[s] = req[s]
  <2>1. UNCHANGED <<parent, of>> /\ ~Between(req[r], u, b) /\ a \in Account /\ p \in RowState
      BY RequestIs DEF SavesProgress, Between
  <2>2. req' \in [Request -> RequestState]
      BY ProgressSaved DEF TypeOK, RequestsOK
  <2>3. \A s \in Request \ {r} : req'[s] = req[s]
      BY DEF SavesProgress, Goes, Ends, TypeOK, RequestsOK
  <2> QED BY <2>1, <2>3
<1>2. BetweenStatements(u, b) => BetweenStatements(u, b)'
    BY <1>1, StillBetween
<1>3. CASE row' = row /\ loose' = loose
    BY <1>1, <1>2, <1>3, SettledStays DEF Settles
<1>4. CASE /\ row'[a] = q /\ \A c \in Account \ {a} : row'[c] = row[c]
           /\ req'[r].acct = a /\ req'[r].pc = "parent" /\ req'[r].seen = q
           /\ loose' = loose \cup Apart(a, p)
  <2>1. q.task = p.task /\ p.task \in Task
      BY ProgressSaved
  <2>2. Settled(u, b) /\ u \notin Apart(a, p)
      BY <1>1, <1>4 DEF Settles
  <2>3. CASE b # a
      BY <1>1, <1>2, <1>4, <2>2, <2>3, SettledStays
  <2>4. CASE b = a /\ u = p.task
    <3>1. BetweenStatements(u, b)'
        BY <1>4, <2>1, <2>4 DEF BetweenStatements, Between
    <3>2. row[a] = p
        BY <1>1, <2>1, <2>2, <2>4, Apartness DEF TypeOK
    <3> QED BY <1>1, <2>2, <2>4, <3>1, <3>2 DEF Settled
  <2>5. CASE b = a /\ u # p.task
    <3>1. row[a].task # u
        BY <1>1, <2>2, <2>5, Apartness DEF TypeOK
    <3>2. row'[a].task # u
        BY <1>4, <2>1, <2>5
    <3> QED BY <1>1, <1>2, <2>2, <2>5, <3>1, <3>2 DEF Settled, Agrees
  <2> QED BY <2>3, <2>4, <2>5
<1> QED BY <1>3, <1>4, ProgressSaved

LEMMA SettlesTold ==
    ASSUME TypeOK, Settles, NEW r \in Request, TellsParent(r)
    PROVE  Settles'
<1> DEFINE a == req[r].acct
           t == req[r].seen.task
<1> SUFFICES ASSUME NEW u \in Task, u \notin loose', NEW b \in Account, of'[u] = b
             PROVE  Settled(u, b)'
    BY DEF Settles
<1>1. /\ a \in Account /\ t \in Task /\ of[t] = a /\ UNCHANGED <<row, of>>
      /\ req[r].seen \in RowState /\ req[r].seen.status = Wanted(req[r].op) /\ req[r].op \in {"retire", "resume"}
      /\ \A v \in Task \ {t} : parent'[v] = parent[v]
      /\ IF parent[t] = "removed" THEN parent'[t] = "removed"
         ELSE parent'[t] = IF req[r].op = "retire" THEN "cancelled" ELSE "running"
      /\ loose' = loose \cup Apart(a, req[r].seen)
      /\ req'[r] = NoReq /\ \A s \in Request \ {r} : req'[s] = req[s]
    BY ParentIsTold DEF TellsParent
<1>2. Settled(u, b) /\ u \notin Apart(a, req[r].seen)
    BY <1>1 DEF Settles
<1>3. CASE u = t
  <2>1. b = a /\ row[a] = req[r].seen
      BY <1>1, <1>2, <1>3, Apartness DEF TypeOK
  <2>2. parent[t] # "removed"
      BY <1>2, <1>3, <2>1 DEF Settled
  <2> QED BY <1>1, <1>3, <2>1, <2>2 DEF Settled, Agrees, Wanted
<1>4. CASE u # t
  <2>1. ~Between(req[r], u, b)
      BY <1>1, <1>4 DEF Between, TellsParent
  <2> QED BY <1>1, <1>2, <1>4, <2>1, StillBetween, SettledStays
<1> QED BY <1>3, <1>4

LEMMA SettlesReset ==
    ASSUME TypeOK, Settles, NEW r \in Request, ResetDeletesProgress(r) \/ ResetDeletesTasks(r)
    PROVE  Settles'
<1> DEFINE a == req[r].acct
<1> SUFFICES ASSUME NEW u \in Task, u \notin loose', NEW b \in Account, of'[u] = b
             PROVE  Settled(u, b)'
    BY DEF Settles
<1>1. of' = of /\ loose \subseteq loose' /\ Settled(u, b)
    BY DEF ResetDeletesProgress, ResetDeletesTasks, Settles
<1>2. CASE ResetDeletesProgress(r)
  <2>1. /\ a \in Account /\ row'[a] = NoRow /\ \A c \in Account \ {a} : row'[c] = row[c]
        /\ req'[r].acct = a /\ req'[r].op = "reset" /\ req'[r].pc = "tasks"
        /\ \A s \in Request \ {r} : req'[s] = req[s]
      BY <1>2, ProgressDeleted
  <2>2. parent' = parent /\ ~Between(req[r], u, b)
      BY <1>2 DEF ResetDeletesProgress, Between
  <2>3. CASE b = a
    <3>1. BetweenStatements(u, b)'
        BY <2>1, <2>3 DEF BetweenStatements, Between
    <3> QED BY <2>1, <2>3, <3>1, NoRowIs DEF Settled
  <2>4. CASE b # a
      BY <1>1, <2>1, <2>2, <2>4, StillBetween, SettledStays
  <2> QED BY <2>3, <2>4
<1>3. CASE ResetDeletesTasks(r)
  <2>1. /\ a \in Account /\ row' = row
        /\ \A t \in Task : parent'[t] = IF of[t] = a THEN "removed" ELSE parent[t]
        /\ loose' = loose \cup Apart(a, NoRow)
        /\ \A s \in Request \ {r} : req'[s] = req[s]
      BY <1>3, TasksDeleted DEF ResetDeletesTasks
  <2>2. CASE b = a
    <3>1. row[a].task # u
        BY <2>1, Apartness, NoRowIs DEF TypeOK
    <3> QED BY <1>1, <2>1, <2>2, <3>1 DEF Settled, Agrees
  <2>3. CASE b # a
    <3>1. ~Between(req[r], u, b)
        BY <2>3 DEF Between
    <3> QED BY <1>1, <2>1, <2>3, <3>1, StillBetween, SettledStays
  <2> QED BY <2>2, <2>3
<1> QED BY <1>2, <1>3

(* Whatever was between two statements when it ended makes its tasks loose.            *)
LEMMA EndedIsLoose ==
    ASSUME NEW r \in Request, NEW u \in Task, NEW b \in Account, of[u] = b, Between(req[r], u, b)
    PROVE  u \in Interrupted(r)
BY DEF Between, Interrupted, TasksOf

LEMMA SettlesFailed ==
    ASSUME TypeOK, Settles, NEW r \in Request, RequestFails(r)
    PROVE  Settles'
<1> SUFFICES ASSUME NEW u \in Task, u \notin loose', NEW b \in Account, of'[u] = b
             PROVE  Settled(u, b)'
    BY DEF Settles
<1>1. /\ UNCHANGED <<row, parent, of>> /\ loose' = loose \cup Interrupted(r)
      /\ \A s \in Request \ {r} : req'[s] = req[s]
    BY FailedTypes
<1>2. Settled(u, b) /\ ~Between(req[r], u, b)
    BY <1>1, EndedIsLoose DEF Settles
<1> QED BY <1>1, <1>2, StillBetween, SettledStays

LEMMA SettlesRestart ==
    ASSUME TypeOK, Settles, Restart
    PROVE  Settles'
<1> SUFFICES ASSUME NEW u \in Task, u \notin loose', NEW b \in Account, of'[u] = b
             PROVE  Settled(u, b)'
    BY DEF Settles
<1>1. /\ UNCHANGED <<row, of>>
      /\ \A t \in Task : parent'[t] = IF t \in Orphans THEN "cancelled" ELSE parent[t]
      /\ loose' = loose \cup UNION {Interrupted(r) : r \in Request}
    BY Restarts
<1>2. Settled(u, b) /\ ~BetweenStatements(u, b)
    BY <1>1, EndedIsLoose DEF Settles, BetweenStatements
<1>3. u \notin Orphans
    BY <1>2 DEF Settled, Agrees, Orphans
<1> QED BY <1>1, <1>2, <1>3 DEF Settled, Agrees

LEMMA SettlesChecked ==
    ASSUME TypeOK, Settles, NEW a \in Account, CheckSaves(a)
    PROVE  Settles'
<1> DEFINE p == check[a].seen
<1> SUFFICES ASSUME NEW u \in Task, u \notin loose', NEW b \in Account, of'[u] = b
             PROVE  Settled(u, b)'
    BY DEF Settles
<1>1. /\ UNCHANGED <<parent, of, req>> /\ p \in RowState /\ p.task \in Task /\ p.status = "active"
      /\ BetweenStatements(u, b) => BetweenStatements(u, b)'
    BY CheckIsSaved DEF BetweenStatements
<1>2. CASE row' = row /\ loose' = loose
    BY <1>1, <1>2, SettledStays DEF Settles
<1>3. CASE /\ row'[a].task = p.task /\ \A c \in Account \ {a} : row'[c] = row[c]
           /\ row'[a].status = "active" \/ p.task \in loose'
           /\ loose \subseteq loose' /\ Apart(a, p) \subseteq loose'
  <2>1. Settled(u, b)
      BY <1>1, <1>3 DEF Settles
  <2>2. CASE b # a
      BY <1>1, <1>3, <2>1, <2>2, SettledStays
  <2>3. CASE b = a /\ u = p.task
    <3>1. row[a] = p
        BY <1>1, <1>3, <2>3, Apartness DEF TypeOK
    <3> QED BY <1>1, <1>3, <2>1, <2>3, <3>1 DEF Settled, Agrees
  <2>4. CASE b = a /\ u # p.task
    <3>1. row[a].task # u
        BY <1>1, <1>3, <2>4, Apartness DEF TypeOK
    <3> QED BY <1>1, <1>3, <2>1, <2>4, <3>1 DEF Settled, Agrees
  <2> QED BY <2>2, <2>3, <2>4
<1> QED BY <1>2, <1>3, CheckIsSaved

LEMMA SettlesStep == TypeOK /\ Settles /\ [Next]_vars => Settles'
<1> SUFFICES ASSUME TypeOK, Settles, [Next]_vars PROVE Settles'
    OBVIOUS
<1>1. ASSUME UNCHANGED <<row, parent, of, loose, req>> PROVE Settles'
  <2>1. \A t \in Task, a \in Account : Settled(t, a) => Settled(t, a)'
      BY <1>1 DEF Settled, Agrees, BetweenStatements
  <2> QED BY <1>1, <2>1 DEF Settles
<1>2. ASSUME NEW r \in Request, UNCHANGED <<row, parent, of, loose>>,
             ~(req[r].pc = "parent" \/ (req[r].op = "reset" /\ req[r].pc = "tasks")),
             \A s \in Request \ {r} : req'[s] = req[s]
      PROVE  Settles'
  <2>1. \A t \in Task, a \in Account : ~Between(req[r], t, a)
      BY <1>2 DEF Between
  <2>2. \A t \in Task, a \in Account : Settled(t, a) => Settled(t, a)'
      BY <1>2, <2>1, StillBetween, SettledStays
  <2> QED BY <1>2, <2>2 DEF Settles
<1>3. ASSUME NEW r \in Request, NEW a \in Account, NEW op \in Ops[r], Asks(r, op, a)
      PROVE  Settles'
    BY <1>2, <1>3, AskedTypes, NoRowIs
<1>4. ASSUME NEW r \in Request, RequestStep(r)
      PROVE  Settles'
  <2>1. CASE StartFindsAccount(r) \/ StartFindsExisting(r) \/ StartRollsBack(r) \/ Finds(r)
             \/ ResetFinds(r) \/ ResetDeletesAccount(r)
      BY <2>1, <1>2, Reads
  <2> QED BY <1>4, <2>1, SettlesBorn, SettlesSaved, SettlesTold, SettlesReset, SettlesFailed DEF RequestStep
<1>5. CASE TickStep
    BY <1>1, <1>5, TickReads, SettlesChecked DEF TickStep, CheckStep
<1>6. CASE \E a \in Account : CheckFails(a) \/ AssignGroup(a) \/ RemoveAccount(a)
    BY <1>1, <1>6, TickReads, UsersAct
<1>7. CASE \E t \in Task : PackageIsOver(t)
    BY <1>1, <1>7, UsersAct
<1>8. CASE Restart
    BY <1>8, SettlesRestart
<1>9. CASE UNCHANGED vars
    BY <1>1, <1>9 DEF vars
<1> QED BY <1>3, <1>4, <1>5, <1>6, <1>7, <1>8, <1>9 DEF Next

(* A parent task runs exactly while the progress of its account is active and points to *)
(* it, whatever starts, retirements, resumptions, resets and ticks overlap, outside the *)
(* two statements of a request at the account and the differences that ParentAgrees      *)
(* names.                                                                       *)
THEOREM ParentAndProgressAgree == Spec => []ParentAgrees
<1>1. Init => TypeOK /\ Settles
    BY TypesInit, SettlesInit
<1>2. TypeOK /\ Settles /\ [Next]_vars => (TypeOK /\ Settles)'
    BY TypesStep, SettlesStep
<1>3. TypeOK /\ Settles => ParentAgrees
    BY DEF Settles, Settled, Agrees, BetweenStatements, Between, ParentAgrees, Handled
<1> QED BY <1>1, <1>2, <1>3, PTL DEF Spec
-----------------------------------------------------------------------------
(* The windows of an account (WarmupSchedule): minutes since one last opened.     *)
Since(t, i) == t - W!OpenedAt(t, i)

Minute == 0..1439

(* The same for a window that opens at minute O of every day.                     *)
Ago(t, O) == t - (IF (t \div 1440) * 1440 + O <= t THEN (t \div 1440) * 1440 + O
                  ELSE (t \div 1440) * 1440 + O - 1440)

InTurn(t, i) == i \in 0..2 /\ W!Offset <= Since(t, i) /\ Since(t, i) < W!Offset + 5

(* The last fire was a tick in the turn of its window; the history of the windows   *)
(* that fired holds none whose turn is to come.                                 *)
ScheduleOK ==
    /\ slot \in Slot /\ now \in Nat /\ now % 5 = 0 /\ startedAt \in Nat
    /\ lastChecked = -1 \/ (lastChecked \in Nat /\ lastChecked <= now)
    /\ \A o \in fired : o \in Int /\ o + W!Offset <= now
    /\ slot[3] >= 6 => fired = {}
    /\ \/ lastFired = W!NoKey
       \/ \E t \in 0..now, i \in 0..2 :
             t % 5 = 0 /\ InTurn(t, i) /\ lastFired = <<t \div 1440, i>>

(* Every turn that has come and gone since the start has fired, or was cut.         *)
TurnsTaken ==
    slot[3] < 6 =>
      \A d \in 0 .. Horizon \div 1440, i \in 0..2 :
        LET o == d * 1440 + W!Opens(i)
        IN  startedAt < o /\ o + W!Offset <= now => o \in fired \cup cut

ScheduleInv == ScheduleOK /\ TurnsTaken
-----------------------------------------------------------------------------
LEMMA SlotFacts ==
  ASSUME slot \in Slot
  PROVE  slot[1] \in Nat \ {0} /\ slot[2] \in 1..slot[1] /\ slot[3] \in Nat
  BY ScheduleAssumption

LEMMA OffsetNat ==
  ASSUME slot \in Slot
  PROVE  /\ W!Offset \in Nat
         /\ slot[3] < 6 <=> W!Offset < 30
         /\ slot[3] < 6 => W!Offset <= 25
  BY SlotFacts DEF W!Offset, W!Position, W!Stagger

LEMMA Shift ==
  ASSUME slot \in Slot
  PROVE  (slot[2] - 1) * W!Spread(slot[1]) \in Int
  <1>1. W!Spread(slot[1]) \in Int
    BY SlotFacts DEF W!Spread
  <1> QED
    BY <1>1, SlotFacts

LEMMA OpensMinute ==
  ASSUME slot \in Slot, NEW i \in 0..2
  PROVE  W!Opens(i) \in Minute
  <1> DEFINE k == (slot[2] - 1) * W!Spread(slot[1])
  <1>1. k \in Int
    BY Shift
  <1>2. W!Opens(i) = (480 + i * 360 + k) % 1440
    BY DEF W!Opens, W!Day
  <1> HIDE DEF k
  <1> QED
    BY <1>1, <1>2 DEF Minute

LEMMA SinceAgo ==
  ASSUME NEW t \in Nat, NEW i, W!Opens(i) \in Minute
  PROVE  Since(t, i) = Ago(t, W!Opens(i))
  <1>1. W!Day = 1440
    BY DEF W!Day
  <1> QED
    BY <1>1 DEF Minute, Since, Ago, W!OpenedAt

LEMMA Rotation ==
  ASSUME NEW t \in Nat, NEW O \in Minute, NEW a \in Nat, NEW b \in Nat, a < b, b < 1440
  PROVE  W!InSpan(t % 1440, (O + a) % 1440, (O + b) % 1440) <=> a <= Ago(t, O) /\ Ago(t, O) < b
  BY SMTT(60) DEF Minute, W!InSpan, Ago

LEMMA SpanSince ==
  ASSUME slot \in Slot, NEW t \in Nat, NEW i \in 0..2, NEW a \in Nat, NEW b \in Nat, a < b, b < 1440
  PROVE  W!InSpan(t % 1440, (W!Opens(i) + a) % 1440, (W!Opens(i) + b) % 1440)
            <=> a <= Since(t, i) /\ Since(t, i) < b
  <1> DEFINE O == W!Opens(i)
  <1>1. O \in Minute
    BY OpensMinute
  <1>2. Since(t, i) = Ago(t, O)
    BY <1>1, SinceAgo
  <1> HIDE DEF O
  <1>3. W!InSpan(t % 1440, (O + a) % 1440, (O + b) % 1440) <=> a <= Ago(t, O) /\ Ago(t, O) < b
    BY <1>1, Rotation
  <1> QED
    BY <1>2, <1>3 DEF O

LEMMA AgoMinute ==
  ASSUME NEW t \in Nat, NEW O \in Minute
  PROVE  Ago(t, O) \in Minute
  BY SMTT(60) DEF Ago, Minute

LEMMA SinceMinute ==
  ASSUME slot \in Slot, NEW t \in Nat, NEW i \in 0..2
  PROVE  Since(t, i) \in Minute
  <1> DEFINE O == W!Opens(i)
  <1>1. O \in Minute
    BY OpensMinute
  <1>2. Since(t, i) = Ago(t, O)
    BY <1>1, SinceAgo
  <1> HIDE DEF O
  <1> QED
    BY <1>1, <1>2, AgoMinute

Opening(i, k) == (480 + i * 360 + k) % 1440

LEMMA AgoApart ==
  ASSUME NEW t \in Nat, NEW k \in Int, NEW i \in 0..2, NEW j \in 0..2,
         Ago(t, Opening(i, k)) < 30, Ago(t, Opening(j, k)) < 30
  PROVE  i = j
  BY SMTT(60) DEF Ago, Opening

LEMMA OneOpen ==
  ASSUME slot \in Slot, NEW t \in Nat, NEW i \in 0..2, NEW j \in 0..2, Since(t, i) < 30, Since(t, j) < 30
  PROVE  i = j
  <1> DEFINE k == (slot[2] - 1) * W!Spread(slot[1])
  <1>1. k \in Int
    BY Shift
  <1>2. \A x \in 0..2 : W!Opens(x) = Opening(x, k)
    BY DEF W!Opens, W!Day, Opening
  <1>3. W!Opens(i) \in Minute /\ W!Opens(j) \in Minute
    BY OpensMinute
  <1>4. Since(t, i) = Ago(t, W!Opens(i)) /\ Since(t, j) = Ago(t, W!Opens(j))
    BY <1>3, SinceAgo
  <1> HIDE DEF k
  <1>5. Ago(t, Opening(i, k)) < 30 /\ Ago(t, Opening(j, k)) < 30
    BY <1>2, <1>4
  <1> QED
    BY <1>1, <1>5, AgoApart

(* findActiveWindow finds the one window that opened within its 30 minutes.         *)
LEMMA ActiveIs ==
  ASSUME slot \in Slot, NEW t \in Nat, NEW i \in 0..2
  PROVE  W!ActiveAt(t) = i <=> Since(t, i) < 30
  <1> DEFINE A == {x \in W!Window : W!InSpan(t % W!Day, W!Opens(x), (W!Opens(x) + W!WindowMin) % W!Day)}
  <1>1. \A x \in 0..2 : x \in A <=> Since(t, x) < 30
    <2> SUFFICES ASSUME NEW x \in 0..2 PROVE x \in A <=> Since(t, x) < 30
      OBVIOUS
    <2> DEFINE O == W!Opens(x)
    <2>1. O \in Minute
      BY OpensMinute
    <2>2. W!InSpan(t % 1440, (O + 0) % 1440, (O + 30) % 1440) <=> 0 <= Since(t, x) /\ Since(t, x) < 30
      BY SpanSince
    <2>3. x \in A <=> W!InSpan(t % 1440, O, (O + 30) % 1440)
      BY DEF W!Window, W!Day, W!WindowMin
    <2>4. Since(t, x) \in Minute
      BY SinceMinute
    <2> HIDE DEF O, A
    <2>5. (O + 0) % 1440 = O
      BY <2>1 DEF Minute
    <2> QED
      BY <2>2, <2>3, <2>4, <2>5 DEF Minute
  <1>2. A \subseteq 0..2
    BY DEF W!Window
  <1>3. W!ActiveAt(t) = W!First(A)
    BY DEF W!ActiveAt
  <1> HIDE DEF A
  <1>4. \A x, y \in A : x = y
    BY <1>1, <1>2, OneOpen
  <1>5. CASE A = {}
    BY <1>1, <1>3, <1>5 DEF W!First, W!Never
  <1>6. CASE A # {}
    <2>1. PICK x \in A : TRUE
      BY <1>6
    <2>2. A = {x}
      BY <1>4, <2>1
    <2>3. \A y \in A : y \in 0..2 /\ x <= y
      BY <1>2, <2>2
    <2>4. W!First(A) = x
      BY <1>6, <2>2, <2>3 DEF W!First
    <2> QED
      BY <1>1, <1>2, <1>3, <2>2, <2>4
  <1> QED
    BY <1>5, <1>6

LEMMA ActiveWindow ==
  ASSUME slot \in Slot, NEW t \in Nat, W!ActiveAt(t) # W!Never
  PROVE  W!ActiveAt(t) \in 0..2 /\ Since(t, W!ActiveAt(t)) < 30
  <1> DEFINE A == {x \in W!Window : W!InSpan(t % W!Day, W!Opens(x), (W!Opens(x) + W!WindowMin) % W!Day)}
  <1>1. W!ActiveAt(t) = W!First(A) /\ A \subseteq 0..2
    BY DEF W!ActiveAt, W!Window
  <1> HIDE DEF A
  <1>2. A # {}
    BY <1>1 DEF W!First
  <1>3. \E x \in A : \A y \in A : x <= y
    <2>1. CASE 0 \in A
      BY <1>1, <2>1
    <2>2. CASE 0 \notin A /\ 1 \in A
      <3>1. \A y \in A : 1 <= y
        BY <1>1, <2>2
      <3> QED
        BY <2>2, <3>1
    <2>3. CASE 0 \notin A /\ 1 \notin A
      <3>1. \A y \in A : y = 2
        BY <1>1, <2>3
      <3> QED
        BY <1>2, <3>1
    <2> QED
      BY <2>1, <2>2, <2>3
  <1>4. W!First(A) \in A
    BY <1>2, <1>3 DEF W!First
  <1> QED
    BY <1>1, <1>4, ActiveIs

LEMMA TurnEnd ==
  ASSUME NEW O \in Minute, NEW a \in Nat
  PROVE  (((O + a) % 1440) + 5) % 1440 = (O + (a + 5)) % 1440
  BY SMTT(60) DEF Minute

(* isAccountTurnInWindow: the five minutes of one of the first six accounts.       *)
LEMMA TurnIs ==
  ASSUME slot \in Slot, NEW t \in Nat
  PROVE  W!Turn(t) <=> slot[3] < 6 /\ \E i \in 0..2 : InTurn(t, i)
  <1>1. CASE slot[3] < 6
    <2>1. W!Offset \in Nat /\ W!Offset < 30
      BY <1>1, OffsetNat
    <2>2. ASSUME NEW i \in 0..2
          PROVE  LET from == (W!Opens(i) + W!Offset) % 1440
                 IN  W!InSpan(t % 1440, from, (from + 5) % 1440) <=> InTurn(t, i)
      <3>1. (((W!Opens(i) + W!Offset) % 1440) + 5) % 1440 = (W!Opens(i) + (W!Offset + 5)) % 1440
        <4> DEFINE O == W!Opens(i)
                   a == W!Offset
        <4>1. O \in Minute /\ a \in Nat
          BY <2>1, OpensMinute
        <4> HIDE DEF O, a
        <4>2. (((O + a) % 1440) + 5) % 1440 = (O + (a + 5)) % 1440
          BY <4>1, TurnEnd
        <4> QED
          BY <4>2 DEF O, a
      <3>2. W!InSpan(t % 1440, (W!Opens(i) + W!Offset) % 1440, (W!Opens(i) + (W!Offset + 5)) % 1440)
              <=> W!Offset <= Since(t, i) /\ Since(t, i) < W!Offset + 5
        <4> DEFINE b == W!Offset + 5
        <4>1. b \in Nat /\ W!Offset < b /\ b < 1440
          BY <2>1
        <4> QED
          BY <2>1, <2>2, <4>1, SpanSince
      <3> QED
        BY <2>2, <3>1, <3>2 DEF InTurn
    <2> QED
      BY <1>1, <2>1, <2>2 DEF W!Turn, W!WindowMin, W!Stagger, W!Window, W!Day
  <1>2. CASE ~ (slot[3] < 6)
    BY <1>2, OffsetNat DEF W!Turn, W!WindowMin
  <1> QED
    BY <1>1, <1>2

(* A turn of five minutes holds one tick of a day.                                *)
LEMMA TickRotation ==
  ASSUME NEW t \in Nat, NEW u \in Nat, NEW O \in Minute, NEW a \in Nat, a < 1435,
         t % 5 = 0, u % 5 = 0, t \div 1440 = u \div 1440,
         a <= Ago(t, O), Ago(t, O) < a + 5, a <= Ago(u, O), Ago(u, O) < a + 5
  PROVE  t = u
  BY SMTT(60) DEF Ago, Minute

LEMMA OneTick ==
  ASSUME slot \in Slot, slot[3] < 6, NEW t \in Nat, NEW u \in Nat, NEW i \in 0..2,
         t % 5 = 0, u % 5 = 0, t \div 1440 = u \div 1440, InTurn(t, i), InTurn(u, i)
  PROVE  t = u
  <1> DEFINE O == W!Opens(i)
             a == W!Offset
  <1>1. O \in Minute /\ a \in Nat /\ a < 1435
    BY OffsetNat, OpensMinute
  <1>2. Since(t, i) = Ago(t, O) /\ Since(u, i) = Ago(u, O)
    BY <1>1, SinceAgo
  <1>3. a <= Ago(t, O) /\ Ago(t, O) < a + 5 /\ a <= Ago(u, O) /\ Ago(u, O) < a + 5
    BY <1>2 DEF InTurn
  <1> HIDE DEF O, a
  <1> QED
    BY <1>1, <1>3, TickRotation

(* A window that opened at most a turn ago is the last to open.                     *)
LEMMA AgoIs ==
  ASSUME NEW t \in Nat, NEW d \in Nat, NEW O \in Minute, d * 1440 + O <= t, t < d * 1440 + O + 1440
  PROVE  Ago(t, O) = t - (d * 1440 + O)
  BY SMTT(60) DEF Ago, Minute

LEMMA SinceIs ==
  ASSUME slot \in Slot, NEW t \in Nat, NEW d \in Nat, NEW i \in 0..2,
         d * 1440 + W!Opens(i) <= t, t < d * 1440 + W!Opens(i) + 1440
  PROVE  Since(t, i) = t - (d * 1440 + W!Opens(i))
  <1> DEFINE O == W!Opens(i)
  <1>1. O \in Minute
    BY OpensMinute
  <1>2. Since(t, i) = Ago(t, O)
    BY <1>1, SinceAgo
  <1> HIDE DEF O
  <1>3. d * 1440 + O <= t /\ t < d * 1440 + O + 1440
    BY DEF O
  <1>4. Ago(t, O) = t - (d * 1440 + O)
    BY <1>1, <1>3, AgoIs
  <1> QED
    BY <1>2, <1>4 DEF O

LEMMA OpenedInt ==
  ASSUME slot \in Slot, NEW t \in Nat, NEW i \in 0..2
  PROVE  W!OpenedAt(t, i) \in Int
  <1>1. W!Day = 1440
    BY DEF W!Day
  <1>2. W!Opens(i) \in Int
    BY OpensMinute DEF Minute
  <1> QED
    BY <1>1, <1>2 DEF W!OpenedAt

LEMMA DayStart ==
  ASSUME NEW d \in Nat, NEW m \in Nat
  PROVE  d * 1440 + m \in Nat
  OBVIOUS

(* A turn that has just come is the active window's, and is this account's.       *)
LEMMA TurnComes ==
  ASSUME slot \in Slot, slot[3] < 6, NEW t \in Nat, NEW d \in Nat, NEW i \in 0..2,
         d * 1440 + W!Opens(i) + W!Offset <= t, t < d * 1440 + W!Opens(i) + W!Offset + 5
  PROVE  /\ W!ActiveAt(t) = i /\ W!Turn(t) /\ InTurn(t, i)
         /\ W!OpenedAt(t, i) = d * 1440 + W!Opens(i)
  <1> DEFINE o == d * 1440 + W!Opens(i)
  <1>1. W!Opens(i) \in Minute /\ W!Offset \in Nat /\ W!Offset <= 25
    BY OffsetNat, OpensMinute
  <1>2. o \in Nat
    BY <1>1 DEF Minute
  <1>3. o <= t /\ t < o + 1440 /\ o + W!Offset <= t /\ t < o + W!Offset + 5
    BY <1>1, <1>2
  <1>4. Since(t, i) = t - o
    BY <1>3, SinceIs
  <1> HIDE DEF o
  <1>5. InTurn(t, i)
    BY <1>1, <1>2, <1>3, <1>4 DEF InTurn
  <1>6. Since(t, i) < 30
    BY <1>1, <1>2, <1>3, <1>4
  <1>7. W!OpenedAt(t, i) = o
    <2>1. W!OpenedAt(t, i) \in Int
      BY OpenedInt
    <2> QED
      BY <1>2, <1>4, <2>1 DEF Since
  <1> QED
    BY <1>5, <1>6, <1>7, ActiveIs, TurnIs DEF o

(* A tick that finds a window open and its turn come is in the turn of that window. *)
LEMMA TurnFires ==
  ASSUME slot \in Slot, NEW t \in Nat, W!ActiveAt(t) # W!Never, W!Turn(t)
  PROVE  LET i == W!ActiveAt(t)
         IN  /\ slot[3] < 6 /\ i \in 0..2 /\ InTurn(t, i) /\ W!OpenedAt(t, i) \in Int
             /\ W!OpenedAt(t, i) + W!Offset <= t /\ t < W!OpenedAt(t, i) + W!Offset + 5
  <1> DEFINE i == W!ActiveAt(t)
  <1>1. i \in 0..2 /\ Since(t, i) < 30
    BY ActiveWindow
  <1>2. slot[3] < 6 /\ \E j \in 0..2 : InTurn(t, j)
    BY TurnIs
  <1>3. PICK j \in 0..2 : InTurn(t, j)
    BY <1>2
  <1> HIDE DEF i
  <1>4. W!Offset \in Nat /\ W!Offset <= 25 /\ Since(t, j) \in Minute
    BY <1>2, <1>3, OffsetNat, SinceMinute
  <1>5. Since(t, j) < 30
    BY <1>3, <1>4 DEF InTurn, Minute
  <1>6. i = j
    BY <1>1, <1>3, <1>5, OneOpen
  <1>7. W!OpenedAt(t, i) \in Int
    BY <1>1, OpenedInt
  <1>8. InTurn(t, i)
    BY <1>3, <1>6
  <1>9. W!OpenedAt(t, i) + W!Offset <= t /\ t < W!OpenedAt(t, i) + W!Offset + 5
    BY <1>4, <1>7, <1>8 DEF InTurn, Since
  <1> QED
    BY <1>1, <1>2, <1>7, <1>8, <1>9 DEF i

(* The turn of a window that comes has not been taken by an earlier tick of the day. *)
LEMMA KeyFree ==
  ASSUME ScheduleOK, slot[3] < 6, NEW t \in Nat, t % 5 = 0, now < t, NEW i \in 0..2, InTurn(t, i)
  PROVE  lastFired # W!Key(t, i)
  <1> SUFFICES ASSUME lastFired = <<t \div 1440, i>>
               PROVE  FALSE
    BY DEF W!Key, W!Day
  <1>1. lastFired # W!NoKey
    BY DEF W!NoKey, W!Never
  <1>2. PICK u \in 0..now, j \in 0..2 : u % 5 = 0 /\ InTurn(u, j) /\ lastFired = <<u \div 1440, j>>
    BY <1>1 DEF ScheduleOK
  <1>3. j = i /\ u \div 1440 = t \div 1440 /\ u \in Nat /\ u < t
    BY <1>2 DEF ScheduleOK
  <1>4. t = u
    BY <1>2, <1>3, OneTick DEF ScheduleOK
  <1> QED
    BY <1>3, <1>4

(* The shape of the day is fixed by the slot.                                        *)
LEMMA SameDay ==
  ASSUME slot' = slot
  PROVE  /\ W!Offset' = W!Offset
         /\ \A i : (W!Opens(i))' = W!Opens(i)
         /\ \A t, i : InTurn(t, i)' <=> InTurn(t, i)
  BY DEF W!Offset, W!Position, W!Opens, InTurn, Since, W!OpenedAt

(* A step of the clock that keeps, or adds to, the windows that fired or were cut.   *)
LEMMA TurnsKept ==
  ASSUME ScheduleInv, W!ClockGoes, slot' = slot, startedAt' \in Nat, startedAt <= startedAt',
         fired \subseteq fired', cut \subseteq cut',
         slot[3] < 6 =>
            \A d \in 0 .. Horizon \div 1440, i \in 0..2 :
              LET o == d * 1440 + W!Opens(i)
              IN  startedAt' < o /\ o + W!Offset <= now' /\ now' < o + W!Offset + 5
                     => o \in fired' \cup cut'
  PROVE  TurnsTaken'
  <1>1. now' = now + 5 /\ now \in Nat /\ startedAt \in Nat
    BY DEF ScheduleInv, ScheduleOK, W!ClockGoes, W!TickMin
  <1>2. Horizon \div 1440 \in Int
    BY ScheduleAssumption
  <1> SUFFICES ASSUME slot[3] < 6, NEW d \in 0 .. Horizon \div 1440, NEW i \in 0..2,
                      startedAt' < d * 1440 + W!Opens(i), d * 1440 + W!Opens(i) + W!Offset <= now'
               PROVE  d * 1440 + W!Opens(i) \in fired' \cup cut'
    BY SameDay DEF TurnsTaken
  <1> DEFINE o == d * 1440 + W!Opens(i)
  <1>3. W!Opens(i) \in Minute /\ W!Offset \in Nat
    BY OffsetNat, OpensMinute DEF ScheduleInv, ScheduleOK
  <1>4. d \in Nat /\ o \in Nat
    <2>1. d \in Nat
      BY <1>2
    <2>2. W!Opens(i) \in Nat
      BY <1>3 DEF Minute
    <2> QED
      BY <2>1, <2>2, DayStart
  <1>5. CASE o + W!Offset <= now
    <2>1. startedAt < o
      BY <1>1, <1>4
    <2>2. o \in fired \cup cut
      BY <1>5, <2>1 DEF ScheduleInv, TurnsTaken
    <2> QED
      BY <2>2
  <1>6. CASE ~ (o + W!Offset <= now)
    <2>1. now' < o + W!Offset + 5
      BY <1>1, <1>3, <1>4, <1>6
    <2> QED
      BY <2>1
  <1> QED
    BY <1>5, <1>6

LEMMA ChecksKeeps ==
  ASSUME ScheduleInv, W!ClockGoes, W!Checks, slot' = slot, cut' = cut
  PROVE  ScheduleInv'
  <1> DEFINE active == W!ActiveAt(now')
             fires == active # W!Never /\ lastFired # W!Key(now', active) /\ W!Turn(now')
  <1>1. /\ slot \in Slot /\ now \in Nat /\ now % 5 = 0 /\ startedAt \in Nat
        /\ now' = now + 5
        /\ lastChecked' = now' /\ startedAt' = startedAt
    BY DEF ScheduleInv, ScheduleOK, W!ClockGoes, W!TickMin, W!Checks
  <1>2. now' \in Nat /\ now' % 5 = 0 /\ now < now'
    BY <1>1
  <1>3. W!Offset \in Nat
    BY <1>1, OffsetNat
  <1>4. /\ fired' = IF fires THEN fired \cup {W!OpenedAt(now', active)} ELSE fired
        /\ lastFired' = IF fires THEN W!Key(now', active) ELSE lastFired
    BY DEF W!Checks
  <1>5. fires => /\ slot[3] < 6 /\ active \in 0..2 /\ InTurn(now', active)
                 /\ W!OpenedAt(now', active) \in Int
                 /\ W!OpenedAt(now', active) + W!Offset <= now'
    BY <1>1, <1>2, TurnFires
  <1> HIDE DEF fires, active
  <1>6. \A o \in fired' : o \in Int /\ o + W!Offset <= now'
    <2>1. \A o \in fired : o \in Int /\ o + W!Offset <= now'
      <3> SUFFICES ASSUME NEW o \in fired PROVE o \in Int /\ o + W!Offset <= now'
        OBVIOUS
      <3>1. o \in Int /\ o + W!Offset <= now
        BY DEF ScheduleInv, ScheduleOK
      <3> QED
        BY <1>1, <1>3, <3>1
    <2> QED
      BY <1>4, <1>5, <2>1
  <1>7. slot[3] >= 6 => fired' = {}
    <2>1. slot[3] \in Nat
      BY <1>1, SlotFacts
    <2>2. slot[3] >= 6 => ~ fires
      BY <1>5, <2>1
    <2> QED
      BY <1>4, <2>2 DEF ScheduleInv, ScheduleOK
  <1>8. \/ lastFired' = W!NoKey
        \/ \E t \in 0..now', i \in 0..2 :
             t % 5 = 0 /\ InTurn(t, i) /\ lastFired' = <<t \div 1440, i>>
    <2>1. CASE fires
      <3>1. now' \in 0..now'
        BY <1>2
      <3>2. lastFired' = <<now' \div 1440, active>>
        BY <1>4, <2>1 DEF W!Key, W!Day
      <3>3. now' % 5 = 0 /\ active \in 0..2 /\ InTurn(now', active)
        BY <1>2, <1>5, <2>1
      <3> QED
        BY <3>1, <3>2, <3>3
    <2>2. CASE ~ fires
      <3>1. lastFired' = lastFired
        BY <1>4, <2>2
      <3>2. \A t \in 0..now : t \in 0..now'
        BY <1>1, <1>2
      <3> QED
        BY <3>1, <3>2 DEF ScheduleInv, ScheduleOK
    <2> QED
      BY <2>1, <2>2
  <1>9. ScheduleOK'
    <2>1. W!NoKey' = W!NoKey
      BY DEF W!NoKey
    <2> QED
      BY <1>1, <1>2, <1>6, <1>7, <1>8, <2>1, SameDay DEF ScheduleOK
  <1>10. \A i \in 0..2 : slot[3] < 6 /\ InTurn(now', i) => lastFired # W!Key(now', i)
    <2> SUFFICES ASSUME NEW i \in 0..2, slot[3] < 6, InTurn(now', i)
                 PROVE  lastFired # W!Key(now', i)
      OBVIOUS
    <2>1. ScheduleOK
      BY DEF ScheduleInv
    <2> QED
      BY <1>2, <2>1, KeyFree
  <1>11. slot[3] < 6 =>
            \A d \in 0 .. Horizon \div 1440, i \in 0..2 :
              LET o == d * 1440 + W!Opens(i)
              IN  startedAt' < o /\ o + W!Offset <= now' /\ now' < o + W!Offset + 5
                     => o \in fired' \cup cut'
    <2> SUFFICES ASSUME slot[3] < 6, NEW d \in 0 .. Horizon \div 1440, NEW i \in 0..2,
                        d * 1440 + W!Opens(i) + W!Offset <= now',
                        now' < d * 1440 + W!Opens(i) + W!Offset + 5
                 PROVE  d * 1440 + W!Opens(i) \in fired'
      OBVIOUS
    <2>1. d \in Nat
      <3>1. Horizon \div 1440 \in Int
        BY ScheduleAssumption
      <3> QED
        BY <3>1
    <2>2. /\ active = i /\ W!Turn(now') /\ InTurn(now', i)
          /\ W!OpenedAt(now', i) = d * 1440 + W!Opens(i)
      BY <1>1, <1>2, <2>1, TurnComes DEF active
    <2>3. lastFired # W!Key(now', i)
      BY <1>10, <2>2
    <2>4. active # W!Never
      BY <2>2 DEF W!Never
    <2>5. fires
      BY <2>2, <2>3, <2>4 DEF fires, active
    <2> QED
      BY <1>4, <2>2, <2>5
  <1>12. fired \subseteq fired' /\ cut \subseteq cut'
    BY <1>4
  <1>13. TurnsTaken'
    BY <1>1, <1>11, <1>12, TurnsKept
  <1> QED
    BY <1>9, <1>13 DEF ScheduleInv

LEMMA TurnsToP3Keeps ==
  ASSUME ScheduleInv, W!ClockGoes, W!TurnsToP3, slot' = slot, cut' = cut
  PROVE  ScheduleInv'
  <1>1. /\ slot \in Slot /\ now \in Nat /\ now % 5 = 0 /\ startedAt \in Nat
        /\ now' = now + 5 /\ startedAt' = now'
        /\ fired' = fired /\ lastFired' = W!NoKey /\ lastChecked' = lastChecked
        /\ lastChecked = -1 \/ (lastChecked \in Nat /\ lastChecked <= now)
    BY DEF ScheduleInv, ScheduleOK, W!ClockGoes, W!TickMin, W!TurnsToP3
  <1>2. now' \in Nat /\ now' % 5 = 0 /\ now < now' /\ W!Offset \in Nat
    BY <1>1, OffsetNat
  <1>3. lastChecked = -1 \/ (lastChecked \in Nat /\ lastChecked <= now')
    BY <1>1, <1>2
  <1>4. \A o \in fired : o \in Int /\ o + W!Offset <= now'
    <2> SUFFICES ASSUME NEW o \in fired PROVE o \in Int /\ o + W!Offset <= now'
      OBVIOUS
    <2>1. o \in Int /\ o + W!Offset <= now
      BY DEF ScheduleInv, ScheduleOK
    <2> QED
      BY <1>1, <1>2, <2>1
  <1>5. slot[3] >= 6 => fired = {}
    BY DEF ScheduleInv, ScheduleOK
  <1>6. ScheduleOK'
    <2>1. W!NoKey' = W!NoKey
      BY DEF W!NoKey
    <2> QED
      BY <1>1, <1>2, <1>3, <1>4, <1>5, <2>1, SameDay DEF ScheduleOK
  <1>7. TurnsTaken'
    <2> SUFFICES ASSUME NEW d \in 0 .. Horizon \div 1440, NEW i \in 0..2
                 PROVE  ~ (startedAt' < d * 1440 + W!Opens(i) /\ d * 1440 + W!Opens(i) + W!Offset <= now')
      BY SameDay DEF TurnsTaken
    <2> DEFINE o == d * 1440 + W!Opens(i)
    <2>1. o \in Int
      <3>1. Horizon \div 1440 \in Int
        BY ScheduleAssumption
      <3>2. d \in Nat
        BY <3>1
      <3>3. W!Opens(i) \in Nat
        <4>1. W!Opens(i) \in Minute
          BY <1>1, OpensMinute
        <4> QED
          BY <4>1 DEF Minute
      <3> QED
        BY <3>2, <3>3, DayStart
    <2> HIDE DEF o
    <2>2. ~ (now' < o /\ o + W!Offset <= now')
      BY <1>2, <2>1
    <2> QED
      BY <1>1, <2>2 DEF o
  <1> QED
    BY <1>6, <1>7 DEF ScheduleInv

LEMMA OffKeeps ==
  ASSUME ScheduleInv, W!Off
  PROVE  ScheduleInv'
  <1> DEFINE active == W!ActiveAt(now')
  <1>1. /\ slot \in Slot /\ now \in Nat /\ now % 5 = 0 /\ startedAt \in Nat
        /\ now' = now + 5 /\ startedAt' = startedAt /\ slot' = slot
        /\ fired' = fired /\ lastFired' = lastFired /\ lastChecked' = lastChecked
        /\ lastChecked = -1 \/ (lastChecked \in Nat /\ lastChecked <= now)
    BY DEF ScheduleInv, ScheduleOK, W!ClockGoes, W!TickMin, W!Off
  <1>2. now' \in Nat /\ now' % 5 = 0 /\ now < now' /\ W!Offset \in Nat
    BY <1>1, OffsetNat
  <1>3. cut' = IF active = W!Never THEN cut ELSE cut \cup {W!OpenedAt(now', active)}
    BY DEF W!Off
  <1>4. W!ClockGoes
    BY DEF W!Off
  <1>5. lastChecked = -1 \/ (lastChecked \in Nat /\ lastChecked <= now')
    BY <1>1, <1>2
  <1>6. \A o \in fired : o \in Int /\ o + W!Offset <= now'
    <2> SUFFICES ASSUME NEW o \in fired PROVE o \in Int /\ o + W!Offset <= now'
      OBVIOUS
    <2>1. o \in Int /\ o + W!Offset <= now
      BY DEF ScheduleInv, ScheduleOK
    <2> QED
      BY <1>1, <1>2, <2>1
  <1>7. slot[3] >= 6 => fired = {}
    BY DEF ScheduleInv, ScheduleOK
  <1>8. \/ lastFired = W!NoKey
        \/ \E t \in 0..now', i \in 0..2 :
             t % 5 = 0 /\ InTurn(t, i) /\ lastFired = <<t \div 1440, i>>
    <2>1. \A t \in 0..now : t \in 0..now'
      BY <1>1, <1>2
    <2> QED
      BY <2>1 DEF ScheduleInv, ScheduleOK
  <1>9. ScheduleOK'
    <2>1. W!NoKey' = W!NoKey
      BY DEF W!NoKey
    <2> QED
      BY <1>1, <1>2, <1>5, <1>6, <1>7, <1>8, <2>1, SameDay DEF ScheduleOK
  <1> HIDE DEF active
  <1>10. slot[3] < 6 =>
            \A d \in 0 .. Horizon \div 1440, i \in 0..2 :
              LET o == d * 1440 + W!Opens(i)
              IN  startedAt' < o /\ o + W!Offset <= now' /\ now' < o + W!Offset + 5
                     => o \in fired' \cup cut'
    <2> SUFFICES ASSUME slot[3] < 6, NEW d \in 0 .. Horizon \div 1440, NEW i \in 0..2,
                        d * 1440 + W!Opens(i) + W!Offset <= now',
                        now' < d * 1440 + W!Opens(i) + W!Offset + 5
                 PROVE  d * 1440 + W!Opens(i) \in cut'
      OBVIOUS
    <2>1. d \in Nat
      <3>1. Horizon \div 1440 \in Int
        BY ScheduleAssumption
      <3> QED
        BY <3>1
    <2>2. active = i /\ W!OpenedAt(now', i) = d * 1440 + W!Opens(i)
      BY <1>1, <1>2, <2>1, TurnComes DEF active
    <2>3. active # W!Never
      BY <2>2 DEF W!Never
    <2> QED
      BY <1>3, <2>2, <2>3
  <1>11. fired \subseteq fired' /\ cut \subseteq cut'
    BY <1>1, <1>3
  <1>12. startedAt' \in Nat /\ startedAt <= startedAt'
    BY <1>1
  <1>13. TurnsTaken'
    BY <1>1, <1>4, <1>10, <1>11, <1>12, TurnsKept
  <1> QED
    BY <1>9, <1>13 DEF ScheduleInv

(* ScheduleInv holds: Init, a step of each part, a step that changes neither.        *)
LEMMA ScheduleInit ==
  ASSUME W!Init
  PROVE  ScheduleInv
  <1>1. /\ slot \in Slot /\ startedAt \in Nat /\ now = startedAt - (startedAt % 5)
        /\ lastFired = W!NoKey /\ lastChecked = -1 /\ fired = {}
    BY ScheduleAssumption DEF W!Init, W!TickMin, W!Never
  <1>2. now \in Nat /\ now % 5 = 0 /\ now <= startedAt
    BY <1>1
  <1>3. ScheduleOK
    BY <1>1, <1>2 DEF ScheduleOK
  <1>4. TurnsTaken
    <2> SUFFICES ASSUME NEW d \in 0 .. Horizon \div 1440, NEW i \in 0..2
                 PROVE  ~ (startedAt < d * 1440 + W!Opens(i) /\ d * 1440 + W!Opens(i) + W!Offset <= now)
      BY DEF TurnsTaken
    <2> DEFINE o == d * 1440 + W!Opens(i)
    <2>1. o \in Int /\ W!Offset \in Nat
      <3>1. Horizon \div 1440 \in Int
        BY ScheduleAssumption
      <3>2. d \in Nat
        BY <3>1
      <3>3. W!Opens(i) \in Minute /\ W!Offset \in Nat
        BY <1>1, OpensMinute, OffsetNat
      <3>4. W!Opens(i) \in Nat
        BY <3>3 DEF Minute
      <3> QED
        BY <3>2, <3>3, <3>4, DayStart
    <2> HIDE DEF o
    <2>2. ~ (startedAt < o /\ o + W!Offset <= now)
      BY <1>1, <1>2, <2>1
    <2> QED
      BY <2>2 DEF o
  <1> QED
    BY <1>3, <1>4 DEF ScheduleInv

LEMMA ScheduleRests ==
  ASSUME ScheduleInv, UNCHANGED scheduleVars
  PROVE  ScheduleInv'
  <1>1. /\ slot' = slot /\ now' = now /\ startedAt' = startedAt /\ lastFired' = lastFired
        /\ lastChecked' = lastChecked /\ fired' = fired /\ cut' = cut
    BY DEF scheduleVars
  <1>2. W!NoKey' = W!NoKey
    BY DEF W!NoKey
  <1>3. ScheduleOK'
    BY <1>1, <1>2, SameDay DEF ScheduleInv, ScheduleOK
  <1>4. TurnsTaken'
    BY <1>1, SameDay DEF ScheduleInv, TurnsTaken
  <1> QED
    BY <1>3, <1>4 DEF ScheduleInv

LEMMA ScheduleStep ==
  ASSUME ScheduleInv, [WarmupNext]_<<part, vars, scheduleVars>>
  PROVE  ScheduleInv'
  <1>1. CASE W!Next
    <2>1. CASE W!Tick
      <3>1. W!ClockGoes /\ slot' = slot /\ cut' = cut
        BY <2>1 DEF W!Tick
      <3>2. CASE W!TurnsToP3
        BY <3>1, <3>2, TurnsToP3Keeps
      <3>3. CASE W!Checks
        BY <3>1, <3>3, ChecksKeeps
      <3>4. W!TurnsToP3 \/ W!Checks
        BY <2>1 DEF W!Tick
      <3> QED
        BY <3>2, <3>3, <3>4
    <2>2. CASE W!Off
      BY <2>2, OffKeeps
    <2> QED
      BY <1>1, <2>1, <2>2 DEF W!Next
  <1>2. CASE UNCHANGED scheduleVars
    BY <1>2, ScheduleRests
  <1> QED
    BY <1>1, <1>2 DEF WarmupNext

(* The inductive invariant of the schedule of warm-ups, for any slots, starts, length  *)
(* of the package and time off (warmup-windows.util.ts, warmup.service.ts).           *)
THEOREM ScheduleInvariant == WarmupSpec => []ScheduleInv
  <1>1. WarmupInit => ScheduleInv
    BY ScheduleInit DEF WarmupInit
  <1>2. ScheduleInv /\ [WarmupNext]_<<part, vars, scheduleVars>> => ScheduleInv'
    BY ScheduleStep
  <1> QED
    BY <1>1, <1>2, PTL DEF WarmupSpec

(* Each of the first six accounts of a group fires in every window after the start     *)
(* that the machine is on for; those behind them in none.                           *)
THEOREM WindowsServed == WarmupSpec => []Served
  <1>1. ScheduleInv => Served
    <2> SUFFICES ASSUME ScheduleInv, NEW o \in W!Over
                 PROVE  IF slot[3] < 6 THEN o \notin cut => o \in fired ELSE o \notin fired
      BY DEF Served, W!Served
    <2>1. slot \in Slot /\ slot[3] \in Nat
      BY SlotFacts DEF ScheduleInv, ScheduleOK
    <2>2. CASE slot[3] < 6
      <3>1. Horizon \div W!Day = Horizon \div 1440
        BY DEF W!Day
      <3>2. PICK d \in 0 .. Horizon \div 1440, i \in 0..2 : o = d * 1440 + W!Opens(i)
        BY <3>1 DEF W!Over, W!Window, W!Day
      <3>3. lastChecked # -1 /\ startedAt < o /\ o + 30 <= lastChecked
        BY DEF W!Over, W!Never, W!WindowMin
      <3>4. lastChecked \in Nat /\ lastChecked <= now /\ now \in Nat
        BY <3>3 DEF ScheduleInv, ScheduleOK
      <3>5. W!Offset \in Nat /\ W!Offset < 30
        BY <2>1, <2>2, OffsetNat
      <3>6. o \in Int
        <4>1. Horizon \div 1440 \in Int
          BY ScheduleAssumption
        <4>2. d \in Nat
          BY <4>1
        <4>3. W!Opens(i) \in Minute
          BY <2>1, OpensMinute
        <4>4. W!Opens(i) \in Nat
          BY <4>3 DEF Minute
        <4> QED
          BY <3>2, <4>2, <4>4, DayStart
      <3>7. o + W!Offset <= now
        BY <3>3, <3>4, <3>5, <3>6
      <3> QED
        BY <2>2, <3>2, <3>3, <3>7 DEF ScheduleInv, TurnsTaken
    <2>3. CASE ~ (slot[3] < 6)
      <3>1. fired = {}
        BY <2>1, <2>3 DEF ScheduleInv, ScheduleOK
      <3> QED
        BY <2>3, <3>1
    <2> QED
      BY <2>2, <2>3
  <1> QED
    BY <1>1, ScheduleInvariant, PTL

(* A tick that takes the turn of a window takes it for the first time.               *)
THEOREM WindowsFireOnce == WarmupSpec => FiresOnce
  <1>1. ScheduleInv /\ [WarmupNext]_<<part, vars, scheduleVars>>
           => [lastFired' \notin {lastFired, W!NoKey}
                 => W!OpenedAt(now', W!ActiveAt(now')) \notin fired]_W!vars
    <2> SUFFICES ASSUME ScheduleInv, [WarmupNext]_<<part, vars, scheduleVars>>,
                        lastFired' # lastFired, lastFired' # W!NoKey
                 PROVE  W!OpenedAt(now', W!ActiveAt(now')) \notin fired
      OBVIOUS
    <2>1. W!Tick /\ W!ClockGoes /\ W!Checks
      BY DEF WarmupNext, scheduleVars, W!Next, W!Tick, W!Off, W!TurnsToP3
    <2>2. W!ActiveAt(now') # W!Never /\ W!Turn(now')
      BY <2>1 DEF W!Checks
    <2>3. slot \in Slot /\ now \in Nat /\ now' = now + 5
      BY <2>1 DEF ScheduleInv, ScheduleOK, W!ClockGoes, W!TickMin
    <2> DEFINE o == W!OpenedAt(now', W!ActiveAt(now'))
    <2>4. o \in Int /\ now' < o + W!Offset + 5
      BY <2>2, <2>3, TurnFires
    <2> HIDE DEF o
    <2>5. W!Offset \in Nat
      BY <2>3, OffsetNat
    <2>6. ~ (o + W!Offset <= now)
      BY <2>3, <2>4, <2>5
    <2>7. o \notin fired
      BY <2>6 DEF ScheduleInv, ScheduleOK
    <2> QED
      BY <2>7 DEF o
  <1> QED
    BY <1>1, ScheduleInvariant, PTL DEF WarmupSpec, FiresOnce, W!FiresOnce
=============================================================================
