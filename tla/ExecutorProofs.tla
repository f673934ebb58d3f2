--------------------------- MODULE ExecutorProofs ---------------------------
(***************************************************************************)
(* The account pool, proved for any number of accounts, workers and clerks,   *)
(* any dialogue script and any number of crashes and failed statements: who     *)
(* has an account and what its row says agree, except for accounts of which an  *)
(* outdated copy was saved or that were restored while a worker had them.       *)
(***************************************************************************)
EXTENDS Executor, FiniteSetTheorems, TLAPS

Accounts == Account \cup {NoAccount}
AtWork   == {"task", "login", "script", "close", "dialogue", "release"}

WorkerState ==
    [pc: {"idle", "take", "leave"} \cup AtWork, acct: Accounts, save: Row, old: BOOLEAN,
     browser: {"none", "ready", "busy", "error"}, step: Step \cup {0}, count: Nat]

ClerkState == [pc: {"idle", "change", "restore"}, acct: Accounts, save: Row, old: BOOLEAN]

RowsOK    == row \in [Account -> Row]
WorkersOK == worker \in [Worker -> WorkerState] /\ \A w \in Worker : worker[w].pc # "idle" => worker[w].acct \in Account
ClerksOK  == clerk \in [Clerk -> ClerkState] /\ \A c \in Clerk : clerk[c].pc # "idle" => clerk[c].acct \in Account

(* Every variable has its type, and who is not idle has an account.            *)
TypeOK ==
    /\ RowsOK /\ WorkersOK /\ ClerksOK
    /\ orphans \in [Account -> SUBSET {"ready", "busy", "error"}]
    /\ faults \in Nat
-----------------------------------------------------------------------------
(* The records the steps build are of their types.                            *)
LEMMA FreshOK == FreshRow \in Row /\ NoWork \in WorkerState /\ NoClerk \in ClerkState
BY DEF FreshRow, Row, NoWork, NoClerk, WorkerState, ClerkState, Accounts

(* A save outdates the copies that others are about to save, and changes        *)
(* nothing else.                                                             *)
Same(s, t) == s.pc = t.pc /\ s.acct = t.acct /\ s.save = t.save

LEMMA OutdatedWorkers ==
    ASSUME WorkersOK, NEW a
    PROVE  /\ Outdates(a, worker) \in [Worker -> WorkerState]
           /\ \A w \in Worker :
                /\ Same(Outdates(a, worker)[w], worker[w])
                /\ IF worker[w].acct = a /\ worker[w].pc \in {"take", "leave"}
                   THEN Outdates(a, worker)[w].old
                   ELSE Outdates(a, worker)[w] = worker[w]
<1>1. DOMAIN worker = Worker
    BY DEF WorkersOK
<1>2. ASSUME NEW w \in Worker
      PROVE  /\ Outdates(a, worker)[w] \in WorkerState
             /\ Same(Outdates(a, worker)[w], worker[w])
             /\ IF worker[w].acct = a /\ worker[w].pc \in {"take", "leave"}
                THEN Outdates(a, worker)[w].old
                ELSE Outdates(a, worker)[w] = worker[w]
  <2>1. worker[w] \in WorkerState
    BY DEF WorkersOK
  <2>2. worker[w].pc \notin {"change", "restore"}
    BY <2>1 DEF WorkerState, AtWork
  <2>3. Outdates(a, worker)[w] = IF worker[w].acct = a /\ worker[w].pc \in {"take", "leave"}
                                 THEN [worker[w] EXCEPT !.old = TRUE] ELSE worker[w]
    BY <1>1, <2>2 DEF Outdates
  <2> QED BY <2>1, <2>3 DEF Same, WorkerState
<1>3. Outdates(a, worker) = [w \in Worker |-> Outdates(a, worker)[w]]
    BY <1>1 DEF Outdates
<1> QED BY <1>2, <1>3

LEMMA OutdatedClerks ==
    ASSUME ClerksOK, NEW a
    PROVE  /\ Outdates(a, clerk) \in [Clerk -> ClerkState]
           /\ \A c \in Clerk :
                /\ Same(Outdates(a, clerk)[c], clerk[c])
                /\ IF clerk[c].acct = a /\ clerk[c].pc # "idle"
                   THEN Outdates(a, clerk)[c].old
                   ELSE Outdates(a, clerk)[c] = clerk[c]
<1>1. DOMAIN clerk = Clerk
    BY DEF ClerksOK
<1>2. ASSUME NEW c \in Clerk
      PROVE  /\ Outdates(a, clerk)[c] \in ClerkState
             /\ Same(Outdates(a, clerk)[c], clerk[c])
             /\ IF clerk[c].acct = a /\ clerk[c].pc # "idle"
                THEN Outdates(a, clerk)[c].old
                ELSE Outdates(a, clerk)[c] = clerk[c]
  <2>1. clerk[c] \in ClerkState
    BY DEF ClerksOK
  <2>2. clerk[c].pc # "idle" <=> clerk[c].pc \in {"take", "leave", "change", "restore"}
    BY <2>1 DEF ClerkState
  <2>3. Outdates(a, clerk)[c] = IF clerk[c].acct = a /\ clerk[c].pc # "idle"
                                THEN [clerk[c] EXCEPT !.old = TRUE] ELSE clerk[c]
    BY <1>1, <2>2 DEF Outdates
  <2> QED BY <2>1, <2>3 DEF Same, ClerkState
<1>3. Outdates(a, clerk) = [c \in Clerk |-> Outdates(a, clerk)[c]]
    BY <1>1 DEF Outdates
<1> QED BY <1>2, <1>3
-----------------------------------------------------------------------------
(* Types *)

(* One worker changes.                                                        *)
LEMMA WorkerChanges ==
    ASSUME WorkersOK, NEW w \in Worker, NEW s \in WorkerState, s.pc # "idle" => s.acct \in Account,
           worker' = [worker EXCEPT ![w] = s]
    PROVE  WorkersOK'
BY DEF WorkersOK

(* One changes and the copies of the others become outdated.                   *)
LEMMA SavesKeepTypes ==
    ASSUME TypeOK, NEW a \in Account, NEW r \in Row, row' = [row EXCEPT ![a] = r],
           UNCHANGED <<orphans, faults>>,
           \/ /\ clerk' = Outdates(a, clerk)
              /\ \E w \in Worker : \E s \in WorkerState :
                    /\ s.pc # "idle" => s.acct \in Account
                    /\ worker' = [Outdates(a, worker) EXCEPT ![w] = s]
           \/ /\ worker' = Outdates(a, worker)
              /\ \E c \in Clerk : clerk' = [Outdates(a, clerk) EXCEPT ![c] = NoClerk]
    PROVE  TypeOK'
<1>1. RowsOK'
    BY DEF TypeOK, RowsOK
<1>2. /\ Outdates(a, worker) \in [Worker -> WorkerState]
      /\ \A w \in Worker : Same(Outdates(a, worker)[w], worker[w])
    BY OutdatedWorkers DEF TypeOK
<1>3. /\ Outdates(a, clerk) \in [Clerk -> ClerkState]
      /\ \A c \in Clerk : Same(Outdates(a, clerk)[c], clerk[c])
    BY OutdatedClerks DEF TypeOK
<1>4. CASE /\ clerk' = Outdates(a, clerk)
           /\ \E w \in Worker : \E s \in WorkerState :
                 /\ s.pc # "idle" => s.acct \in Account
                 /\ worker' = [Outdates(a, worker) EXCEPT ![w] = s]
    BY <1>1, <1>2, <1>3, <1>4 DEF TypeOK, WorkersOK, ClerksOK, Same
<1>5. CASE /\ worker' = Outdates(a, worker)
           /\ \E c \in Clerk : clerk' = [Outdates(a, clerk) EXCEPT ![c] = NoClerk]
    BY <1>1, <1>2, <1>3, <1>5, FreshOK DEF TypeOK, WorkersOK, ClerksOK, Same, NoClerk
<1> QED BY <1>4, <1>5

(* A worker that works on, whatever it changes of its own, stays at work for its *)
(* account.                                                                  *)
WorksOn(w) ==
    /\ worker[w].pc \in AtWork
    /\ \E s \in WorkerState :
          /\ s.pc \in AtWork /\ s.acct = worker[w].acct
          /\ worker' = [worker EXCEPT ![w] = s]

WorkStep(w) ==
    \/ Launches(w) \/ Converses(w) \/ Integrates(w) \/ LogsIn(w) \/ RunsScript(w) \/ Closes(w)
    \/ BrowserThrows(w) \/ StepRuns(w) \/ DialogueEnds(w) \/ LogFails(w)

LEMMA WorkStepWorksOn ==
    ASSUME TypeOK, NEW w \in Worker, WorkStep(w)
    PROVE  /\ WorksOn(w)
           /\ orphans' \in [Account -> SUBSET {"ready", "busy", "error"}]
           /\ faults' \in Nat /\ UNCHANGED <<row, clerk, loose, left>>
<1> DEFINE me == worker[w]
           ended == [NoWork EXCEPT !.pc = "release", !.acct = me.acct]
<1>1. me \in WorkerState /\ (me.pc # "idle" => me.acct \in Account)
    BY DEF TypeOK, WorkersOK
<1>2. ended \in WorkerState /\ ended.pc = "release" /\ ended.acct = me.acct
    BY <1>1 DEF NoWork, FreshRow, Row, WorkerState, AtWork
<1>3. UNCHANGED <<row, clerk, loose, left>>
    BY DEF WorkStep, Launches, Converses, Integrates, LogsIn, RunsScript, Closes, BrowserThrows, StepRuns,
           DialogueEnds, LogFails, Works
<1>4. ASSUME NEW s \in WorkerState, s.pc \in AtWork, s.acct = me.acct, me.pc \in AtWork, Works(w, s)
      PROVE  WorksOn(w) /\ UNCHANGED <<orphans, faults>>
    BY <1>4 DEF Works, WorksOn
<1>5. ASSUME NEW b \in {"none", "ready", "busy", "error"}, Abandons(w, b), me.pc \in AtWork
      PROVE  WorksOn(w) /\ orphans' \in [Account -> SUBSET {"ready", "busy", "error"}]
  <2>1. WorksOn(w)
    BY <1>2, <1>5 DEF Abandons, WorksOn, AtWork
  <2>2. orphans \in [Account -> SUBSET {"ready", "busy", "error"}] /\ {b} \ {"none"} \subseteq {"ready", "busy", "error"}
    BY <1>5 DEF TypeOK
  <2>3. orphans' = [orphans EXCEPT ![me.acct] = @ \cup ({b} \ {"none"})]
    BY <1>5 DEF Abandons
  <2> QED BY <2>1, <2>2, <2>3
<1>6. orphans \in [Account -> SUBSET {"ready", "busy", "error"}] /\ faults \in Nat
    BY DEF TypeOK
<1>7. CASE Launches(w)
  <2>1. [me EXCEPT !.pc = "login", !.browser = "ready"] \in WorkerState
    BY <1>1 DEF WorkerState, AtWork
  <2> QED BY <1>1, <1>3, <1>4, <1>6, <1>7, <2>1 DEF Launches, WorkerState, AtWork
<1>8. CASE Converses(w)
  <2>1. [me EXCEPT !.pc = "dialogue", !.step = 1] \in WorkerState
    BY <1>1, ExecutorAssumption DEF WorkerState, AtWork
  <2> QED BY <1>1, <1>3, <1>4, <1>6, <1>8, <2>1 DEF Converses, WorkerState, AtWork
<1>9. CASE Integrates(w)
  <2>1. [me EXCEPT !.pc = "release"] \in WorkerState
    BY <1>1 DEF WorkerState, AtWork
  <2> QED BY <1>1, <1>3, <1>4, <1>6, <1>9, <2>1 DEF Integrates, WorkerState, AtWork
<1>10. CASE LogsIn(w)
  <2>1. [me EXCEPT !.pc = "script", !.browser = "busy"] \in WorkerState
    BY <1>1 DEF WorkerState, AtWork
  <2> QED BY <1>1, <1>3, <1>4, <1>6, <1>10, <2>1 DEF LogsIn, WorkerState, AtWork
<1>11. CASE RunsScript(w)
  <2>1. [me EXCEPT !.pc = "close", !.browser = "ready"] \in WorkerState
    BY <1>1 DEF WorkerState, AtWork
  <2> QED BY <1>1, <1>3, <1>4, <1>6, <1>11, <2>1 DEF RunsScript, WorkerState, AtWork
<1>12. CASE Closes(w)
    BY <1>2, <1>3, <1>4, <1>6, <1>12 DEF Closes, AtWork
<1>13. CASE BrowserThrows(w)
    BY <1>3, <1>5, <1>6, <1>13 DEF BrowserThrows, Broken, AtWork
<1>14. CASE StepRuns(w)
  <2> DEFINE after == [me EXCEPT !.count = Counted(@), !.step = NextStep[me.step]]
  <2>1. me.pc = "dialogue" /\ (Works(w, after) \/ Works(w, ended))
    BY <1>14 DEF StepRuns
  <2>2. me.step \in Step
    BY <1>1, <1>14 DEF StepRuns, WorkerState
  <2>3. NextStep[me.step] \in Step \cup {0} /\ Counted(me.count) \in Nat
    BY <1>1, <2>2, ExecutorAssumption DEF Counted, WorkerState
  <2>4. after \in WorkerState /\ after.pc = "dialogue" /\ after.acct = me.acct
    BY <1>1, <2>1, <2>3 DEF WorkerState, AtWork
  <2>5. CASE Works(w, after)
    <3>1. WorksOn(w) /\ UNCHANGED <<orphans, faults>>
      BY <1>4, <2>1, <2>4, <2>5 DEF AtWork
    <3> QED BY <1>3, <1>6, <3>1
  <2>6. CASE Works(w, ended)
    BY <1>2, <1>3, <1>4, <1>6, <2>1, <2>6 DEF AtWork
  <2> QED BY <2>1, <2>5, <2>6
<1>15. CASE DialogueEnds(w)
    BY <1>2, <1>3, <1>4, <1>6, <1>15 DEF DialogueEnds, AtWork
<1>16. CASE LogFails(w)
  <2>1. me.browser \in {"none", "ready", "busy", "error"}
    BY <1>1 DEF WorkerState
  <2>2. Abandons(w, me.browser) /\ me.pc \in AtWork /\ faults' = faults + 1
    BY <1>16 DEF LogFails, AtWork
  <2>3. WorksOn(w) /\ orphans' \in [Account -> SUBSET {"ready", "busy", "error"}]
    BY <1>5, <2>1, <2>2
  <2> QED BY <1>3, <1>6, <2>2, <2>3
<1> QED BY <1>7, <1>8, <1>9, <1>10, <1>11, <1>12, <1>13, <1>14, <1>15, <1>16 DEF WorkStep

(* A search reads a row and nothing else changes.                             *)
LEMMA RowTyped == ASSUME TypeOK, NEW a \in Account PROVE row[a] \in Row
BY DEF TypeOK, RowsOK

LEMMA TypeStep == ASSUME TypeOK, [Next]_vars PROVE TypeOK'
<1> USE DEF AtWork
<1>1. ASSUME NEW w \in Worker, WorkStep(w) PROVE TypeOK'
  <2>1. WorksOn(w) /\ UNCHANGED <<row, clerk>>
    BY <1>1, WorkStepWorksOn
  <2>2. PICK s \in WorkerState : s.pc \in AtWork /\ s.acct = worker[w].acct /\ worker' = [worker EXCEPT ![w] = s]
    BY <2>1 DEF WorksOn
  <2>3. worker[w].acct \in Account
    BY <2>1 DEF TypeOK, WorkersOK, WorksOn
  <2>4. WorkersOK'
    BY <2>2, <2>3, WorkerChanges DEF TypeOK
  <2> QED BY <1>1, <2>1, <2>4, WorkStepWorksOn DEF TypeOK, RowsOK, ClerksOK
<1>2. ASSUME NEW w \in Worker, NEW a \in Account, Picks(w, a) PROVE TypeOK'
  <2> DEFINE s == [NoWork EXCEPT !.pc = "take", !.acct = a, !.save = [row[a] EXCEPT !.status = "busy"]]
  <2>1. s \in WorkerState /\ s.acct = a
    BY RowTyped DEF NoWork, FreshRow, Row, WorkerState, Accounts
  <2>2. worker' = [worker EXCEPT ![w] = s] /\ UNCHANGED <<row, clerk, orphans, faults, loose, left>>
    BY <1>2 DEF Picks
  <2>3. WorkersOK'
    BY <2>1, <2>2, WorkerChanges DEF TypeOK
  <2> QED BY <2>2, <2>3 DEF TypeOK, RowsOK, ClerksOK
<1>3. ASSUME NEW w \in Worker, ReleaseFinds(w) PROVE TypeOK'
  <2> DEFINE a == worker[w].acct
             s == [NoWork EXCEPT !.pc = "leave", !.acct = a, !.save = Released(row[a])]
  <2>1. a \in Account
    BY <1>3 DEF ReleaseFinds, TypeOK, WorkersOK
  <2>2. s \in WorkerState /\ s.acct = a
    BY <2>1, RowTyped DEF NoWork, FreshRow, Row, WorkerState, Accounts, Released
  <2>3. worker' = [worker EXCEPT ![w] = s] /\ UNCHANGED <<row, clerk, orphans, faults, loose, left>>
    BY <1>3 DEF ReleaseFinds
  <2>4. WorkersOK'
    BY <2>1, <2>2, <2>3, WorkerChanges DEF TypeOK
  <2> QED BY <2>3, <2>4 DEF TypeOK, RowsOK, ClerksOK
<1>4. ASSUME NEW w \in Worker, Takes(w) PROVE TypeOK'
  <2> DEFINE me == worker[w]
             s == [NoWork EXCEPT !.pc = "task", !.acct = me.acct]
  <2>1. me \in WorkerState /\ me.acct \in Account /\ me.save \in Row
    BY <1>4 DEF Takes, TypeOK, WorkersOK, WorkerState
  <2>2. s \in WorkerState /\ s.acct = me.acct
    BY <2>1 DEF NoWork, FreshRow, Row, WorkerState, Accounts
  <2>3. /\ row' = [row EXCEPT ![me.acct] = me.save] /\ UNCHANGED <<orphans, faults>>
        /\ worker' = [Outdates(me.acct, worker) EXCEPT ![w] = s] /\ clerk' = Outdates(me.acct, clerk)
    BY <1>4 DEF Takes, Writes, Loosens
  <2> HIDE DEF s, me
  <2> QED BY <2>1, <2>2, <2>3, SavesKeepTypes
<1>5. ASSUME NEW w \in Worker, ReleaseSaves(w) PROVE TypeOK'
  <2> DEFINE me == worker[w]
  <2>1. me.acct \in Account /\ me.save \in Row
    BY <1>5 DEF ReleaseSaves, TypeOK, WorkersOK, WorkerState
  <2>2. /\ row' = [row EXCEPT ![me.acct] = me.save] /\ UNCHANGED <<orphans, faults>>
        /\ worker' = [Outdates(me.acct, worker) EXCEPT ![w] = NoWork] /\ clerk' = Outdates(me.acct, clerk)
    BY <1>5 DEF ReleaseSaves, Writes, Loosens
  <2>3. NoWork \in WorkerState /\ NoWork.pc = "idle"
    BY FreshOK DEF NoWork
  <2> HIDE DEF me
  <2> QED BY <2>1, <2>2, <2>3, SavesKeepTypes
<1>6. ASSUME NEW c \in Clerk, NEW a \in Account, NEW pc \in {"change", "restore"}, NEW rows \in SUBSET Row,
             ClerkFinds(c, a, pc, rows)
      PROVE  TypeOK'
    BY <1>6 DEF ClerkFinds, TypeOK, RowsOK, WorkersOK, ClerksOK, ClerkState, Accounts
<1>7. ASSUME NEW c \in Clerk, NEW a \in Account, HealthFinds(c, a) PROVE TypeOK'
  <2>1. Checked(row[a]) \in SUBSET Row
    BY RowTyped DEF Checked, Row
  <2> QED BY <1>6, <1>7, <2>1 DEF HealthFinds
<1>8. ASSUME NEW c \in Clerk, NEW a \in Account, MaintenanceFinds(c, a) PROVE TypeOK'
  <2>1. {[row[a] EXCEPT !.status = "maintenance"]} \in SUBSET Row
    BY RowTyped DEF Row
  <2> QED BY <1>6, <1>8, <2>1 DEF MaintenanceFinds
<1>9. ASSUME NEW c \in Clerk, NEW a \in Account, RestoreFinds(c, a) PROVE TypeOK'
  <2>1. Restored(row[a]) \in SUBSET Row
    BY RowTyped DEF Restored, Row
  <2> QED BY <1>6, <1>9, <2>1 DEF RestoreFinds
<1>10. ASSUME NEW c \in Clerk, ClerkSaves(c) PROVE TypeOK'
  <2> DEFINE me == clerk[c]
  <2>1. me.acct \in Account /\ me.save \in Row
    BY <1>10 DEF ClerkSaves, TypeOK, ClerksOK, ClerkState
  <2>2. /\ row' = [row EXCEPT ![me.acct] = me.save] /\ UNCHANGED <<orphans, faults>>
        /\ worker' = Outdates(me.acct, worker) /\ clerk' = [Outdates(me.acct, clerk) EXCEPT ![c] = NoClerk]
    BY <1>10 DEF ClerkSaves, Writes, Loosens
  <2> HIDE DEF me
  <2> QED BY <2>1, <2>2, SavesKeepTypes
<1>11. ASSUME NEW a \in Account, CleansUp(a) PROVE TypeOK'
    BY <1>11 DEF CleansUp, TypeOK, RowsOK, WorkersOK, ClerksOK
<1>15. ASSUME NEW w \in Worker, PoolFails(w) PROVE TypeOK'
  <2>1. NoWork \in WorkerState /\ NoWork.pc = "idle"
    BY FreshOK DEF NoWork
  <2>2. worker' = [worker EXCEPT ![w] = NoWork]
    BY <1>15 DEF PoolFails
  <2>3. WorkersOK'
    BY <2>1, <2>2, WorkerChanges DEF TypeOK
  <2> QED BY <1>15, <2>3 DEF PoolFails, TypeOK, RowsOK, ClerksOK
<1>16. ASSUME NEW c \in Clerk, ClerkFails(c) PROVE TypeOK'
    BY <1>16, FreshOK DEF ClerkFails, TypeOK, RowsOK, WorkersOK, ClerksOK, NoClerk
<1>12. CASE Crash
    BY <1>12, FreshOK DEF Crash, TypeOK, RowsOK, WorkersOK, ClerksOK, NoWork, NoClerk
<1>13. CASE UNCHANGED vars
    BY <1>13 DEF vars, TypeOK, RowsOK, WorkersOK, ClerksOK
<1>14. CASE Next
    BY <1>1, <1>2, <1>3, <1>4, <1>5, <1>7, <1>8, <1>9, <1>10, <1>11, <1>12, <1>14, <1>15, <1>16
       DEF Next, WorkerStep, WorkStep, Acquires, Assigns
<1> QED BY <1>13, <1>14

(* Every variable keeps its type, and nobody saves a row or does a task without *)
(* an account: all that the pool and the executor do.                          *)
THEOREM ExecutorTypeCorrect == Spec => []TypeOK
<1>1. Init => TypeOK
    BY FreshOK DEF Init, TypeOK, RowsOK, WorkersOK, ClerksOK, NoWork, NoClerk
<1>2. TypeOK /\ [Next]_vars => TypeOK'
    BY TypeStep
<1> QED BY <1>1, <1>2, PTL DEF Spec
-----------------------------------------------------------------------------
(* Who has an account *)

Pending(x, pc) == x.pc = pc /\ ~x.old

(* What is true of an account that no outdated copy was saved of: it has at most *)
(* one holder, its row says busy only if it has one or was left by one and idle  *)
(* only if it has none, and every copy of its row that is not outdated says what the row says  *)
(* but for the change it is to make.  Two workers that both found the account    *)
(* idle are not excluded: the first save outdates the other's copy.             *)
Agrees(a) ==
    /\ \A v, w \in Worker : Holds(v, a) /\ Holds(w, a) => v = w
    /\ \A w \in Worker : Holds(w, a) => row[a].status # "idle"
    /\ row[a].status = "busy" => a \in left \/ \E w \in Worker : Holds(w, a)
    /\ \A w \in Worker : worker[w].acct = a =>
        /\ Pending(worker[w], "take") => row[a].status = "idle" /\ worker[w].save.status = "busy"
        /\ worker[w].pc = "leave" => worker[w].save.status = "idle"
    /\ \A c \in Clerk : clerk[c].acct = a =>
        /\ Pending(clerk[c], "change") => clerk[c].save.status \in {row[a].status, "error", "maintenance"}
        /\ clerk[c].pc = "restore" => clerk[c].save.status = "idle"

AllAgree == \A a \in Account \ loose : Agrees(a)

Out(x, a) == x.acct # a \/ x.pc = "idle"

(* A step that has nothing to do with account a: its row stays, and whoever     *)
(* changes neither had nor has to do with a, or only works on for it.            *)
Untouched(a) ==
    /\ row'[a] = row[a] /\ (a \in left => a \in left')
    /\ \A w \in Worker :
        \/ worker'[w] = worker[w]
        \/ Out(worker[w], a) /\ Out(worker'[w], a)
        \/ worker[w].pc \in AtWork /\ worker'[w].pc \in AtWork /\ worker'[w].acct = worker[w].acct
    /\ \A c \in Clerk : clerk'[c] = clerk[c] \/ (Out(clerk[c], a) /\ Out(clerk'[c], a))

LEMMA UntouchedAgrees ==
    ASSUME NEW a \in Account, Agrees(a), Untouched(a)
    PROVE  Agrees(a)'
<1>1. \A w \in Worker : Holds(w, a)' <=> Holds(w, a)
    BY DEF Untouched, Out, Holds, AtWork
<1>2. \A v, w \in Worker : Holds(v, a)' /\ Holds(w, a)' => v = w
    BY <1>1 DEF Agrees
<1>3. \A w \in Worker : Holds(w, a)' => row'[a].status # "idle"
    BY <1>1 DEF Agrees, Untouched
<1>4. row'[a].status = "busy" => a \in left' \/ \E w \in Worker : Holds(w, a)'
    BY <1>1 DEF Agrees, Untouched
<1>5. ASSUME NEW w \in Worker, worker'[w].acct = a
      PROVE  /\ Pending(worker'[w], "take") => row'[a].status = "idle" /\ worker'[w].save.status = "busy"
             /\ worker'[w].pc = "leave" => worker'[w].save.status = "idle"
    BY <1>5 DEF Agrees, Untouched, Out, Pending, AtWork
<1>6. ASSUME NEW c \in Clerk, clerk'[c].acct = a
      PROVE  /\ Pending(clerk'[c], "change") => clerk'[c].save.status \in {row'[a].status, "error", "maintenance"}
             /\ clerk'[c].pc = "restore" => clerk'[c].save.status = "idle"
    BY <1>6 DEF Agrees, Untouched, Out, Pending
<1> QED BY <1>2, <1>3, <1>4, <1>5, <1>6 DEF Agrees, Pending, Holds

(* What one saves of account b has nothing to do with another account.         *)
LEMMA SavedElsewhere ==
    ASSUME TypeOK, NEW a \in Account, NEW b \in Account, a # b, NEW r, row' = [row EXCEPT ![b] = r],
           left \ {b} \subseteq left',
           \/ /\ clerk' = Outdates(b, clerk)
              /\ \E w \in Worker : \E s :
                    /\ worker[w].acct = b /\ s.acct \in {b, NoAccount}
                    /\ worker' = [Outdates(b, worker) EXCEPT ![w] = s]
           \/ /\ worker' = Outdates(b, worker)
              /\ \E c \in Clerk : clerk[c].acct = b /\ clerk' = [Outdates(b, clerk) EXCEPT ![c] = NoClerk]
    PROVE  Untouched(a)
<1> USE ExecutorAssumption DEF Untouched, Out
<1>1. row'[a] = row[a] /\ (a \in left => a \in left')
    BY DEF TypeOK, RowsOK
<1>2. \A w \in Worker : Outdates(b, worker)[w] = worker[w] \/ (Out(worker[w], a) /\ Out(Outdates(b, worker)[w], a))
    BY OutdatedWorkers DEF TypeOK, Same
<1>3. \A c \in Clerk : Outdates(b, clerk)[c] = clerk[c] \/ (Out(clerk[c], a) /\ Out(Outdates(b, clerk)[c], a))
    BY OutdatedClerks DEF TypeOK, Same
<1>4. /\ Outdates(b, worker) \in [Worker -> WorkerState]
      /\ Outdates(b, clerk) \in [Clerk -> ClerkState]
    BY OutdatedWorkers, OutdatedClerks DEF TypeOK
<1>5. CASE /\ clerk' = Outdates(b, clerk)
           /\ \E w \in Worker : \E s :
                 /\ worker[w].acct = b /\ s.acct \in {b, NoAccount}
                 /\ worker' = [Outdates(b, worker) EXCEPT ![w] = s]
  <2>0. PICK w \in Worker : \E s : /\ worker[w].acct = b /\ s.acct \in {b, NoAccount}
                                   /\ worker' = [Outdates(b, worker) EXCEPT ![w] = s]
    BY <1>5
  <2>1. PICK s : /\ worker[w].acct = b /\ s.acct \in {b, NoAccount}
                 /\ worker' = [Outdates(b, worker) EXCEPT ![w] = s]
    BY <2>0
  <2>2. \A v \in Worker : worker'[v] = IF v = w THEN s ELSE Outdates(b, worker)[v]
    BY <1>4, <2>1
  <2>3. Out(worker[w], a) /\ Out(s, a)
    BY <2>1
  <2>4. \A v \in Worker : worker'[v] = worker[v] \/ (Out(worker[v], a) /\ Out(worker'[v], a))
    BY <1>2, <2>2, <2>3
  <2> QED BY <1>1, <1>3, <1>5, <2>4
<1>6. CASE /\ worker' = Outdates(b, worker)
           /\ \E c \in Clerk : clerk[c].acct = b /\ clerk' = [Outdates(b, clerk) EXCEPT ![c] = NoClerk]
  <2>1. PICK c \in Clerk : clerk[c].acct = b /\ clerk' = [Outdates(b, clerk) EXCEPT ![c] = NoClerk]
    BY <1>6
  <2>2. \A d \in Clerk : clerk'[d] = IF d = c THEN NoClerk ELSE Outdates(b, clerk)[d]
    BY <1>4, <2>1
  <2>3. Out(clerk[c], a) /\ Out(NoClerk, a)
    BY <2>1 DEF NoClerk
  <2>4. \A d \in Clerk : clerk'[d] = clerk[d] \/ (Out(clerk[d], a) /\ Out(clerk'[d], a))
    BY <1>3, <2>2, <2>3
  <2> QED BY <1>1, <1>2, <1>6, <2>4
<1> QED BY <1>5, <1>6

(* What the pool's saves have in common.  me: who saves; every other copy of the *)
(* row of account a is outdated then, and every other worker where it was.       *)
OthersOutdated(a, ws, cs) ==
    /\ \A w \in ws :
        /\ Same(worker'[w], worker[w])
        /\ worker[w].acct = a => ~Pending(worker'[w], "take")
    /\ \A c \in cs :
        /\ Same(clerk'[c], clerk[c])
        /\ clerk[c].acct = a => ~Pending(clerk'[c], "change")

LEMMA WorkerSaves ==
    ASSUME TypeOK, NEW a \in Account, NEW w \in Worker, NEW s,
           worker' = [Outdates(a, worker) EXCEPT ![w] = s], clerk' = Outdates(a, clerk)
    PROVE  worker'[w] = s /\ OthersOutdated(a, Worker \ {w}, Clerk)
<1>1. \A v \in Worker : worker'[v] = IF v = w THEN s ELSE Outdates(a, worker)[v]
    BY OutdatedWorkers DEF TypeOK
<1> QED BY <1>1, OutdatedWorkers, OutdatedClerks DEF TypeOK, OthersOutdated, Same, Pending

LEMMA TakesAgrees ==
    ASSUME TypeOK, NEW w \in Worker, NEW a \in Account, worker[w].acct = a,
           Takes(w), ~worker[w].old, Agrees(a)
    PROVE  Agrees(a)'
<1> DEFINE s == [NoWork EXCEPT !.pc = "task", !.acct = a]
<1>1. row[a].status = "idle" /\ worker[w].save.status = "busy"
    BY DEF Takes, Agrees, Pending
<1>2. \A v \in Worker : ~Holds(v, a)
    BY <1>1 DEF Agrees
<1>3. row'[a].status = "busy"
    BY <1>1 DEF Takes, Writes, TypeOK, RowsOK
<1>4. s.pc = "task" /\ s.acct = a
    BY DEF NoWork
<1>5. worker'[w] = s /\ OthersOutdated(a, Worker \ {w}, Clerk)
    BY WorkerSaves DEF Takes
<1> HIDE DEF s
<1>6. \A v \in Worker : Holds(v, a)' <=> v = w
    BY <1>2, <1>4, <1>5 DEF Holds, OthersOutdated, Same
<1>7. ASSUME NEW v \in Worker, worker'[v].acct = a
      PROVE  /\ ~Pending(worker'[v], "take")
             /\ worker'[v].pc = "leave" => worker'[v].save.status = "idle"
    BY <1>4, <1>5, <1>7 DEF Agrees, Pending, OthersOutdated, Same
<1>8. ASSUME NEW c \in Clerk, clerk'[c].acct = a
      PROVE  /\ ~Pending(clerk'[c], "change")
             /\ clerk'[c].pc = "restore" => clerk'[c].save.status = "idle"
    BY <1>5, <1>8 DEF Agrees, OthersOutdated, Same
<1>9. (\A v, u \in Worker : Holds(v, a)' /\ Holds(u, a)' => v = u) /\ \E v \in Worker : Holds(v, a)'
    BY <1>6
<1> QED BY <1>3, <1>7, <1>8, <1>9 DEF Agrees, Pending, Holds

LEMMA ReleaseAgrees ==
    ASSUME TypeOK, NEW w \in Worker, NEW a \in Account, worker[w].acct = a,
           ReleaseSaves(w), Agrees(a)
    PROVE  Agrees(a)'
<1>1. Holds(w, a) /\ worker[w].save.status = "idle"
    BY DEF ReleaseSaves, Agrees, Holds
<1>2. \A v \in Worker \ {w} : ~Holds(v, a)
    BY <1>1 DEF Agrees
<1>3. row'[a].status = "idle"
    BY <1>1 DEF ReleaseSaves, Writes, TypeOK, RowsOK
<1>4. worker'[w] = NoWork /\ OthersOutdated(a, Worker \ {w}, Clerk)
    BY WorkerSaves DEF ReleaseSaves
<1>5. \A v \in Worker : ~Holds(v, a)'
    BY <1>2, <1>4 DEF Holds, OthersOutdated, Same, NoWork
<1>6. ASSUME NEW v \in Worker, worker'[v].acct = a
      PROVE  /\ ~Pending(worker'[v], "take")
             /\ worker'[v].pc = "leave" => worker'[v].save.status = "idle"
    BY <1>4, <1>6 DEF Agrees, Pending, OthersOutdated, Same, NoWork
<1>7. ASSUME NEW c \in Clerk, clerk'[c].acct = a
      PROVE  /\ ~Pending(clerk'[c], "change")
             /\ clerk'[c].pc = "restore" => clerk'[c].save.status = "idle"
    BY <1>4, <1>7 DEF Agrees, OthersOutdated, Same
<1> QED BY <1>3, <1>5, <1>6, <1>7 DEF Agrees, Pending, Holds

(* A clerk's save leaves the holders as they are; only a restoration makes an    *)
(* account idle, which is recorded when somebody has it.                        *)
LEMMA ClerkSaveAgrees ==
    ASSUME TypeOK, NEW c \in Clerk, NEW a \in Account, clerk[c].acct = a,
           ClerkSaves(c), ~clerk[c].old, Agrees(a), a \notin loose'
    PROVE  Agrees(a)'
<1>1. row'[a].status = clerk[c].save.status
    BY DEF ClerkSaves, Writes, Loosens, TypeOK, RowsOK
<1>2. clerk[c].pc \in {"change", "restore"}
    BY DEF ClerkSaves, TypeOK, ClerksOK, ClerkState
<1>3. worker' = Outdates(a, worker) /\ clerk' = [Outdates(a, clerk) EXCEPT ![c] = NoClerk]
    BY DEF ClerkSaves
<1>4. \A d \in Clerk : clerk'[d] = IF d = c THEN NoClerk ELSE Outdates(a, clerk)[d]
    BY <1>3, OutdatedClerks DEF TypeOK
<1>5. OthersOutdated(a, Worker, Clerk \ {c})
    BY <1>3, <1>4, OutdatedWorkers, OutdatedClerks DEF TypeOK, OthersOutdated, Same, Pending
<1>6. \A v \in Worker : Holds(v, a)' <=> Holds(v, a)
    BY <1>5 DEF Holds, OthersOutdated, Same
<1>7. /\ \A v \in Worker : Holds(v, a) => row'[a].status # "idle"
      /\ row'[a].status = "busy" => a \in left' \/ \E v \in Worker : Holds(v, a)
  <2>1. CASE clerk[c].pc = "change"
    <3>1. clerk[c].save.status \in {row[a].status, "error", "maintenance"}
      BY <2>1 DEF Agrees, Pending
    <3> QED BY <1>1, <3>1 DEF Agrees, ClerkSaves
  <2>2. CASE clerk[c].pc = "restore"
    <3>1. clerk[c].save.status = "idle"
      BY <2>2 DEF Agrees
    <3>2. Holders(a) = {}
      BY <2>2 DEF ClerkSaves, Loosens
    <3> QED BY <1>1, <3>1, <3>2 DEF Holders
  <2> QED BY <1>2, <2>1, <2>2
<1>8. ASSUME NEW v \in Worker, worker'[v].acct = a
      PROVE  /\ ~Pending(worker'[v], "take")
             /\ worker'[v].pc = "leave" => worker'[v].save.status = "idle"
    BY <1>5, <1>8 DEF Agrees, Pending, OthersOutdated, Same
<1>9. ASSUME NEW d \in Clerk, clerk'[d].acct = a
      PROVE  /\ ~Pending(clerk'[d], "change")
             /\ clerk'[d].pc = "restore" => clerk'[d].save.status = "idle"
    BY <1>4, <1>5, <1>9 DEF Agrees, Pending, OthersOutdated, Same, NoClerk
<1>10. \A v, u \in Worker : Holds(v, a)' /\ Holds(u, a)' => v = u
    BY <1>6 DEF Agrees
<1>11. /\ \A v \in Worker : Holds(v, a)' => row'[a].status # "idle"
       /\ row'[a].status = "busy" => a \in left' \/ \E v \in Worker : Holds(v, a)'
    BY <1>6, <1>7
<1> QED BY <1>8, <1>9, <1>10, <1>11 DEF Agrees, Pending, Holds

(* A search leaves the rows and the holders as they are; its copy says what the *)
(* row says, but for the change.                                              *)
LEMMA PicksAgrees ==
    ASSUME TypeOK, NEW w \in Worker, NEW a \in Account, row[a].status = "idle", Picks(w, a), Agrees(a)
    PROVE  Agrees(a)'
<1> DEFINE s == [NoWork EXCEPT !.pc = "take", !.acct = a, !.save = [row[a] EXCEPT !.status = "busy"]]
<1>1. s.pc = "take" /\ s.acct = a /\ s.save.status = "busy"
    BY RowTyped DEF NoWork, Row
<1>2. (\A v \in Worker : worker'[v] = IF v = w THEN s ELSE worker[v]) /\ UNCHANGED <<row, clerk, left>>
    BY DEF Picks, TypeOK, WorkersOK
<1> HIDE DEF s
<1>3. \A v \in Worker : Holds(v, a)' <=> Holds(v, a)
    BY <1>1, <1>2 DEF Holds, Picks
<1>4. ASSUME NEW v \in Worker, worker'[v].acct = a
      PROVE  /\ Pending(worker'[v], "take") => row[a].status = "idle" /\ worker'[v].save.status = "busy"
             /\ worker'[v].pc = "leave" => worker'[v].save.status = "idle"
    BY <1>1, <1>2, <1>4 DEF Agrees, Pending
<1> QED BY <1>2, <1>3, <1>4 DEF Agrees, Pending, Holds

LEMMA ReleaseFindsAgrees ==
    ASSUME TypeOK, NEW w \in Worker, NEW a \in Account, worker[w].acct = a, ReleaseFinds(w), Agrees(a)
    PROVE  Agrees(a)'
<1> DEFINE s == [NoWork EXCEPT !.pc = "leave", !.acct = a, !.save = Released(row[a])]
<1>1. s.pc = "leave" /\ s.acct = a /\ s.save.status = "idle"
    BY RowTyped DEF NoWork, Row, Released
<1>2. (\A v \in Worker : worker'[v] = IF v = w THEN s ELSE worker[v]) /\ UNCHANGED <<row, clerk, left>>
    BY DEF ReleaseFinds, TypeOK, WorkersOK
<1> HIDE DEF s
<1>3. \A v \in Worker : Holds(v, a)' <=> Holds(v, a)
    BY <1>1, <1>2 DEF Holds, ReleaseFinds
<1>4. ASSUME NEW v \in Worker, worker'[v].acct = a
      PROVE  /\ Pending(worker'[v], "take") => row[a].status = "idle" /\ worker'[v].save.status = "busy"
             /\ worker'[v].pc = "leave" => worker'[v].save.status = "idle"
    BY <1>1, <1>2, <1>4 DEF Agrees, Pending
<1> QED BY <1>2, <1>3, <1>4 DEF Agrees, Pending, Holds

LEMMA ClerkFindsAgrees ==
    ASSUME TypeOK, NEW c \in Clerk, NEW a \in Account, Agrees(a),
           HealthFinds(c, a) \/ MaintenanceFinds(c, a) \/ RestoreFinds(c, a)
    PROVE  Agrees(a)'
<1>1. PICK pc \in {"change", "restore"}, r \in Row :
        /\ clerk' = [clerk EXCEPT ![c] = [pc |-> pc, acct |-> a, save |-> r, old |-> FALSE]]
        /\ pc = "change" => r.status \in {row[a].status, "error", "maintenance"}
        /\ pc = "restore" => r.status = "idle"
  <2>1. CASE HealthFinds(c, a)
    <3>1. PICK r \in Checked(row[a]) :
            clerk' = [clerk EXCEPT ![c] = [pc |-> "change", acct |-> a, save |-> r, old |-> FALSE]]
      BY <2>1 DEF HealthFinds, ClerkFinds
    <3>2. r \in Row /\ r.status \in {row[a].status, "error"}
      BY RowTyped DEF Checked, Row
    <3> QED BY <3>1, <3>2
  <2>2. CASE MaintenanceFinds(c, a)
    <3> DEFINE r == [row[a] EXCEPT !.status = "maintenance"]
    <3>1. clerk' = [clerk EXCEPT ![c] = [pc |-> "change", acct |-> a, save |-> r, old |-> FALSE]]
      BY <2>2 DEF MaintenanceFinds, ClerkFinds
    <3>2. r \in Row /\ r.status = "maintenance"
      BY RowTyped DEF Row
    <3> HIDE DEF r
    <3> QED BY <3>1, <3>2
  <2>3. CASE RestoreFinds(c, a)
    <3>1. PICK r \in Restored(row[a]) :
            clerk' = [clerk EXCEPT ![c] = [pc |-> "restore", acct |-> a, save |-> r, old |-> FALSE]]
      BY <2>3 DEF RestoreFinds, ClerkFinds
    <3>2. r \in Row /\ r.status = "idle"
      BY RowTyped DEF Restored, Row
    <3> QED BY <3>1, <3>2
  <2> QED BY <2>1, <2>2, <2>3
<1>2. UNCHANGED <<row, worker, left>>
    BY DEF HealthFinds, MaintenanceFinds, RestoreFinds, ClerkFinds
<1>3. \A d \in Clerk : clerk'[d] = IF d = c THEN [pc |-> pc, acct |-> a, save |-> r, old |-> FALSE] ELSE clerk[d]
    BY <1>1 DEF TypeOK, ClerksOK
<1>4. ASSUME NEW d \in Clerk, clerk'[d].acct = a
      PROVE  /\ Pending(clerk'[d], "change") => clerk'[d].save.status \in {row[a].status, "error", "maintenance"}
             /\ clerk'[d].pc = "restore" => clerk'[d].save.status = "idle"
    BY <1>1, <1>3, <1>4 DEF Agrees, Pending
<1> QED BY <1>2, <1>4 DEF Agrees, Pending, Holds

(* Every step keeps the agreement: all that the pool and the executor do.       *)
LEMMA AgreeStep == ASSUME TypeOK, AllAgree, [Next]_vars PROVE AllAgree'
<1> SUFFICES ASSUME NEW a \in Account, a \notin loose' PROVE Agrees(a)'
    BY DEF AllAgree
<1> USE ExecutorAssumption
<1>1. ASSUME loose \subseteq loose' PROVE Agrees(a)
    BY <1>1 DEF AllAgree
<1>2. ASSUME NEW w \in Worker, WorkStep(w) PROVE Agrees(a)'
  <2>1. WorksOn(w) /\ UNCHANGED <<row, clerk, loose, left>>
    BY <1>2, WorkStepWorksOn
  <2>2. Untouched(a)
    BY <2>1 DEF WorksOn, Untouched, TypeOK, WorkersOK
  <2> QED BY <1>1, <2>1, <2>2, UntouchedAgrees
<1>3. ASSUME NEW w \in Worker, NEW b \in Account, row[b].status = "idle", Picks(w, b) PROVE Agrees(a)'
  <2>1. UNCHANGED <<loose>>
    BY <1>3 DEF Picks
  <2>2. CASE a = b
    BY <1>1, <1>3, <2>1, <2>2, PicksAgrees
  <2>3. CASE a # b
    <3> DEFINE s == [NoWork EXCEPT !.pc = "take", !.acct = b, !.save = [row[b] EXCEPT !.status = "busy"]]
    <3>1. s.acct = b
      BY DEF NoWork
    <3>2. worker' = [worker EXCEPT ![w] = s] /\ worker[w].pc = "idle" /\ UNCHANGED <<row, clerk, left>>
      BY <1>3 DEF Picks
    <3> HIDE DEF s
    <3>3. Untouched(a)
      BY <2>3, <3>1, <3>2 DEF Untouched, Out, TypeOK, WorkersOK
    <3> QED BY <1>1, <2>1, <3>3, UntouchedAgrees
  <2> QED BY <2>2, <2>3
<1>4. ASSUME NEW w \in Worker, ReleaseFinds(w) PROVE Agrees(a)'
  <2>1. UNCHANGED <<loose>>
    BY <1>4 DEF ReleaseFinds
  <2>2. CASE worker[w].acct = a
    BY <1>1, <1>4, <2>1, <2>2, ReleaseFindsAgrees
  <2>3. CASE worker[w].acct # a
    <3> DEFINE s == [NoWork EXCEPT !.pc = "leave", !.acct = worker[w].acct, !.save = Released(row[worker[w].acct])]
    <3>1. s.acct = worker[w].acct
      BY DEF NoWork
    <3>2. worker' = [worker EXCEPT ![w] = s] /\ UNCHANGED <<row, clerk, left>>
      BY <1>4 DEF ReleaseFinds
    <3> HIDE DEF s
    <3>3. Untouched(a)
      BY <2>3, <3>1, <3>2 DEF Untouched, Out, TypeOK, WorkersOK
    <3> QED BY <1>1, <2>1, <3>3, UntouchedAgrees
  <2> QED BY <2>2, <2>3
<1>5. ASSUME NEW w \in Worker, Takes(w) PROVE Agrees(a)'
  <2> DEFINE b == worker[w].acct
             s == [NoWork EXCEPT !.pc = "task", !.acct = b]
  <2>1. loose \subseteq loose' /\ (worker[w].old => b \in loose')
    BY <1>5 DEF Takes, Writes, Loosens
  <2>2. CASE b = a
    BY <1>1, <1>5, <2>1, <2>2, TakesAgrees
  <2>3. CASE b # a
    <3>1. s.acct = b /\ b \in Account
      BY <1>5 DEF NoWork, Takes, TypeOK, WorkersOK
    <3>2. /\ row' = [row EXCEPT ![b] = worker[w].save] /\ clerk' = Outdates(b, clerk)
          /\ worker' = [Outdates(b, worker) EXCEPT ![w] = s] /\ worker[w].acct = b
          /\ left \ {b} \subseteq left'
      BY <1>5 DEF Takes, Writes, Loosens
    <3> HIDE DEF s, b
    <3>3. Untouched(a)
      BY <2>3, <3>1, <3>2, SavedElsewhere
    <3> QED BY <1>1, <2>1, <3>3, UntouchedAgrees
  <2> QED BY <2>2, <2>3
<1>6. ASSUME NEW w \in Worker, ReleaseSaves(w) PROVE Agrees(a)'
  <2> DEFINE b == worker[w].acct
  <2>1. loose \subseteq loose'
    BY <1>6 DEF ReleaseSaves, Writes, Loosens
  <2>2. CASE b = a
    BY <1>1, <1>6, <2>1, <2>2, ReleaseAgrees
  <2>3. CASE b # a
    <3>1. NoWork.acct = NoAccount /\ b \in Account
      BY <1>6 DEF NoWork, ReleaseSaves, TypeOK, WorkersOK
    <3>2. /\ row' = [row EXCEPT ![b] = worker[w].save] /\ clerk' = Outdates(b, clerk)
          /\ worker' = [Outdates(b, worker) EXCEPT ![w] = NoWork] /\ worker[w].acct = b
          /\ left \ {b} \subseteq left'
      BY <1>6 DEF ReleaseSaves, Writes, Loosens
    <3> HIDE DEF b
    <3>3. Untouched(a)
      BY <2>3, <3>1, <3>2, SavedElsewhere
    <3> QED BY <1>1, <2>1, <3>3, UntouchedAgrees
  <2> QED BY <2>2, <2>3
<1>7. ASSUME NEW c \in Clerk, NEW b \in Account,
             HealthFinds(c, b) \/ MaintenanceFinds(c, b) \/ RestoreFinds(c, b)
      PROVE  Agrees(a)'
  <2>1. /\ UNCHANGED <<row, worker, loose, left>> /\ clerk[c].pc = "idle"
        /\ \E s : s.acct = b /\ clerk' = [clerk EXCEPT ![c] = s]
    BY <1>7 DEF HealthFinds, MaintenanceFinds, RestoreFinds, ClerkFinds
  <2>2. CASE a = b
    BY <1>1, <1>7, <2>1, <2>2, ClerkFindsAgrees
  <2>3. CASE a # b
    <3>1. Untouched(a)
      BY <2>1, <2>3 DEF Untouched, Out, TypeOK, ClerksOK
    <3> QED BY <1>1, <2>1, <3>1, UntouchedAgrees
  <2> QED BY <2>2, <2>3
<1>8. ASSUME NEW c \in Clerk, ClerkSaves(c) PROVE Agrees(a)'
  <2> DEFINE b == clerk[c].acct
  <2>1. loose \subseteq loose' /\ (clerk[c].old => b \in loose')
    BY <1>8 DEF ClerkSaves, Writes, Loosens
  <2>2. CASE b = a
    BY <1>1, <1>8, <2>1, <2>2, ClerkSaveAgrees
  <2>3. CASE b # a
    <3>1. /\ row' = [row EXCEPT ![b] = clerk[c].save] /\ worker' = Outdates(b, worker)
          /\ clerk' = [Outdates(b, clerk) EXCEPT ![c] = NoClerk] /\ clerk[c].acct = b /\ b \in Account
          /\ left \ {b} \subseteq left'
      BY <1>8 DEF ClerkSaves, Writes, Loosens, TypeOK, ClerksOK
    <3> HIDE DEF b
    <3>2. Untouched(a)
      BY <2>3, <3>1, SavedElsewhere
    <3> QED BY <1>1, <2>1, <3>2, UntouchedAgrees
  <2> QED BY <2>2, <2>3
<1>9. ASSUME UNCHANGED <<row, worker, clerk, loose, left>> PROVE Agrees(a)'
  <2>1. Untouched(a)
    BY <1>9 DEF Untouched
  <2> QED BY <1>1, <1>9, <2>1, UntouchedAgrees
<1>10. CASE Crash
  <2>1. Agrees(a) /\ row' = row /\ left' = left \cup {b \in Account : Holders(b) # {}}
    BY <1>1, <1>10 DEF Crash
  <2>2. /\ \A w \in Worker : worker'[w].pc = "idle"
        /\ \A c \in Clerk : clerk'[c].pc = "idle"
    BY <1>10 DEF Crash, NoWork, NoClerk
  <2>3. row[a].status = "busy" => a \in left'
    BY <2>1 DEF Agrees, Holders
  <2> QED BY <2>1, <2>2, <2>3 DEF Agrees, Pending, Holds
<1>13. ASSUME NEW w \in Worker, PoolFails(w) PROVE Agrees(a)'
  <2>1. /\ \A v \in Worker : worker'[v] = IF v = w THEN NoWork ELSE worker[v]
        /\ UNCHANGED <<row, clerk, loose>>
    BY <1>13 DEF PoolFails, TypeOK, WorkersOK
  <2>2. /\ worker[w].pc \in {"take", "release", "leave"} /\ left \subseteq left'
        /\ Holds(w, a) => a \in left'
    BY <1>13 DEF PoolFails, Holds
  <2>3. Agrees(a)
    BY <1>1, <2>1
  <2>4. \A v \in Worker : Holds(v, a)' <=> v # w /\ Holds(v, a)
    BY <2>1 DEF Holds, NoWork
  <2>5. row'[a].status = "busy" => a \in left' \/ \E v \in Worker : Holds(v, a)'
    BY <2>1, <2>2, <2>3, <2>4 DEF Agrees
  <2> QED BY <2>1, <2>3, <2>4, <2>5 DEF Agrees, Pending, Holds, NoWork
<1>14. ASSUME NEW c \in Clerk, ClerkFails(c) PROVE Agrees(a)'
  <2>1. /\ \A d \in Clerk : clerk'[d] = IF d = c THEN NoClerk ELSE clerk[d]
        /\ UNCHANGED <<row, worker, loose, left>>
    BY <1>14 DEF ClerkFails, TypeOK, ClerksOK
  <2> QED BY <1>1, <2>1 DEF Agrees, Pending, Holds, NoClerk
<1>11. CASE Next
    BY <1>2, <1>3, <1>4, <1>5, <1>6, <1>7, <1>8, <1>9, <1>10, <1>11, <1>13, <1>14
       DEF Next, WorkerStep, WorkStep, Acquires, Assigns, Available, CleansUp
<1>12. CASE UNCHANGED vars
    BY <1>9, <1>12 DEF vars
<1> QED BY <1>11, <1>12

(* In every state the rows agree with who has the accounts: acquireAccount,       *)
(* assignTaskToAccount, releaseAccount, the health checks, maintenance and          *)
(* restorations together.                                                     *)
THEOREM PoolAgrees == Spec => []AllAgree
<1>1. Init => AllAgree
    BY DEF Init, AllAgree, Agrees, Holds, Pending, NoWork, NoClerk, FreshRow
<1>2. TypeOK /\ AllAgree /\ [Next]_vars => AllAgree'
    BY AgreeStep
<1> QED BY <1>1, <1>2, ExecutorTypeCorrect, PTL DEF Spec

(* At most one worker has an account and a held account never says idle, except  *)
(* where OneHolder says: acquireAccount, assignTaskToAccount and releaseAccount, *)
(* against the health checks, maintenance and restorations of the same pool.      *)
THEOREM AtMostOneHolder == Spec => []OneHolder
<1>1. AllAgree => OneHolder
  <2> SUFFICES ASSUME AllAgree, NEW a \in Account \ loose
               PROVE  Cardinality(Holders(a)) <= 1 /\ (Holders(a) # {} => row[a].status # "idle")
      BY DEF OneHolder
  <2>1. Agrees(a)
    BY DEF AllAgree
  <2>2. CASE Holders(a) = {}
    BY <2>2, FS_EmptySet
  <2>3. CASE Holders(a) # {}
    <3>1. PICK w \in Holders(a) : TRUE
      BY <2>3
    <3>2. Holders(a) = {w} /\ row[a].status # "idle"
      BY <2>1, <3>1 DEF Agrees, Holders
    <3>3. Cardinality({w}) = 1
      BY FS_Singleton, Zenon
    <3> QED BY <2>3, <3>2, <3>3
  <2> QED BY <2>2, <2>3
<1> QED BY <1>1, PoolAgrees, PTL

(* A row that says busy is that of an account somebody has, or one whose last      *)
(* worker went in a crash or had its release rejected: releaseAccount with both    *)
(* of its failures, against everything else that saves the row.                  *)
THEOREM NoBusyWithoutHolder == Spec => []BusyIsHeld
<1>1. AllAgree => BusyIsHeld
    BY DEF AllAgree, Agrees, BusyIsHeld, Holders
<1> QED BY <1>1, PoolAgrees, PTL
=============================================================================
