-------------------------- MODULE TaskRunnerProofs --------------------------
(***************************************************************************)
(* Proofs about TaskRunner, for every set of tasks, ticks and executions   *)
(* and every choice of environment events.                                 *)
(***************************************************************************)
EXTENDS TaskRunner, TLAPS

(* What a write leaves in each row, and that it keeps the column's type. *)
LEMMA WrittenRows ==
    ASSUME status \in [Task -> Status], NEW t, NEW s \in Row
    PROVE  /\ Written(t, s) \in [Task -> Status]
           /\ \A u \in Task : Written(t, s)[u] = IF u = t /\ Exists(t) THEN s ELSE status[u]
BY DEF Written, Exists, Status

(* A tick moves to a state of its type. *)
LEMMA TickMoves ==
    ASSUME TicksOK, NEW k \in Tick, NEW T \in TickState, T.pc = "loop" <=> T.cur = NoTask,
           tick' = [tick EXCEPT ![k] = T]
    PROVE  TicksOK' /\ tick'[k] = T /\ \A l \in Tick \ {k} : tick'[l] = tick[l]
BY DEF TicksOK

(* The cron handler moves to another await, or to another task. *)
LEMMA TickGoesType ==
    ASSUME TicksOK, NEW k \in Tick, NEW cur \in Task \cup {NoTask},
           NEW pc \in {"loop", "guard", "refuse", "refused", "mark"},
           pc = "loop" <=> cur = NoTask,
           tick' = TickGoes(k, pc, cur)
    PROVE  /\ TicksOK'
           /\ tick'[k].pc = pc /\ tick'[k].cur = cur
           /\ \A l \in Tick \ {k} : tick'[l] = tick[l]
<1> DEFINE T == [pc |-> pc, cur |-> cur, todo |-> tick[k].todo, late |-> tick[k].late]
<1>1. T \in TickState /\ T.pc = pc /\ T.cur = cur
    BY DEF TicksOK, TickState
<1>2. tick' = [tick EXCEPT ![k] = T]
    BY DEF TickGoes
<1> HIDE DEF T
<1> QED BY <1>1, <1>2, TickMoves

(* A slot moves to a busy state of its type. *)
LEMMA JobMoves ==
    ASSUME JobsOK, NEW j \in Job, NEW J \in JobState,
           J.pc # "free", J.task \in Task, J.by # "none", J.pc = "saved" => J.by = "auto",
           job' = [job EXCEPT ![j] = J]
    PROVE  JobsOK' /\ job'[j] = J /\ \A i \in Job \ {j} : job'[i] = job[i]
BY DEF JobsOK, FreeJob, AutoJob

(* An execution moves to another await. *)
LEMMA JobGoesType ==
    ASSUME JobsOK, NEW j \in Job, job[j].pc # "free",
           NEW pc \in {"body", "save", "saved"},
           NEW out \in {"none", "ok", "fail", "cancelled"},
           pc = "saved" => AutoJob(j),
           job' = JobGoes(j, pc, out)
    PROVE  /\ JobsOK'
           /\ job'[j].pc = pc /\ job'[j].by = job[j].by
           /\ job'[j].task = job[j].task /\ job'[j].out = out
           /\ \A i \in Job \ {j} : job'[i] = job[i]
<1> DEFINE J == [pc |-> pc, by |-> job[j].by, task |-> job[j].task, out |-> out]
<1>1. /\ J \in JobState /\ J.pc # "free" /\ J.task \in Task /\ J.by # "none"
      /\ J.pc = pc /\ J.by = job[j].by /\ J.task = job[j].task /\ J.out = out
      /\ J.pc = "saved" => J.by = "auto"
    BY DEF JobsOK, JobState, AutoJob
<1>2. job' = [job EXCEPT ![j] = J]
    BY DEF JobGoes
<1> HIDE DEF J
<1> QED BY <1>1, <1>2, JobMoves

(* An execution starts in a free slot. *)
LEMMA NewJobType ==
    ASSUME JobsOK, NEW j \in Job, NEW t \in Task,
           NEW by \in {"auto", "manual"}, NEW pc \in {"asked", "body"},
           job' = [job EXCEPT ![j] = NewJob(t, by, pc)]
    PROVE  /\ JobsOK'
           /\ job'[j].pc = pc /\ job'[j].by = by /\ job'[j].task = t /\ job'[j].out = "none"
           /\ \A i \in Job \ {j} : job'[i] = job[i]
<1> DEFINE J == NewJob(t, by, pc)
<1>1. /\ J \in JobState /\ J.pc # "free" /\ J.task \in Task /\ J.by # "none"
      /\ J.pc = pc /\ J.by = by /\ J.task = t /\ J.out = "none"
    BY DEF NewJob, JobState
<1> HIDE DEF J
<1> QED BY <1>1, JobMoves DEF J

(* The idle tick and the free slot are states of their types. *)
LEMMA Records ==
    /\ FreeJob \in JobState /\ FreeJob.pc = "free" /\ FreeJob.by = "none"
    /\ FreeJob.task = NoTask /\ FreeJob.out = "none"
    /\ IdleTick \in TickState /\ IdleTick.pc = "loop" /\ IdleTick.cur = NoTask
BY DEF FreeJob, JobState, IdleTick, TickState

(* An execution ends and its slot is free again. *)
LEMMA FreeJobType ==
    ASSUME JobsOK, NEW j \in Job, job' = [job EXCEPT ![j] = FreeJob]
    PROVE  /\ JobsOK'
           /\ job'[j] = FreeJob
           /\ \A i \in Job \ {j} : job'[i] = job[i]
<1>1. job' \in [Job -> JobState] /\ job'[j] = FreeJob /\ \A i \in Job \ {j} : job'[i] = job[i]
    BY Records DEF JobsOK
<1> QED BY <1>1, Records, ConstantsAssumption DEF JobsOK, AutoJob

(* Initially every variable has its type. *)
LEMMA TypeInit == Init => TypeOK
<1> SUFFICES ASSUME Init PROVE TypeOK
    OBVIOUS
<1>1. RowsOK
    BY DEF Init, RowsOK, Status, Row, Age
<1>2. TicksOK
    BY Records DEF Init, TicksOK
<1>3. JobsOK
    BY Records, ConstantsAssumption DEF Init, JobsOK, AutoJob
<1> QED
    BY <1>1, <1>2, <1>3 DEF TypeOK

(* The steps of the cron handler keep the types. *)
LEMMA TypeTick ==
    ASSUME TypeOK, NEW k \in Tick, TickStep(k) \/ TickDbFails(k)
    PROVE  TypeOK'
<1> USE DEF TypeOK
<1>1. CASE TickStart(k)
  <2> DEFINE due == {t \in Task : status[t] = "pending" /\ scheduledAt[t] # "future"}
             T == [pc |-> "loop", cur |-> NoTask, todo |-> due,
                   late |-> {t \in due : scheduledAt[t] = "stale"}]
  <2>1. T \in TickState /\ T.pc = "loop" /\ T.cur = NoTask
    BY DEF TickState
  <2>2. tick' = [tick EXCEPT ![k] = T]
    BY <1>1 DEF TickStart
  <2> HIDE DEF T, due
  <2>3. TicksOK'
    BY <2>1, <2>2, TickMoves
  <2> QED BY <1>1, <2>3 DEF TickStart, RowsOK, JobsOK, AutoJob
<1>2. ASSUME NEW t \in Task, SkipHeld(k, t) PROVE TypeOK'
  <2> DEFINE T == [pc |-> "loop", cur |-> NoTask,
                   todo |-> tick[k].todo \ {t}, late |-> tick[k].late \ {t}]
  <2>1. T \in TickState /\ T.pc = "loop" /\ T.cur = NoTask
    BY DEF TicksOK, TickState
  <2>2. tick' = [tick EXCEPT ![k] = T]
    BY <1>2 DEF SkipHeld
  <2> HIDE DEF T
  <2>3. TicksOK'
    BY <2>1, <2>2, TickMoves
  <2> QED BY <1>2, <2>3 DEF SkipHeld, RowsOK, JobsOK, AutoJob
<1>3. ASSUME NEW t \in Task, Claim(k, t) PROVE TypeOK'
  <2> DEFINE pc == IF t \in tick[k].late THEN "refuse"
                   ELSE IF Batched(t) THEN "guard" ELSE LicenseGate
             T == [pc |-> pc, cur |-> t,
                   todo |-> tick[k].todo \ {t}, late |-> tick[k].late \ {t}]
  <2>1. pc \in {"guard", "refuse", "mark"}
    BY DEF LicenseGate
  <2>2. tick' = [tick EXCEPT ![k] = T]
    BY <1>3 DEF Claim
  <2> HIDE DEF pc
  <2>3. T \in TickState /\ T.pc # "loop" /\ T.cur = t
    BY <2>1 DEF TicksOK, TickState
  <2> HIDE DEF T
  <2>4. TicksOK'
    BY <2>2, <2>3, TickMoves, ConstantsAssumption
  <2> QED BY <1>3, <2>4 DEF Claim, RowsOK, JobsOK, AutoJob
<1>4. CASE BatchGuard(k)
  <2>1. tick[k].cur \in Task
    BY <1>4 DEF BatchGuard, TicksOK, TickState
  <2>2. LicenseGate \in {"mark", "refuse"}
    BY DEF LicenseGate
  <2>3. \/ tick' = TickGoes(k, "loop", NoTask)
        \/ tick' = TickGoes(k, LicenseGate, tick[k].cur)
    BY <1>4 DEF BatchGuard, NextTask
  <2>4. TicksOK'
    BY <2>1, <2>2, <2>3, TickGoesType, ConstantsAssumption
  <2> QED BY <1>4, <2>4 DEF BatchGuard, WithoutClaim, RowsOK, JobsOK, AutoJob
<1>5. CASE Refuse(k)
  <2>1. tick[k].cur \in Task
    BY <1>5 DEF Refuse, TicksOK, TickState
  <2>2. TicksOK'
    BY <1>5, <2>1, TickGoesType, ConstantsAssumption DEF Refuse
  <2>3. status' \in [Task -> Status]
    BY <1>5, WrittenRows DEF Refuse, RowsOK, Row, Finished
  <2> QED BY <1>5, <2>2, <2>3 DEF Refuse, Ended, RowsOK, JobsOK, AutoJob
<1>6. CASE Release(k)
  <2>1. TicksOK'
    BY <1>6, TickGoesType DEF Release, NextTask
  <2> QED BY <1>6, <2>1 DEF Release, WithoutClaim, RowsOK, JobsOK, AutoJob
<1>7. ASSUME NEW j \in Job, Mark(k, j) PROVE TypeOK'
  <2>1. tick[k].cur \in Task
    BY <1>7 DEF Mark, TicksOK, TickState
  <2>2. TicksOK'
    BY <1>7, TickGoesType DEF Mark, NextTask
  <2>3. status' \in [Task -> Status]
    BY <1>7, WrittenRows DEF Mark, RowsOK, Row, Finished
  <2>4. JobsOK'
    BY <1>7, <2>1, NewJobType DEF Mark
  <2> QED BY <1>7, <2>2, <2>3, <2>4 DEF Mark, RowsOK
<1>8. CASE TickDbFails(k)
  <2>1. tick[k].cur \in Task
    BY <1>8 DEF TickDbFails, TicksOK, TickState
  <2>2. TicksOK'
    BY <1>8, Records, TickMoves DEF TickDbFails
  <2> QED BY <1>8, <2>1, <2>2 DEF TickDbFails, RowsOK, JobsOK, AutoJob
<1> QED
    BY <1>1, <1>2, <1>3, <1>4, <1>5, <1>6, <1>7, <1>8 DEF TickStep

(* The steps of an execution keep the types. *)
LEMMA TypeJob ==
    ASSUME TypeOK, NEW j \in Job, JobStep(j) \/ JobDbFails(j)
    PROVE  TypeOK'
<1> USE DEF TypeOK
<1>1. CASE JobEnds(j)
  <2>1. PICK out \in Results(j) :
           job' = IF out = "cancelled" /\ job[j].by = "manual"
                  THEN [job EXCEPT ![j] = FreeJob] ELSE JobGoes(j, "save", out)
    BY <1>1 DEF JobEnds
  <2>2. out \in {"none", "ok", "fail", "cancelled"}
    BY DEF Results, AutoResults, ManualResults, SimulateResults
  <2>3. JobsOK'
    BY <1>1, <2>1, <2>2, FreeJobType, JobGoesType DEF JobEnds
  <2> QED BY <1>1, <2>3 DEF JobEnds, RowsOK, TicksOK
<1>2. CASE JobSaves(j)
  <2>1. ResultStatus(job[j].out) \in Row
    BY DEF ResultStatus, Row, Finished
  <2>2. status' \in [Task -> Status]
    BY <1>2, <2>1, WrittenRows DEF JobSaves, RowsOK
  <2>3. job[j].out \in {"none", "ok", "fail", "cancelled"}
    BY DEF JobsOK, JobState
  <2>4. JobsOK'
    BY <1>2, <2>3, FreeJobType, JobGoesType DEF JobSaves, AutoJob
  <2> QED BY <1>2, <2>2, <2>4 DEF JobSaves, Ended, RowsOK, TicksOK
<1>3. CASE JobReleases(j)
  <2>1. status' \in [Task -> Status]
    BY <1>3, WrittenRows DEF JobReleases, RowsOK, Row
  <2>2. scheduledAt' \in [Task -> Age]
    BY <1>3 DEF JobReleases, RowsOK, Age
  <2>3. JobsOK'
    BY <1>3, FreeJobType DEF JobReleases
  <2> QED BY <1>3, <2>1, <2>2, <2>3 DEF JobReleases, WithoutClaim, RowsOK, TicksOK
<1>4. CASE ManualMark(j)
  <2>1. status' \in [Task -> Status]
    BY <1>4, WrittenRows DEF ManualMark, RowsOK, Row
  <2>2. JobsOK'
    BY <1>4, JobGoesType DEF ManualMark
  <2> QED BY <1>4, <2>1, <2>2 DEF ManualMark, RowsOK, TicksOK
<1>5. CASE JobDbFails(j)
  <2>1. job[j].task \in Task
    BY <1>5 DEF JobDbFails, JobsOK
  <2>2. JobsOK'
    BY <1>5, FreeJobType DEF JobDbFails
  <2> QED BY <1>5, <2>1, <2>2 DEF JobDbFails, WithoutClaim, RowsOK, TicksOK
<1> QED
    BY <1>1, <1>2, <1>3, <1>4, <1>5 DEF JobStep

(* The requests of a user keep the types. *)
LEMMA TypeUser ==
    ASSUME TypeOK, NEW t \in Task, UserStep(t)
    PROVE  TypeOK'
<1> USE DEF TypeOK
<1>1. ASSUME NEW j \in Job, Asks(j, t) PROVE TypeOK'
  <2>1. JobsOK'
    BY <1>1, NewJobType DEF Asks
  <2> QED BY <1>1, <2>1 DEF Asks, RowsOK, TicksOK
<1>2. ASSUME NEW s \in Status, UserSets(t, s) PROVE TypeOK'
    BY <1>2 DEF UserSets, Ended, RowsOK, TicksOK, JobsOK, AutoJob
<1>3. CASE Create(t)
    BY <1>3 DEF Create, RowsOK, TicksOK, JobsOK, AutoJob, Status, Row
<1> QED
    BY <1>1, <1>2, <1>3 DEF UserStep, Execute, Start, Cancel, Reset, Remove, Status, Row, Finished

(* The clock, the license and a restart keep the types. *)
LEMMA TypeEnvironment ==
    ASSUME TypeOK, (\E t \in Task : TimePasses(t)) \/ LicenseChanges \/ Restart
    PROVE  TypeOK'
<1> USE DEF TypeOK
<1>1. ASSUME NEW t \in Task, TimePasses(t) PROVE TypeOK'
    BY <1>1 DEF TimePasses, RowsOK, TicksOK, JobsOK, AutoJob, Age
<1>2. CASE LicenseChanges
    BY <1>2 DEF LicenseChanges, RowsOK, TicksOK, JobsOK, AutoJob
<1>3. CASE Restart
  <2>1. status' \in [Task -> Status] /\ stranded' \subseteq Task
    BY <1>3 DEF Restart, RowsOK, Status, Row, Finished
  <2>2. TicksOK'
    BY <1>3, Records DEF Restart, TicksOK
  <2>3. JobsOK'
    BY <1>3, Records, ConstantsAssumption DEF Restart, JobsOK, AutoJob
  <2> QED BY <1>3, <2>1, <2>2, <2>3 DEF Restart, Ended, RowsOK
<1> QED
    BY <1>1, <1>2, <1>3

(* Every step keeps the types, whoever takes it. *)
LEMMA TypeStep == TypeOK /\ [Next]_vars => TypeOK'
<1> SUFFICES ASSUME TypeOK, [Next]_vars PROVE TypeOK'
    OBVIOUS
<1>1. CASE UNCHANGED vars
    BY <1>1 DEF vars, TypeOK, RowsOK, TicksOK, JobsOK, AutoJob
<1>2. CASE Next
    BY <1>2, TypeTick, TypeJob, TypeUser, TypeEnvironment DEF Next
<1> QED
    BY <1>1, <1>2

(* Whatever ticks, executions, requests and restarts interleave, every      *)
(* variable keeps its type.                                                 *)
THEOREM TypeCorrect == Spec => []TypeOK
BY TypeInit, TypeStep, PTL DEF Spec
-----------------------------------------------------------------------------
(* The claim set: what it guards, and what it may not keep. *)
Claims == ClaimExclusive /\ NoLeakedClaim

(* The steps of the cron handler keep claims exclusive and accounted for. *)
LEMMA ClaimsTick ==
    ASSUME TypeOK, Claims, NEW k \in Tick, TickStep(k) \/ TickDbFails(k)
    PROVE  Claims'
<1> USE DEF TypeOK, Claims
<1>1. CASE TickStart(k)
  <2>1. \A l \in Tick : tick'[l].cur = tick[l].cur
    BY <1>1 DEF TickStart, TicksOK, IdleTick
  <2> QED BY <1>1, <2>1 DEF TickStart, ClaimExclusive, NoLeakedClaim, AutoJob
<1>2. ASSUME NEW t \in Task, SkipHeld(k, t) PROVE Claims'
  <2>1. \A l \in Tick : tick'[l].cur = tick[l].cur
    BY <1>2 DEF SkipHeld, TicksOK
  <2> QED BY <1>2, <2>1 DEF SkipHeld, ClaimExclusive, NoLeakedClaim, AutoJob
<1>3. ASSUME NEW t \in Task, Claim(k, t) PROVE Claims'
  <2>1. tick'[k].cur = t /\ \A l \in Tick \ {k} : tick'[l].cur = tick[l].cur
    BY <1>3 DEF Claim, TicksOK
  <2>2. t \notin running /\ running' = running \cup {t} /\ tick[k].cur = NoTask
    BY <1>3 DEF Claim, Held, TicksOK
  <2>3. ClaimExclusive'
    BY <1>3, <2>1, <2>2 DEF Claim, ClaimExclusive, AutoJob
  <2>4. NoLeakedClaim'
    BY <1>3, <2>1, <2>2, ConstantsAssumption DEF Claim, NoLeakedClaim, AutoJob, RowsOK
  <2> QED BY <2>3, <2>4
<1>4. ASSUME tick[k].cur \in Task, running' = WithoutClaim(tick[k].cur), tick' = NextTask(k),
             UNCHANGED <<job, stranded>>
      PROVE  Claims'
  <2>1. tick'[k].cur = NoTask /\ \A l \in Tick \ {k} : tick'[l].cur = tick[l].cur
    BY <1>4 DEF NextTask, TickGoes, TicksOK
  <2>2. running' = running \ {tick[k].cur}
    BY <1>4 DEF WithoutClaim
  <2>3. ClaimExclusive'
    BY <1>4, <2>1, <2>2, ConstantsAssumption DEF ClaimExclusive, AutoJob, JobsOK
  <2>4. NoLeakedClaim'
    BY <1>4, <2>1, <2>2 DEF NoLeakedClaim, AutoJob
  <2> QED BY <2>3, <2>4
<1>5. ASSUME NEW pc, tick' = TickGoes(k, pc, tick[k].cur), UNCHANGED <<running, job, stranded>>
      PROVE  Claims'
  <2>1. \A l \in Tick : tick'[l].cur = tick[l].cur
    BY <1>5 DEF TickGoes, TicksOK
  <2> QED BY <1>5, <2>1 DEF ClaimExclusive, NoLeakedClaim, AutoJob
<1>6. CASE BatchGuard(k)
  <2>1. tick[k].cur \in Task
    BY <1>6 DEF BatchGuard, TicksOK, TickState
  <2> QED BY <1>4, <1>5, <1>6, <2>1 DEF BatchGuard
<1>7. CASE Refuse(k)
    BY <1>5, <1>7 DEF Refuse
<1>8. CASE Release(k)
  <2>1. tick[k].cur \in Task
    BY <1>8 DEF Release, TicksOK, TickState
  <2> QED BY <1>4, <1>8, <2>1 DEF Release
<1>9. ASSUME NEW j \in Job, Mark(k, j) PROVE Claims'
  <2>1. tick[k].cur \in Task
    BY <1>9 DEF Mark, TicksOK, TickState
  <2>2. tick'[k].cur = NoTask /\ \A l \in Tick \ {k} : tick'[l].cur = tick[l].cur
    BY <1>9 DEF Mark, NextTask, TickGoes, TicksOK
  <2>3. ASSUME NEW t \in Task, tick[k].cur = t
        PROVE  /\ job'[j].by = "auto" /\ job'[j].task = t
               /\ \A i \in Job \ {j} : job'[i] = job[i]
    <3>1. job' = [job EXCEPT ![j] = NewJob(t, "auto", "body")]
      BY <1>9, <2>3 DEF Mark
    <3> QED BY <3>1, NewJobType
  <2>4. job[j].by = "none"
    BY <1>9 DEF Mark, FreeJob
  <2>5. ClaimExclusive'
    BY <1>9, <2>1, <2>2, <2>3, <2>4, ConstantsAssumption DEF Mark, ClaimExclusive, AutoJob, JobsOK
  <2>6. NoLeakedClaim'
    BY <1>9, <2>1, <2>2, <2>3, <2>4 DEF Mark, NoLeakedClaim, AutoJob
  <2> QED BY <2>5, <2>6
<1>10. CASE TickDbFails(k)
  <2>1. tick'[k].cur = NoTask /\ \A l \in Tick \ {k} : tick'[l].cur = tick[l].cur
    BY <1>10, Records DEF TickDbFails, TicksOK
  <2>2. ClaimExclusive'
    BY <1>10, <2>1, ConstantsAssumption DEF TickDbFails, ClaimExclusive, AutoJob, JobsOK
  <2>3. NoLeakedClaim'
    BY <1>10, <2>1 DEF TickDbFails, NoLeakedClaim, AutoJob
  <2> QED BY <2>2, <2>3
<1> QED
    BY <1>1, <1>2, <1>3, <1>6, <1>7, <1>8, <1>9, <1>10 DEF TickStep

(* An execution keeps them: it gives its claim back exactly when it ends. *)
LEMMA ClaimsJob ==
    ASSUME TypeOK, Claims, NEW j \in Job, JobStep(j) \/ JobDbFails(j)
    PROVE  Claims'
<1> USE DEF TypeOK, Claims
<1>1. ASSUME NEW pc, NEW out, job' = JobGoes(j, pc, out), UNCHANGED <<running, tick, stranded>>
      PROVE  Claims'
  <2>1. \A i \in Job : job'[i].by = job[i].by /\ job'[i].task = job[i].task
    BY <1>1 DEF JobGoes, JobsOK
  <2> QED BY <1>1, <2>1 DEF ClaimExclusive, NoLeakedClaim, AutoJob
<1>2. ASSUME job' = [job EXCEPT ![j] = FreeJob], ~AutoJob(j), UNCHANGED <<running, tick>>,
             stranded \subseteq stranded'
      PROVE  Claims'
  <2>1. job'[j].by = "none" /\ \A i \in Job \ {j} : job'[i] = job[i]
    BY <1>2, FreeJobType, Records
  <2>2. ClaimExclusive'
    BY <1>2, <2>1 DEF ClaimExclusive, AutoJob
  <2>3. NoLeakedClaim'
    BY <1>2, <2>1 DEF NoLeakedClaim, AutoJob
  <2> QED BY <2>2, <2>3
<1>3. ASSUME job' = [job EXCEPT ![j] = FreeJob], job[j].pc # "free", AutoJob(j),
             running' = WithoutClaim(job[j].task), UNCHANGED tick, stranded \subseteq stranded'
      PROVE  Claims'
  <2>1. job'[j].by = "none" /\ \A i \in Job \ {j} : job'[i] = job[i]
    BY <1>3, FreeJobType, Records
  <2>2. running' = running \ {job[j].task} /\ job[j].task \in Task
    BY <1>3 DEF WithoutClaim, JobsOK
  <2>3. ClaimExclusive'
    BY <1>3, <2>1, <2>2, ConstantsAssumption DEF ClaimExclusive, AutoJob
  <2>4. NoLeakedClaim'
    BY <1>3, <2>1, <2>2 DEF NoLeakedClaim, AutoJob
  <2> QED BY <2>3, <2>4
<1>4. CASE JobEnds(j)
    BY <1>1, <1>2, <1>4 DEF JobEnds, AutoJob
<1>5. CASE JobSaves(j)
    BY <1>1, <1>2, <1>5 DEF JobSaves, AutoJob
<1>6. CASE JobReleases(j)
    BY <1>3, <1>6 DEF JobReleases, JobsOK
<1>7. CASE ManualMark(j)
    BY <1>1, <1>7 DEF ManualMark
<1>8. CASE JobDbFails(j)
    BY <1>2, <1>3, <1>8 DEF JobDbFails, AutoJob
<1> QED
    BY <1>4, <1>5, <1>6, <1>7, <1>8 DEF JobStep

(* Requests, the clock, the license and a restart keep them too: a restart  *)
(* empties the claim set together with all that it guarded.                 *)
LEMMA ClaimsOthers ==
    ASSUME TypeOK, Claims,
           \/ \E t \in Task : UserStep(t) \/ TimePasses(t)
           \/ LicenseChanges \/ Restart
    PROVE  Claims'
<1> USE DEF TypeOK, Claims
<1>1. ASSUME NEW j \in Job, NEW t \in Task, Asks(j, t) PROVE Claims'
  <2>1. /\ job'[j].by = "manual"
        /\ \A i \in Job \ {j} : job'[i] = job[i]
    BY <1>1, NewJobType DEF Asks
  <2>2. job[j].by = "none"
    BY <1>1 DEF Asks, FreeJob
  <2> QED BY <1>1, <2>1, <2>2 DEF Asks, ClaimExclusive, NoLeakedClaim, AutoJob
<1>2. ASSUME UNCHANGED <<running, tick, job, stranded>> PROVE Claims'
    BY <1>2 DEF ClaimExclusive, NoLeakedClaim, AutoJob
<1>3. CASE Restart
  <2>1. \A k \in Tick : tick'[k].cur = NoTask
    BY <1>3, Records DEF Restart
  <2>2. \A j \in Job : job'[j].by = "none"
    BY <1>3, Records DEF Restart
  <2> QED BY <1>3, <2>1, <2>2 DEF Restart, ClaimExclusive, NoLeakedClaim, AutoJob
<1> QED
    BY <1>1, <1>2, <1>3 DEF UserStep, Execute, Start, Cancel, Reset, Remove, Create, UserSets,
                            TimePasses, LicenseChanges

(* Claims, with the types, are an inductive invariant. *)
LEMMA ClaimsInvariant == Spec => []Claims
<1>1. Init => Claims
    BY Records DEF Init, Claims, ClaimExclusive, NoLeakedClaim, AutoJob
<1>2. TypeOK /\ Claims /\ [Next]_vars => Claims'
  <2> SUFFICES ASSUME TypeOK, Claims, [Next]_vars PROVE Claims'
    OBVIOUS
  <2>1. CASE UNCHANGED vars
    BY <2>1 DEF vars, Claims, ClaimExclusive, NoLeakedClaim, AutoJob
  <2>2. CASE Next
    BY <2>2, ClaimsTick, ClaimsJob, ClaimsOthers DEF Next
  <2> QED BY <2>1, <2>2
<1> QED BY <1>1, <1>2, TypeCorrect, PTL DEF Spec

(* For any number of overlapping ticks and executions: what the runner works *)
(* on is claimed, and by one tick or execution only.                         *)
THEOREM ClaimsAreExclusive == Spec => []ClaimExclusive
BY ClaimsInvariant, PTL DEF Claims

(* For any interleaving, with or without crashes: only a rejected database   *)
(* call leaves a claim behind.                                               *)
THEOREM ClaimsAreReleased == Spec => []NoLeakedClaim
BY ClaimsInvariant, PTL DEF Claims
-----------------------------------------------------------------------------
(* A row shows "running" only while something will still write its outcome. *)

(* The steps of the cron handler: only Mark sets "running", with a worker.  *)
LEMMA WorkersTick ==
    ASSUME TypeOK, RunningHasWorker, NEW k \in Tick, TickStep(k) \/ TickDbFails(k)
    PROVE  RunningHasWorker'
<1> USE DEF TypeOK, RunningHasWorker, Working
<1>1. ASSUME UNCHANGED <<status, job>>, stranded \subseteq stranded' PROVE RunningHasWorker'
    BY <1>1
<1>2. CASE Refuse(k)
  <2>1. \A u \in Task : status'[u] = "running" => status[u] = "running"
    BY <1>2, WrittenRows DEF Refuse, RowsOK, Row, Finished
  <2> QED BY <1>2, <2>1 DEF Refuse
<1>3. ASSUME NEW j \in Job, Mark(k, j) PROVE RunningHasWorker'
  <2>1. PICK t \in Task : tick[k].cur = t
    BY <1>3 DEF Mark, TicksOK, TickState
  <2>2. job' = [job EXCEPT ![j] = NewJob(t, "auto", "body")]
    BY <1>3, <2>1 DEF Mark
  <2>3. job'[j].pc = "body" /\ job'[j].task = t /\ \A i \in Job \ {j} : job'[i] = job[i]
    BY <2>2, NewJobType
  <2>4. \A u \in Task \ {t} : status'[u] = status[u]
    BY <1>3, <2>1, WrittenRows DEF Mark, RowsOK, Row
  <2>5. job[j].pc = "free"
    BY <1>3 DEF Mark, FreeJob
  <2> QED BY <1>3, <2>3, <2>4, <2>5 DEF Mark
<1> QED
    BY <1>1, <1>2, <1>3
    DEF TickStep, TickStart, SkipHeld, Claim, BatchGuard, Release, TickDbFails

(* The steps of an execution: it leaves after it wrote the outcome.         *)
LEMMA WorkersJob ==
    ASSUME TypeOK, RunningHasWorker, NEW j \in Job, JobStep(j) \/ JobDbFails(j)
    PROVE  RunningHasWorker'
<1> USE DEF TypeOK, RunningHasWorker, Working
<1>1. CASE JobEnds(j)
  <2>1. PICK out \in Results(j) :
           job' = IF out = "cancelled" /\ job[j].by = "manual"
                  THEN [job EXCEPT ![j] = FreeJob] ELSE JobGoes(j, "save", out)
    BY <1>1 DEF JobEnds
  <2>2. out = "cancelled" => status[job[j].task] = "cancelled"
    BY DEF Results, AutoResults, ManualResults, SimulateResults
  <2>3. out \in {"none", "ok", "fail", "cancelled"} /\ job[j].pc = "body"
    BY <1>1 DEF JobEnds, Results, AutoResults, ManualResults, SimulateResults
  <2>4. CASE job' = [job EXCEPT ![j] = FreeJob] /\ out = "cancelled"
    <3>1. \A i \in Job \ {j} : job'[i] = job[i]
      BY <2>4, FreeJobType
    <3> QED BY <1>1, <2>2, <2>4, <3>1 DEF JobEnds
  <2>5. CASE job' = JobGoes(j, "save", out)
    <3>1. /\ job'[j].pc = "save" /\ job'[j].task = job[j].task /\ job'[j].out = out
          /\ \A i \in Job \ {j} : job'[i] = job[i]
      BY <2>3, <2>5, JobGoesType
    <3> QED BY <1>1, <2>2, <3>1 DEF JobEnds
  <2> QED BY <2>1, <2>4, <2>5
<1>2. ASSUME NEW t \in Task, job[j].task = t, status'[t] # "running",
             \A u \in Task \ {t} : status'[u] = status[u],
             \A i \in Job \ {j} : job'[i] = job[i],
             UNCHANGED stranded
      PROVE  RunningHasWorker'
    BY <1>2
<1>3. CASE JobSaves(j)
  <2>1. PICK t \in Task : job[j].task = t
    BY <1>3 DEF JobSaves, JobsOK
  <2>2. ResultStatus(job[j].out) \in Row \ {"running"}
    BY DEF ResultStatus, Row, Finished
  <2>3. status'[t] # "running" /\ \A u \in Task \ {t} : status'[u] = status[u]
    <3>1. \A u \in Task :
             status'[u] = IF u = t /\ Exists(t) THEN ResultStatus(job[j].out) ELSE status[u]
      BY <1>3, <2>1, <2>2, WrittenRows DEF JobSaves, RowsOK
    <3> QED BY <2>1, <2>2, <3>1 DEF Exists, Row
  <2>4. \A i \in Job \ {j} : job'[i] = job[i]
    BY <1>3 DEF JobSaves, JobsOK, JobGoes
  <2> QED BY <1>2, <1>3, <2>1, <2>3, <2>4 DEF JobSaves
<1>4. ASSUME job[j].pc \in {"asked", "saved"},
             \A i \in Job \ {j} : job'[i] = job[i],
             \A u \in Task : status'[u] = "running" => status[u] = "running",
             stranded \subseteq stranded'
      PROVE  RunningHasWorker'
    BY <1>4
<1>5. CASE JobReleases(j)
  <2>1. \A u \in Task : status'[u] = "running" => status[u] = "running"
    BY <1>5, WrittenRows DEF JobReleases, RowsOK, Row
  <2>2. \A i \in Job \ {j} : job'[i] = job[i]
    BY <1>5, FreeJobType DEF JobReleases
  <2> QED BY <1>4, <1>5, <2>1, <2>2 DEF JobReleases
<1>6. CASE ManualMark(j)
  <2>1. PICK t \in Task : job[j].task = t
    BY <1>6 DEF ManualMark, JobsOK
  <2>2. /\ job'[j].pc = "body" /\ job'[j].task = t
        /\ \A i \in Job \ {j} : job'[i] = job[i]
    BY <1>6, <2>1, JobGoesType DEF ManualMark
  <2>3. \A u \in Task \ {t} : status'[u] = status[u]
    BY <1>6, <2>1, WrittenRows DEF ManualMark, RowsOK, Row
  <2> QED BY <1>6, <2>1, <2>2, <2>3 DEF ManualMark
<1>7. CASE JobDbFails(j)
  <2>1. \A i \in Job \ {j} : job'[i] = job[i]
    BY <1>7, FreeJobType DEF JobDbFails
  <2>2. CASE job[j].pc = "save"
    BY <1>7, <2>1, <2>2 DEF JobDbFails
  <2>3. CASE job[j].pc \in {"asked", "saved"}
    BY <1>4, <1>7, <2>1, <2>3 DEF JobDbFails
  <2> QED BY <1>7, <2>2, <2>3 DEF JobDbFails
<1> QED
    BY <1>1, <1>3, <1>5, <1>6, <1>7 DEF JobStep

(* Requests, the clock, the license and a restart: a restart fails the rows *)
(* left running, or its failure to do so strands them.                      *)
LEMMA WorkersOthers ==
    ASSUME TypeOK, RunningHasWorker,
           \/ \E t \in Task : UserStep(t) \/ TimePasses(t)
           \/ LicenseChanges \/ Restart
    PROVE  RunningHasWorker'
<1> USE DEF TypeOK, RunningHasWorker, Working
<1>1. ASSUME NEW j \in Job, NEW t \in Task, Asks(j, t) PROVE RunningHasWorker'
  <2>1. \A i \in Job \ {j} : job'[i] = job[i]
    BY <1>1, NewJobType DEF Asks
  <2>2. job[j].pc = "free"
    BY <1>1 DEF Asks, FreeJob
  <2> QED BY <1>1, <2>1, <2>2 DEF Asks
<1>2. ASSUME UNCHANGED <<job, stranded>>,
             \A u \in Task : status'[u] = "running" => status[u] = "running"
      PROVE  RunningHasWorker'
    BY <1>2
<1>3. ASSUME NEW t \in Task, NEW s \in {"cancelled", "pending", "removed"}, UserSets(t, s)
      PROVE  RunningHasWorker'
    BY <1>2, <1>3 DEF UserSets, RowsOK
<1>4. ASSUME NEW t \in Task, Create(t) PROVE RunningHasWorker'
    BY <1>2, <1>4 DEF Create, RowsOK
<1>5. CASE Restart
    BY <1>5 DEF Restart, StuckAtStartup, RowsOK
<1> QED
    BY <1>1, <1>2, <1>3, <1>4, <1>5 DEF UserStep, Execute, Start, Cancel, Reset, Remove,
                                        TimePasses, LicenseChanges

(* A row never stays "running" with nothing left to finish it, for every set *)
(* of tasks and every interleaving: only a rejected database call does that. *)
THEOREM RunningRowsHaveWorkers == Spec => []RunningHasWorker
<1>1. Init => RunningHasWorker
    BY DEF Init, RunningHasWorker
<1>2. TypeOK /\ RunningHasWorker /\ [Next]_vars => RunningHasWorker'
  <2> SUFFICES ASSUME TypeOK, RunningHasWorker, [Next]_vars PROVE RunningHasWorker'
    OBVIOUS
  <2>1. CASE UNCHANGED vars
    BY <2>1 DEF vars, RunningHasWorker, Working
  <2>2. CASE Next
    BY <2>2, WorkersTick, WorkersJob, WorkersOthers DEF Next
  <2> QED BY <2>1, <2>2
<1> QED BY <1>1, <1>2, TypeCorrect, PTL DEF Spec
-----------------------------------------------------------------------------
(* TaskRunner implements TaskClaims.  The argument rests on the inductive        *)
(* invariant Claims: each lemma below says which step of the lock a change of    *)
(* ticks, executions and claim set amounts to.                                   *)

(* Nobody's claim changes when the ticks keep their task, the executions of    *)
(* the runner stay what they are, and the claim set does not change.           *)
LEMMA LockStutters ==
    ASSUME \A k \in Tick : tick'[k].cur = tick[k].cur,
           \A j \in Job : AutoJob(j)' = AutoJob(j) /\ (AutoJob(j) => job'[j].task = job[j].task),
           running' = running, running \subseteq Task
    PROVE  UNCHANGED Lock!claims
<1>1. \A t \in Task : TicksOf(t)' = TicksOf(t) /\ AutoJobsOf(t)' = AutoJobsOf(t)
    BY DEF TicksOf, AutoJobsOf
<1>2. \A t : t \in Task => TicksOf(t)' = TicksOf(t) /\ AutoJobsOf(t)' = AutoJobsOf(t)
    BY <1>1
<1>3. {t \in running : TicksOf(t) = {} /\ AutoJobsOf(t) = {}}'
        = {t \in running : TicksOf(t) = {} /\ AutoJobsOf(t) = {}}
    BY <1>2
<1> QED BY <1>1, <1>3 DEF Lock!claims

(* A tick that had no task has one now, which was nobody's.                    *)
LEMMA LockTakes ==
    ASSUME TypeOK, ClaimExclusive, NEW k \in Tick, NEW t \in Task,
           tick[k].cur = NoTask, t \notin running,
           tick'[k].cur = t, \A l \in Tick \ {k} : tick'[l].cur = tick[l].cur,
           job' = job, running' = running \cup {t}
    PROVE  Lock!Take(t, k)
<1>1. TicksOf(t) = {} /\ AutoJobsOf(t) = {}
    BY ConstantsAssumption DEF ClaimExclusive, TicksOf, AutoJobsOf, TypeOK, TicksOK, TickState
<1>2. \A u \in Task : k \notin TicksOf(u)
    BY ConstantsAssumption DEF TicksOf
<1>3. \A u \in Task : TicksOf(u)' = IF u = t THEN {k} ELSE TicksOf(u)
  <2> TAKE u \in Task
  <2>1. CASE u = t
      BY <1>1, <2>1 DEF TicksOf
  <2>2. CASE u # t
      BY <1>2, <2>2 DEF TicksOf
  <2> QED BY <2>1, <2>2
<1>4. \A u \in Task : AutoJobsOf(u)' = AutoJobsOf(u)
    BY DEF AutoJobsOf, AutoJob
<1>5. running \subseteq Task
    BY DEF TypeOK, RowsOK
<1> QED BY <1>1, <1>2, <1>3, <1>4, <1>5 DEF Lock!Take, Lock!Free

(* A claim that somebody held is gone, and its holder with it.                 *)
LEMMA LockGivesBack ==
    ASSUME NEW t \in Task, TicksOf(t) # {} \/ AutoJobsOf(t) # {}, running \subseteq Task,
           \A u \in Task : /\ TicksOf(u)' = IF u = t THEN {} ELSE TicksOf(u)
                           /\ AutoJobsOf(u)' = IF u = t THEN {} ELSE AutoJobsOf(u),
           running' = running \ {t}
    PROVE  Lock!GiveBack(t)
BY DEF Lock!GiveBack, Lock!Free

(* What a tick holds, when its claims are exclusive: it is the only one, and    *)
(* no execution has its task.                                                *)
LEMMA TickHolds ==
    ASSUME TypeOK, ClaimExclusive, NEW k \in Tick, tick[k].cur \in Task
    PROVE  /\ TicksOf(tick[k].cur) = {k} /\ AutoJobsOf(tick[k].cur) = {}
           /\ tick[k].cur \in running
           /\ \A u \in Task : u # tick[k].cur => k \notin TicksOf(u)
BY ConstantsAssumption DEF ClaimExclusive, TicksOf, AutoJobsOf

(* The same of an execution of the runner.                                     *)
LEMMA JobHolds ==
    ASSUME TypeOK, ClaimExclusive, NEW j \in Job, AutoJob(j)
    PROVE  /\ job[j].task \in Task /\ job[j].task \in running
           /\ TicksOf(job[j].task) = {} /\ AutoJobsOf(job[j].task) = {j}
           /\ \A u \in Task : u # job[j].task => j \notin AutoJobsOf(u)
<1>1. job[j].task \in Task
    BY DEF AutoJob, TypeOK, JobsOK
<1> QED BY <1>1 DEF ClaimExclusive, TicksOf, AutoJobsOf

(* When a tick lets go of its task, so does the mapping.                       *)
LEMMA TickLetsGo ==
    ASSUME TypeOK, ClaimExclusive, NEW k \in Tick, tick[k].cur \in Task,
           tick'[k].cur = NoTask, \A l \in Tick \ {k} : tick'[l].cur = tick[l].cur
    PROVE  \A u \in Task : TicksOf(u)' = IF u = tick[k].cur THEN {} ELSE TicksOf(u)
<1>1. TicksOf(tick[k].cur) = {k} /\ \A u \in Task : u # tick[k].cur => k \notin TicksOf(u)
    BY TickHolds
<1> TAKE u \in Task
<1>2. CASE u = tick[k].cur
    BY <1>1, <1>2, ConstantsAssumption DEF TicksOf
<1>3. CASE u # tick[k].cur
    BY <1>1, <1>3, ConstantsAssumption DEF TicksOf
<1> QED BY <1>2, <1>3

(* The steps of the cron handler.                                            *)
LEMMA LockTick ==
    ASSUME TypeOK, Claims, NEW k \in Tick, TickStep(k) \/ TickDbFails(k)
    PROVE  [Lock!Next]_(Lock!claims)
<1> USE DEF TypeOK, Claims
<1>0. running \subseteq Task
    BY DEF RowsOK
<1>1. CASE TickStart(k)
  <2>1. \A l \in Tick : tick'[l].cur = tick[l].cur
    BY <1>1 DEF TickStart, TicksOK, IdleTick
  <2> QED BY <1>0, <1>1, <2>1, LockStutters DEF TickStart, AutoJob
<1>2. ASSUME NEW t \in Task, SkipHeld(k, t) PROVE UNCHANGED Lock!claims
  <2>1. \A l \in Tick : tick'[l].cur = tick[l].cur
    BY <1>2 DEF SkipHeld, TicksOK
  <2> QED BY <1>0, <1>2, <2>1, LockStutters DEF SkipHeld, AutoJob
<1>3. ASSUME NEW t \in Task, Claim(k, t) PROVE Lock!Take(t, k)
  <2>1. tick'[k].cur = t /\ \A l \in Tick \ {k} : tick'[l].cur = tick[l].cur
    BY <1>3 DEF Claim, TicksOK
  <2>2. t \notin running /\ running' = running \cup {t} /\ tick[k].cur = NoTask
    BY <1>3 DEF Claim, Held, TicksOK
  <2>3. job' = job
    BY <1>3 DEF Claim
  <2> QED BY <2>1, <2>2, <2>3, LockTakes
<1>4. ASSUME tick[k].cur \in Task, running' = WithoutClaim(tick[k].cur), tick' = NextTask(k), job' = job
      PROVE  Lock!GiveBack(tick[k].cur)
  <2>1. tick'[k].cur = NoTask /\ \A l \in Tick \ {k} : tick'[l].cur = tick[l].cur
    BY <1>4 DEF NextTask, TickGoes, TicksOK
  <2>2. \A u \in Task : TicksOf(u)' = IF u = tick[k].cur THEN {} ELSE TicksOf(u)
    BY <1>4, <2>1, TickLetsGo
  <2>3. TicksOf(tick[k].cur) # {} /\ AutoJobsOf(tick[k].cur) = {}
    BY <1>4, TickHolds
  <2>4. \A u \in Task : AutoJobsOf(u)' = IF u = tick[k].cur THEN {} ELSE AutoJobsOf(u)
    BY <1>4, <2>3 DEF AutoJobsOf, AutoJob
  <2>5. running \subseteq Task /\ running' = running \ {tick[k].cur}
    BY <1>4 DEF RowsOK, WithoutClaim
  <2> QED BY <1>4, <2>2, <2>3, <2>4, <2>5, LockGivesBack
<1>5. ASSUME NEW pc, tick' = TickGoes(k, pc, tick[k].cur), UNCHANGED <<running, job>>
      PROVE  UNCHANGED Lock!claims
  <2>1. \A l \in Tick : tick'[l].cur = tick[l].cur
    BY <1>5 DEF TickGoes, TicksOK
  <2> QED BY <1>0, <1>5, <2>1, LockStutters DEF AutoJob
<1>6. CASE BatchGuard(k)
  <2>1. tick[k].cur \in Task
    BY <1>6 DEF BatchGuard, TicksOK, TickState
  <2> QED BY <1>4, <1>5, <1>6, <2>1 DEF BatchGuard, Lock!Next
<1>7. CASE Refuse(k)
    BY <1>5, <1>7 DEF Refuse
<1>8. CASE Release(k)
  <2>1. tick[k].cur \in Task
    BY <1>8 DEF Release, TicksOK, TickState
  <2> QED BY <1>4, <1>8, <2>1 DEF Release, Lock!Next
<1>9. ASSUME NEW j \in Job, Mark(k, j) PROVE Lock!HandOver(tick[k].cur, k, j) /\ tick[k].cur \in Task
  <2>1. tick[k].cur \in Task
    BY <1>9 DEF Mark, TicksOK, TickState
  <2>2. tick'[k].cur = NoTask /\ \A l \in Tick \ {k} : tick'[l].cur = tick[l].cur
    BY <1>9 DEF Mark, NextTask, TickGoes, TicksOK
  <2>3. job' = [job EXCEPT ![j] = NewJob(tick[k].cur, "auto", "body")] /\ running' = running
    BY <1>9 DEF Mark
  <2>4. /\ job'[j].by = "auto" /\ job'[j].task = tick[k].cur
        /\ \A i \in Job \ {j} : job'[i] = job[i]
    <3>1. ASSUME NEW t \in Task, tick[k].cur = t
          PROVE  /\ job'[j].by = "auto" /\ job'[j].task = t
                 /\ \A i \in Job \ {j} : job'[i] = job[i]
      <4>1. job' = [job EXCEPT ![j] = NewJob(t, "auto", "body")]
        BY <2>3, <3>1
      <4> QED BY <4>1, NewJobType
    <3> QED BY <2>1, <3>1
  <2>5. job[j].by = "none"
    BY <1>9 DEF Mark, FreeJob
  <2>6. \A u \in Task : j \notin AutoJobsOf(u)
    BY <2>5 DEF AutoJobsOf, AutoJob
  <2>7. TicksOf(tick[k].cur) = {k} /\ AutoJobsOf(tick[k].cur) = {}
    BY <2>1, TickHolds
  <2>8. \A u \in Task : TicksOf(u)' = IF u = tick[k].cur THEN {} ELSE TicksOf(u)
    BY <2>1, <2>2, TickLetsGo
  <2>9. \A u \in Task : AutoJobsOf(u)' = IF u = tick[k].cur THEN {j} ELSE AutoJobsOf(u)
    <3> TAKE u \in Task
    <3>1. CASE u = tick[k].cur
      BY <2>4, <2>7, <3>1 DEF AutoJobsOf, AutoJob
    <3>2. CASE u # tick[k].cur
      BY <2>4, <2>6, <3>2 DEF AutoJobsOf, AutoJob
    <3> QED BY <3>1, <3>2
  <2>10. running \subseteq Task
    BY DEF RowsOK
  <2> QED BY <2>1, <2>3, <2>6, <2>7, <2>8, <2>9, <2>10 DEF Lock!HandOver
<1>10. CASE TickDbFails(k)
  <2>1. tick'[k].cur = NoTask /\ \A l \in Tick \ {k} : tick'[l].cur = tick[l].cur
    BY <1>10, Records DEF TickDbFails, TicksOK
  <2>2. tick[k].cur \in Task
    BY <1>10 DEF TickDbFails, TicksOK, TickState
  <2>3. TicksOf(tick[k].cur) = {k} /\ AutoJobsOf(tick[k].cur) = {} /\ tick[k].cur \in running
    BY <2>2, TickHolds
  <2>4. \A u \in Task : TicksOf(u)' = IF u = tick[k].cur THEN {} ELSE TicksOf(u)
    BY <2>1, <2>2, TickLetsGo
  <2>5. \A u \in Task : AutoJobsOf(u)' = AutoJobsOf(u)
    BY <1>10 DEF TickDbFails, AutoJobsOf, AutoJob
  <2>6. running' = running /\ running \subseteq Task
    BY <1>10 DEF TickDbFails, RowsOK
  <2>7. Lock!Lose(tick[k].cur, k)
    BY <2>2, <2>3, <2>4, <2>5, <2>6 DEF Lock!Lose
  <2> QED BY <2>2, <2>7 DEF Lock!Next
<1> QED
    BY <1>1, <1>2, <1>3, <1>6, <1>7, <1>8, <1>9, <1>10 DEF TickStep, Lock!Next

(* The steps of an execution: it gives its claim back exactly when it ends.    *)
LEMMA LockJob ==
    ASSUME TypeOK, Claims, NEW j \in Job, JobStep(j) \/ JobDbFails(j)
    PROVE  [Lock!Next]_(Lock!claims)
<1> USE DEF TypeOK, Claims
<1>0. running \subseteq Task
    BY DEF RowsOK
<1>1. ASSUME NEW pc, NEW out, job' = JobGoes(j, pc, out), UNCHANGED <<running, tick>>
      PROVE  UNCHANGED Lock!claims
  <2>1. \A i \in Job : job'[i].by = job[i].by /\ job'[i].task = job[i].task
    BY <1>1 DEF JobGoes, JobsOK
  <2> QED BY <1>0, <1>1, <2>1, LockStutters DEF AutoJob
<1>2. ASSUME job' = [job EXCEPT ![j] = FreeJob], ~AutoJob(j), UNCHANGED <<running, tick>>
      PROVE  UNCHANGED Lock!claims
  <2>1. job'[j].by = "none" /\ \A i \in Job \ {j} : job'[i] = job[i]
    BY <1>2, FreeJobType, Records
  <2> QED BY <1>0, <1>2, <2>1, LockStutters DEF AutoJob
<1>3. ASSUME job' = [job EXCEPT ![j] = FreeJob], AutoJob(j), running' = WithoutClaim(job[j].task), tick' = tick
      PROVE  job[j].task \in Task /\ Lock!GiveBack(job[j].task)
  <2>1. job'[j].by = "none" /\ \A i \in Job \ {j} : job'[i] = job[i]
    BY <1>3, FreeJobType, Records
  <2>2. /\ job[j].task \in Task
        /\ TicksOf(job[j].task) = {} /\ AutoJobsOf(job[j].task) = {j}
        /\ \A u \in Task : u # job[j].task => j \notin AutoJobsOf(u)
    BY <1>3, JobHolds
  <2>3. \A u \in Task : TicksOf(u)' = IF u = job[j].task THEN {} ELSE TicksOf(u)
    BY <1>3, <2>2 DEF TicksOf
  <2>4. \A u \in Task : AutoJobsOf(u)' = IF u = job[j].task THEN {} ELSE AutoJobsOf(u)
    <3> TAKE u \in Task
    <3>1. CASE u = job[j].task
      BY <2>1, <2>2, <3>1 DEF AutoJobsOf, AutoJob
    <3>2. CASE u # job[j].task
      BY <2>1, <2>2, <3>2 DEF AutoJobsOf, AutoJob
    <3> QED BY <3>1, <3>2
  <2>5. running' = running \ {job[j].task}
    BY <1>3 DEF WithoutClaim
  <2> QED BY <1>0, <2>2, <2>3, <2>4, <2>5, LockGivesBack
<1>4. CASE JobEnds(j)
    BY <1>1, <1>2, <1>4 DEF JobEnds, AutoJob
<1>5. CASE JobSaves(j)
    BY <1>1, <1>2, <1>5 DEF JobSaves, AutoJob
<1>6. CASE JobReleases(j)
  <2>1. AutoJob(j)
    BY <1>6 DEF JobReleases, JobsOK
  <2> QED BY <1>3, <1>6, <2>1 DEF JobReleases, Lock!Next
<1>7. CASE ManualMark(j)
    BY <1>1, <1>7 DEF ManualMark
<1>8. CASE JobDbFails(j)
    BY <1>2, <1>3, <1>8 DEF JobDbFails, AutoJob, Lock!Next
<1> QED
    BY <1>4, <1>5, <1>6, <1>7, <1>8 DEF JobStep

(* Requests, the clock and the license leave the claims alone; a restart        *)
(* empties the claim set together with all that it guarded.                   *)
LEMMA LockOthers ==
    ASSUME TypeOK, Claims,
           \/ \E t \in Task : UserStep(t) \/ TimePasses(t)
           \/ LicenseChanges \/ Restart
    PROVE  [Lock!Next]_(Lock!claims)
<1> USE DEF TypeOK, Claims
<1>0. running \subseteq Task
    BY DEF RowsOK
<1>1. ASSUME NEW j \in Job, NEW t \in Task, Asks(j, t) PROVE UNCHANGED Lock!claims
  <2>1. /\ job'[j].by = "manual"
        /\ \A i \in Job \ {j} : job'[i] = job[i]
    BY <1>1, NewJobType DEF Asks
  <2>2. job[j].by = "none"
    BY <1>1 DEF Asks, FreeJob
  <2> QED BY <1>0, <1>1, <2>1, <2>2, LockStutters DEF Asks, AutoJob
<1>2. ASSUME UNCHANGED <<running, tick, job>> PROVE UNCHANGED Lock!claims
    BY <1>0, <1>2, LockStutters DEF AutoJob
<1>3. CASE Restart
  <2>1. \A t \in Task : TicksOf(t)' = {}
    BY <1>3, Records, ConstantsAssumption DEF Restart, TicksOf
  <2>2. \A t \in Task : AutoJobsOf(t)' = {}
    BY <1>3, Records DEF Restart, AutoJobsOf, AutoJob
  <2>3. running' = {}
    BY <1>3 DEF Restart
  <2>4. Lock!Restart
    BY <2>1, <2>2, <2>3 DEF Lock!Restart, Lock!Nobody
  <2> QED BY <2>4 DEF Lock!Next
<1> QED
    BY <1>1, <1>2, <1>3 DEF UserStep, Execute, Start, Cancel, Reset, Remove, Create, UserSets,
                            TimePasses, LicenseChanges

(* The runner begins with no claims.                                         *)
LEMMA LockInit == Init => Lock!Init
<1> SUFFICES ASSUME Init PROVE Lock!Init
    OBVIOUS
<1>1. \A t \in Task : TicksOf(t) = {}
    BY Records, ConstantsAssumption DEF Init, TicksOf
<1>2. \A t \in Task : AutoJobsOf(t) = {}
    BY Records DEF Init, AutoJobsOf, AutoJob
<1>3. running = {}
    BY DEF Init
<1> QED BY <1>1, <1>2, <1>3 DEF Lock!Init, Lock!Nobody

(* However ticks overlap, tasks are executed by hand, cancelled, reset or       *)
(* removed, and database calls fail: the claim set is a lock that one tick      *)
(* takes and hands to one execution.                                         *)
THEOREM ClaimsImplementLocks == Spec => ClaimsAreLocks
<1>1. TypeOK /\ Claims /\ [Next]_vars => [Lock!Next]_(Lock!claims)
  <2> SUFFICES ASSUME TypeOK, Claims, [Next]_vars PROVE [Lock!Next]_(Lock!claims)
    OBVIOUS
  <2>1. CASE UNCHANGED vars
    <3>1. running \subseteq Task
      BY DEF TypeOK, RowsOK
    <3> QED BY <2>1, <3>1, LockStutters DEF vars, AutoJob
  <2>2. CASE Next
    BY <2>2, LockTick, LockJob, LockOthers DEF Next
  <2> QED BY <2>1, <2>2
<1>2. Spec => []Claims
    BY ClaimsInvariant
<1> QED BY <1>1, <1>2, LockInit, TypeCorrect, PTL DEF Spec, ClaimsAreLocks, Lock!Spec
-----------------------------------------------------------------------------
(* The groups of a batch run in turn, whatever overlaps: what a tick found over   *)
(* when it looked stays in ended, even if it is set back before the tick goes on. *)
Passed(t) == Batched(t) => Earlier(t) \subseteq ended

RowsInTurn ==
    /\ InOrder(status)
    /\ \A t \in Task : status[t] \in Finished \cup {"removed"} => t \in ended

TickInTurn(T) ==
    /\ \A t \in T.todo : status[t] # "unborn"
    /\ T.cur # NoTask => status[T.cur] # "unborn"
    /\ T.pc = "mark" => Passed(T.cur)

(* What BatchInTurn needs of the rows and the ticks to be inductive: a batch is    *)
(* created in the order of its groups, ticks know only tasks that were created,    *)
(* and a tick about to start a task has seen the groups before it end.            *)
InTurn ==
    /\ RowsInTurn
    /\ \A k \in Tick : TickInTurn(tick[k])
    /\ \A j \in Job : AutoJob(j) => Passed(job[j].task)

(* What a step may do to the rows: none is forgotten that was created or ended.    *)
Advances ==
    /\ RowsInTurn'
    /\ ended \subseteq ended'
    /\ \A t \in Task : status[t] # "unborn" => status'[t] # "unborn"

(* No tick passes the guard of a batch while a task of an earlier group waits,     *)
(* runs, or is still to be created.                                             *)
LEMMA GuardWaits ==
    ASSUME TypeOK, RowsInTurn, NEW t \in Task, status[t] # "unborn", ~EarlierGroupActive(t)
    PROVE  Passed(t)
<1> SUFFICES ASSUME Batched(t), NEW u \in Earlier(t) PROVE u \in ended
    BY DEF Passed
<1>1. u \in Task /\ status[u] # "unborn" /\ ~(Exists(u) /\ status[u] \notin Finished)
    BY DEF Earlier, RowsInTurn, InOrder, EarlierGroupActive
<1>2. status[u] \in Finished \cup {"removed"}
    BY <1>1 DEF TypeOK, RowsOK, Status, Exists
<1> QED BY <1>1, <1>2 DEF RowsInTurn

(* A step that creates no row, and records the ends it brings about.              *)
LEMMA RowsGoOn ==
    ASSUME RowsInTurn, ended \subseteq ended',
           \A t \in Task : status'[t] = "unborn" <=> status[t] = "unborn",
           \A t \in Task : \/ status'[t] = status[t]
                           \/ status'[t] \notin Finished \cup {"removed"}
                           \/ t \in ended'
    PROVE  Advances
<1>1. InOrder(status')
    BY DEF RowsInTurn, InOrder, Earlier
<1>2. \A t \in Task : status'[t] \in Finished \cup {"removed"} => t \in ended'
    BY DEF RowsInTurn
<1> QED BY <1>1, <1>2 DEF Advances, RowsInTurn, InOrder, Batched, Earlier

(* The statement writes a status of a row, with or without an end.                *)
LEMMA RowWritten ==
    ASSUME TypeOK, RowsInTurn, NEW t, NEW s \in Row, status' = Written(t, s),
           \/ ended' = Ended(status')
           \/ s \notin Finished /\ ended' = ended
    PROVE  Advances
<1>1. \A u \in Task : status'[u] = IF u = t /\ Exists(t) THEN s ELSE status[u]
    BY WrittenRows DEF TypeOK, RowsOK
<1>2. s \notin {"unborn", "removed"}
    BY DEF Row, Finished
<1>3. \A u \in Task : status'[u] = "unborn" <=> status[u] = "unborn"
    BY <1>1, <1>2 DEF Exists, Row, Finished
<1>4. ended \subseteq ended'
    BY DEF Ended
<1>5. \A u \in Task : status'[u] = status[u] \/ status'[u] \notin Finished \cup {"removed"} \/ u \in ended'
    BY <1>1, <1>2 DEF Ended
<1> QED BY <1>3, <1>4, <1>5, RowsGoOn

LEMMA RowsStay ==
    ASSUME RowsInTurn, UNCHANGED <<status, ended>>
    PROVE  Advances
BY DEF Advances, RowsInTurn, InOrder, Batched, Earlier

LEMMA RowsAdvance ==
    ASSUME TypeOK, RowsInTurn, [Next]_vars
    PROVE  Advances
<1>1. CASE UNCHANGED vars
    BY <1>1, RowsStay DEF vars
<1>2. ASSUME NEW k \in Tick, TickStep(k) \/ TickDbFails(k) PROVE Advances
  <2>1. CASE UNCHANGED <<status, ended>>
      BY <2>1, RowsStay
  <2>2. CASE Refuse(k)
      BY <2>2, RowWritten DEF Refuse, Row, Finished
  <2>3. ASSUME NEW j \in Job, Mark(k, j) PROVE Advances
      BY <2>3, RowWritten DEF Mark, Row, Finished
  <2> QED BY <1>2, <2>1, <2>2, <2>3 DEF TickStep, TickStart, SkipHeld, Claim, BatchGuard, Release, TickDbFails
<1>3. ASSUME NEW j \in Job, JobStep(j) \/ JobDbFails(j) PROVE Advances
  <2>1. CASE UNCHANGED <<status, ended>>
      BY <2>1, RowsStay
  <2>2. CASE JobSaves(j)
    <3>1. ResultStatus(job[j].out) \in Row
        BY DEF ResultStatus, Row, Finished
    <3> QED BY <2>2, <3>1, RowWritten DEF JobSaves
  <2>3. CASE JobReleases(j) /\ Rearms(job[j].task)
      BY <2>3, RowWritten DEF JobReleases, Row, Finished
  <2>4. CASE ManualMark(j)
      BY <2>4, RowWritten DEF ManualMark, Row, Finished
  <2> QED BY <1>3, <2>1, <2>2, <2>3, <2>4 DEF JobStep, JobEnds, JobReleases, JobDbFails
<1>4. ASSUME NEW t \in Task, UserStep(t) \/ TimePasses(t) PROVE Advances
  <2>1. CASE UNCHANGED <<status, ended>>
      BY <2>1, RowsStay
  <2>2. ASSUME NEW s \in {"cancelled", "pending", "removed"}, UserSets(t, s) PROVE Advances
    <3>1. \A u \in Task : status'[u] = IF u = t THEN s ELSE status[u]
        BY <2>2 DEF UserSets, TypeOK, RowsOK
    <3>2. status[t] # "unborn" /\ ended' = Ended(status')
        BY <2>2 DEF UserSets, Exists, Row, Finished
    <3>3. \A u \in Task : status'[u] = "unborn" <=> status[u] = "unborn"
        BY <3>1, <3>2
    <3> QED BY <3>2, <3>3, RowsGoOn DEF Ended
  <2>3. CASE Create(t)
    <3>1. \A u \in Task : status'[u] = IF u = t THEN "pending" ELSE status[u]
        BY <2>3 DEF Create, TypeOK, RowsOK
    <3>2. InOrder(status') /\ ended' = ended
        BY <2>3 DEF Create
    <3>3. \A u \in Task : status'[u] \in Finished \cup {"removed"} => u \in ended'
        BY <3>1, <3>2 DEF RowsInTurn, Finished
    <3> QED BY <3>1, <3>2, <3>3 DEF Advances, RowsInTurn, InOrder, Batched, Earlier
  <2> QED BY <1>4, <2>1, <2>2, <2>3
          DEF UserStep, Execute, Start, Asks, Cancel, Reset, Remove, TimePasses
<1>5. CASE Restart
  <2>1. \A u \in Task : status'[u] = "unborn" <=> status[u] = "unborn"
      BY <1>5 DEF Restart, StuckAtStartup
  <2> QED BY <1>5, <2>1, RowsGoOn DEF Restart, Ended
<1>6. CASE LicenseChanges
    BY <1>6, RowsStay DEF LicenseChanges
<1> QED BY <1>1, <1>2, <1>3, <1>4, <1>5, <1>6 DEF Next

(* What the rows do disturbs neither the ticks nor the executions.               *)
LEMMA PassedStays ==
    ASSUME Advances
    PROVE  /\ \A t : Passed(t) => Passed(t)'
           /\ \A T \in TickState : TickInTurn(T) => TickInTurn(T)'
<1>1. \A t : Passed(t) => Passed(t)'
    BY DEF Advances, Passed, Batched, Earlier
<1>2. ASSUME NEW T \in TickState, TickInTurn(T) PROVE TickInTurn(T)'
  <2>1. T.todo \subseteq Task /\ T.cur \in Task \cup {NoTask}
      BY DEF TickState
  <2> QED BY <1>1, <1>2, <2>1 DEF Advances, TickInTurn
<1> QED BY <1>1, <1>2

LEMMA TicksStayInTurn ==
    ASSUME TypeOK, InTurn, Advances, NEW k \in Tick, TickStep(k) \/ TickDbFails(k)
    PROVE  \A l \in Tick : TickInTurn(tick[l])'
<1> USE DEF TypeOK
<1>1. tick[k] \in TickState /\ (tick[k].cur = NoTask <=> tick[k].pc = "loop") /\ TickInTurn(tick[k])
    BY DEF TicksOK, InTurn
<1>2. tick[k].todo \subseteq Task /\ tick[k].cur \in Task \cup {NoTask} /\ NoTask \notin Task
    BY <1>1, ConstantsAssumption DEF TickState
<1>3. ASSUME NEW T, tick' = [tick EXCEPT ![k] = T], TickInTurn(T)' PROVE \A l \in Tick : TickInTurn(tick[l])'
  <2>1. \A l \in Tick : TickInTurn(tick[l])' \/ (l = k /\ tick'[k] = T)
      BY <1>3, PassedStays DEF TicksOK, InTurn
  <2> QED BY <1>3, <2>1
<1>4. ASSUME NEW pc \in {"loop", "refuse", "refused", "mark"}, NEW cur \in {tick[k].cur, NoTask},
             pc = "mark" => Passed(cur), tick' = TickGoes(k, pc, cur)
      PROVE  \A l \in Tick : TickInTurn(tick[l])'
  <2> DEFINE T == [pc |-> pc, cur |-> cur, todo |-> tick[k].todo, late |-> tick[k].late]
  <2>1. T \in TickState /\ TickInTurn(T)
      BY <1>1, <1>2, <1>4 DEF TickState, TickInTurn
  <2>2. tick' = [tick EXCEPT ![k] = T]
      BY <1>4 DEF TickGoes
  <2> HIDE DEF T
  <2> QED BY <1>3, <2>1, <2>2, PassedStays
<1>5. CASE TickStart(k)
  <2> DEFINE due == {t \in Task : status[t] = "pending" /\ scheduledAt[t] # "future"}
             T == [pc |-> "loop", cur |-> NoTask, todo |-> due, late |-> {t \in due : scheduledAt[t] = "stale"}]
  <2>1. T \in TickState /\ TickInTurn(T)
      BY DEF TickState, TickInTurn
  <2>2. tick' = [tick EXCEPT ![k] = T]
      BY <1>5 DEF TickStart
  <2> HIDE DEF T, due
  <2> QED BY <1>3, <2>1, <2>2, PassedStays
<1>6. ASSUME NEW t \in Task, SkipHeld(k, t) PROVE \A l \in Tick : TickInTurn(tick[l])'
  <2> DEFINE T == [pc |-> "loop", cur |-> NoTask, todo |-> tick[k].todo \ {t}, late |-> tick[k].late \ {t}]
  <2>1. T \in TickState /\ TickInTurn(T)
      BY <1>1 DEF TickState, TickInTurn
  <2>2. tick' = [tick EXCEPT ![k] = T]
      BY <1>6 DEF SkipHeld
  <2> HIDE DEF T
  <2> QED BY <1>3, <2>1, <2>2, PassedStays
<1>7. ASSUME NEW t \in Task, Claim(k, t) PROVE \A l \in Tick : TickInTurn(tick[l])'
  <2> DEFINE pc == IF t \in tick[k].late THEN "refuse" ELSE IF Batched(t) THEN "guard" ELSE LicenseGate
             T == [pc |-> pc, cur |-> t, todo |-> tick[k].todo \ {t}, late |-> tick[k].late \ {t}]
  <2>1. tick' = [tick EXCEPT ![k] = T]
      BY <1>7 DEF Claim
  <2>2. (pc = "mark" => ~Batched(t)) /\ pc \in {"refuse", "guard", "mark"}
      BY DEF LicenseGate
  <2> HIDE DEF pc
  <2>3. T \in TickState /\ TickInTurn(T)
      BY <1>1, <1>7, <2>2 DEF Claim, TickState, TickInTurn, Passed
  <2> HIDE DEF T
  <2> QED BY <1>3, <2>1, <2>3, PassedStays
<1>8. CASE BatchGuard(k)
  <2>1. LicenseGate \in {"refuse", "mark"}
      BY DEF LicenseGate
  <2>2. CASE EarlierGroupActive(tick[k].cur)
      BY <1>4, <1>8, <2>2 DEF BatchGuard, NextTask
  <2>3. CASE ~EarlierGroupActive(tick[k].cur)
    <3>1. tick[k].cur \in Task /\ status[tick[k].cur] # "unborn"
        BY <1>1, <1>2, <1>8 DEF BatchGuard, TickInTurn
    <3>2. Passed(tick[k].cur)
        BY <2>3, <3>1, GuardWaits DEF InTurn
    <3> QED BY <1>4, <1>8, <2>1, <2>3, <3>2 DEF BatchGuard
  <2> QED BY <2>2, <2>3
<1>9. CASE Refuse(k)
    BY <1>4, <1>9 DEF Refuse
<1>10. CASE Release(k) \/ \E j \in Job : Mark(k, j)
    BY <1>4, <1>10 DEF Release, Mark, NextTask
<1>11. CASE TickDbFails(k)
  <2>1. IdleTick \in TickState /\ TickInTurn(IdleTick)
      BY DEF IdleTick, TickState, TickInTurn
  <2> QED BY <1>3, <1>11, <2>1, PassedStays DEF TickDbFails
<1> QED
    BY <1>5, <1>6, <1>7, <1>8, <1>9, <1>10, <1>11 DEF TickStep

(* Whoever takes the step, the ticks stay in turn.                              *)
LEMMA TicksInTurn ==
    ASSUME TypeOK, InTurn, Advances, [Next]_vars
    PROVE  \A k \in Tick : TickInTurn(tick[k])'
<1>1. CASE tick' = tick
    BY <1>1, PassedStays DEF InTurn, TypeOK, TicksOK
<1>2. CASE Restart
  <2>1. IdleTick \in TickState /\ TickInTurn(IdleTick)
      BY DEF IdleTick, TickState, TickInTurn
  <2> QED BY <1>2, <2>1, PassedStays DEF Restart
<1>3. CASE \E k \in Tick : TickStep(k) \/ TickDbFails(k)
    BY <1>3, TicksStayInTurn
<1>4. ASSUME NEW j \in Job, JobStep(j) \/ JobDbFails(j) PROVE tick' = tick
    BY <1>4 DEF JobStep, JobEnds, JobSaves, JobReleases, ManualMark, JobDbFails
<1>5. ASSUME NEW t \in Task, UserStep(t) \/ TimePasses(t) PROVE tick' = tick
    BY <1>5 DEF UserStep, Execute, Start, Asks, Cancel, Reset, Remove, UserSets, Create, TimePasses
<1> QED BY <1>1, <1>2, <1>3, <1>4, <1>5 DEF Next, LicenseChanges, vars

(* The executions of the runner are those it has, or one a tick starts.           *)
LEMMA JobsInTurn ==
    ASSUME TypeOK, InTurn, Advances, [Next]_vars
    PROVE  \A j \in Job : AutoJob(j)' => Passed(job[j].task)'
<1>1. CASE \A j \in Job : AutoJob(j)' => AutoJob(j) /\ job'[j].task = job[j].task
    BY <1>1, PassedStays DEF InTurn
<1>2. ASSUME NEW k \in Tick, NEW j \in Job, Mark(k, j) PROVE \A i \in Job : AutoJob(i)' => Passed(job[i].task)'
  <2>1. tick[k].cur \in Task /\ Passed(tick[k].cur)
      BY <1>2 DEF Mark, InTurn, TickInTurn, TypeOK, TicksOK, TickState
  <2>2. job'[j].task = tick[k].cur /\ \A i \in Job \ {j} : job'[i] = job[i]
    <3> DEFINE t == tick[k].cur
    <3>1. job' = [job EXCEPT ![j] = NewJob(t, "auto", "body")] /\ JobsOK /\ t \in Task
        BY <1>2, <2>1 DEF Mark, TypeOK
    <3> HIDE DEF t
    <3>2. job'[j].task = t /\ \A i \in Job \ {j} : job'[i] = job[i]
        BY <3>1, NewJobType
    <3> QED BY <3>2 DEF t
  <2> QED BY <2>1, <2>2, PassedStays DEF InTurn, AutoJob
<1>3. ASSUME NEW k \in Tick, TickStep(k) \/ TickDbFails(k), ~\E j \in Job : Mark(k, j) PROVE job' = job
    BY <1>3 DEF TickStep, TickStart, SkipHeld, Claim, BatchGuard, Refuse, Release, TickDbFails
<1>4. ASSUME NEW j \in Job, JobStep(j) \/ JobDbFails(j)
      PROVE  \A i \in Job : AutoJob(i)' => AutoJob(i) /\ job'[i].task = job[i].task
  <2>1. job[j].pc # "free" /\ JobsOK
      BY <1>4, Records DEF TypeOK, JobsOK, JobStep, JobEnds, JobSaves, JobReleases, ManualMark, JobDbFails
  <2>2. CASE job' = [job EXCEPT ![j] = FreeJob]
      BY <2>1, <2>2, FreeJobType, Records DEF AutoJob
  <2>3. ASSUME NEW pc \in {"body", "save", "saved"}, NEW out \in {"none", "ok", "fail", "cancelled"},
               job' = JobGoes(j, pc, out)
        PROVE  \A i \in Job : AutoJob(i)' => AutoJob(i) /\ job'[i].task = job[i].task
    <3>1. \A i \in Job : job'[i].by = job[i].by /\ job'[i].task = job[i].task
        BY <2>1, <2>3 DEF JobGoes, JobsOK
    <3> QED BY <3>1 DEF AutoJob
  <2>4. CASE JobEnds(j)
    <3>1. PICK out \in {"ok", "fail", "cancelled"} :
              job' = [job EXCEPT ![j] = FreeJob] \/ job' = JobGoes(j, "save", out)
        BY <2>4 DEF JobEnds, Results, AutoResults, ManualResults, SimulateResults
    <3> QED BY <2>2, <2>3, <3>1
  <2>5. job[j].out \in {"none", "ok", "fail", "cancelled"}
      BY <2>1 DEF JobsOK, JobState
  <2> QED BY <1>4, <2>2, <2>3, <2>4, <2>5 DEF JobStep, JobSaves, JobReleases, ManualMark, JobDbFails
<1>5. ASSUME NEW t \in Task, UserStep(t) \/ TimePasses(t)
      PROVE  \A i \in Job : AutoJob(i)' => AutoJob(i) /\ job'[i].task = job[i].task
  <2>1. CASE job' = job
      BY <2>1 DEF AutoJob
  <2>2. ASSUME NEW j \in Job, Asks(j, t)
        PROVE  \A i \in Job : AutoJob(i)' => AutoJob(i) /\ job'[i].task = job[i].task
    <3>1. job'[j].by = "manual" /\ \A i \in Job \ {j} : job'[i] = job[i]
        BY <2>2, NewJobType DEF Asks, TypeOK
    <3> QED BY <3>1 DEF AutoJob
  <2> QED BY <1>5, <2>1, <2>2 DEF UserStep, Execute, Start, Cancel, Reset, Remove, UserSets, Create, TimePasses
<1>6. CASE Restart
  <2>1. \A i \in Job : job'[i].by = "none"
      BY <1>6, Records DEF Restart
  <2> QED BY <1>1, <2>1 DEF AutoJob
<1>7. CASE job' = job
    BY <1>1, <1>7 DEF AutoJob
<1> QED BY <1>1, <1>2, <1>3, <1>4, <1>5, <1>6, <1>7 DEF Next, LicenseChanges, vars

LEMMA InTurnInit == Init => InTurn
<1> SUFFICES ASSUME Init PROVE InTurn
    OBVIOUS
<1>1. RowsInTurn
    BY DEF Init, RowsInTurn, Finished
<1>2. \A k \in Tick : TickInTurn(tick[k])
    BY DEF Init, IdleTick, TickInTurn
<1>3. \A j \in Job : ~AutoJob(j)
    BY Records DEF Init, AutoJob
<1> QED BY <1>1, <1>2, <1>3 DEF InTurn

(* The runner works on a task of a batch only after every task of the groups      *)
(* before has come to an end or was removed (task-auto-runner.service.ts:94-110),  *)
(* for any number of overlapping ticks, whatever users set back, repeats, expires,  *)
(* crashes or fails.                                                           *)
THEOREM GroupsTakeTurns == Spec => []BatchInTurn
<1>1. TypeOK /\ InTurn /\ [Next]_vars => InTurn'
  <2> SUFFICES ASSUME TypeOK, InTurn, [Next]_vars PROVE InTurn'
      OBVIOUS
  <2>1. Advances
      BY RowsAdvance DEF InTurn
  <2>2. \A k \in Tick : TickInTurn(tick[k])'
      BY <2>1, TicksInTurn
  <2>3. \A j \in Job : AutoJob(j)' => Passed(job[j].task)'
      BY <2>1, JobsInTurn
  <2> QED BY <2>1, <2>2, <2>3 DEF InTurn, Advances
<1>2. InTurn => BatchInTurn
    BY DEF InTurn, Passed, BatchInTurn
<1> QED BY <1>1, <1>2, InTurnInit, TypeCorrect, PTL DEF Spec
=============================================================================
