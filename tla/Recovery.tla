------------------------------ MODULE Recovery ------------------------------
(***************************************************************************)
(* Health checks and automatic recovery of one account                     *)
(* (src/backend/src/modules/account-health/account-health.service.ts and   *)
(* src/backend/src/modules/account-recovery/account-recovery.service.ts).  *)
(* app.module.ts does not import the two modules at this commit; this is    *)
(* what they do when it does.                                              *)
(*                                                                         *)
(* Checks and recoveries run in slots, because cron ticks and requests may *)
(* overlap; a step is one database statement with the code around it.      *)
(* Scores are abstracted to what the thresholds 85 and 70 make of them.    *)
(***************************************************************************)
EXTENDS Naturals, FiniteSets

CONSTANTS
    Checker,     \* slots for concurrent health checks
    Detector,    \* slots for concurrent failure detections and manual recoveries
    Alert,       \* names for alerts, at least twice as many as checks
    MaxAttempts, \* recoveryConfig.maxRecoveryAttempts
    MaxManual,   \* bound on manual recoveries
    MaxCrashes   \* bound on restarts

VARIABLES
    status,  \* facebook_accounts.status, active or error
    sample,  \* what the health logs of the last hour say: none, ok or failing
    active,  \* alerts of the last hour that are active
    check,   \* local state of each health check
    rec,     \* local state of each detection or manual recovery
    ended,   \* recovery logs of the last hour that nobody works on, not running
    stuck,   \* the same that still say running
    manuals, \* manual recoveries so far
    crashes  \* restarts so far

vars == <<status, sample, active, check, rec, ended, stuck, manuals, crashes>>

NoCheck == [pc |-> "idle", status |-> "active", alert |-> {}]
NoRec   == [pc |-> "idle", manual |-> FALSE]

Init ==
    /\ status = "active" /\ sample = "none" /\ active = {}
    /\ check = [k \in Checker |-> NoCheck] /\ rec = [d \in Detector |-> NoRec]
    /\ ended = 0 /\ stuck = 0 /\ manuals = 0 /\ crashes = 0
-----------------------------------------------------------------------------
(* Health checks *)

(* The check reads the account.  It may have been listed a little earlier, but  *)
(* a request checks accounts of any status anyway.                             *)
CheckStarts(k) ==
    /\ check[k].pc = "idle"
    /\ check' = [check EXCEPT ![k] = [@ EXCEPT !.pc = "measure", !.status = status]]
    /\ UNCHANGED <<status, sample, active, rec, ended, stuck, manuals, crashes>>

ScheduledCheck(k) == status = "active" /\ CheckStarts(k)
ManualCheck(k)    == CheckStarts(k)

(* The mean of the five scores against the thresholds 85 and 70: the api and    *)
(* the resources score 100, the network 80 to 100.                             *)
Verdicts == {"healthy", "warning", "critical"}

(* With an expired token the login scores 0 and the session 30, which makes 62  *)
(* to 66: critical.  Without a date of expiry the session scores 0, which makes *)
(* 76 to 80, and in the last hour 30, on either side of 85.  Three of five rows *)
(* fail, as analyzeFailure asks, when an expired token meets a network below 85. *)
Samples(verdict) == IF verdict = "critical" THEN {"ok", "failing"} ELSE {"ok"}

(* updateAccountHealth saves the copy that the check read at its start. *)
Saved(copy, verdict) == IF verdict = "critical" THEN "error" ELSE copy

(* The five checks settle, their logs are written and the account is saved. *)
Measures(k) ==
    /\ check[k].pc = "measure"
    /\ \E v \in Verdicts :
           /\ sample' \in Samples(v)
           /\ status' = Saved(check[k].status, v)
           /\ check' = [check EXCEPT ![k] = IF v = "healthy" THEN NoCheck ELSE [NoCheck EXCEPT !.pc = "find"]]
    /\ UNCHANGED <<active, rec, ended, stuck, manuals, crashes>>

NoneExisting == {}   \* mutation

(* The alerts that the query for a recent active alert may return *)
Existing == {{a} : a \in active}

FindsAlert(k) ==
    /\ check[k].pc = "find"
    /\ \E found \in (IF Existing = {} THEN {{}} ELSE Existing) :
           check' = [check EXCEPT ![k] = [@ EXCEPT !.pc = "alert", !.alert = found]]
    /\ UNCHANGED <<status, sample, active, rec, ended, stuck, manuals, crashes>>

Held == UNION {check[k].alert : k \in Checker}

(* The alert that was found is saved as it was read, active; a new one is      *)
(* inserted where there was none.                                              *)
SavesAlert(k) ==
    /\ check[k].pc = "alert"
    /\ active' = active \cup (IF check[k].alert # {} THEN check[k].alert
                               ELSE {CHOOSE a \in Alert : a \notin active \cup Held})
    /\ check' = [check EXCEPT ![k] = NoCheck]
    /\ UNCHANGED <<status, sample, rec, ended, stuck, manuals, crashes>>

(* The user acknowledges or resolves an alert, or it grows older than an hour. *)
AlertCloses ==
    /\ \E a \in active : active' = active \ {a}
    /\ UNCHANGED <<status, sample, check, rec, ended, stuck, manuals, crashes>>
-----------------------------------------------------------------------------
(* Recovery.  A recovery that executes has one row in the log, a second one   *)
(* while it falls back, and a manual one its own besides.                     *)

FbRow   == {"fbMark", "fbAttempt", "fbFinish"}
MainRow == {"mark", "attempt", "finish"} \cup FbRow
Execute == MainRow \cup {"insert"}

At(pcs)       == {d \in Detector : rec[d].pc \in pcs}
ManualAt(pcs) == {d \in At(pcs) : rec[d].manual}

(* The rows that somebody works on                                            *)
Rows ==
    Cardinality(At(MainRow)) + Cardinality(At(FbRow)) + Cardinality(ManualAt(Execute \cup {"ownMark"}))

(* Those of them that say running *)
Running ==
    Cardinality(At(MainRow \ {"mark"})) + Cardinality(At(FbRow \ {"fbMark"})) + Cardinality(ManualAt(Execute))

Attempts == ended + stuck + Rows

Goes(d, pc) ==
    /\ rec' = [rec EXCEPT ![d].pc = pc]
    /\ UNCHANGED <<status, sample, active, check, ended, stuck, manuals, crashes>>

(* A tick of the detection finds the account among those in error, reads it    *)
(* once more and does not look at its status again.                            *)
Detects(d) == rec[d].pc = "idle" /\ status = "error" /\ Goes(d, "guard")

(* triggerManualRecovery looks neither for a running recovery nor at their number. *)
ManualRecovery(d) ==
    /\ rec[d].pc = "idle" /\ manuals < MaxManual
    /\ rec' = [rec EXCEPT ![d] = [pc |-> "own", manual |-> TRUE]]
    /\ manuals' = manuals + 1
    /\ UNCHANGED <<status, sample, active, check, ended, stuck, crashes>>

(* An early return, or the next statement *)
Turns(d, back, pc) ==
    IF back THEN /\ rec' = [rec EXCEPT ![d] = NoRec]
                 /\ UNCHANGED <<status, sample, active, check, ended, stuck, manuals, crashes>>
    ELSE Goes(d, pc)

AnyRunning == stuck + Running > 0

LooksForRunning(d) ==
    /\ rec[d].pc = "guard"
    /\ Turns(d, AnyRunning, "count")

MoreThanMany == Attempts > MaxAttempts   \* mutation

TooMany == Attempts >= MaxAttempts

CountsAttempts(d) ==
    /\ rec[d].pc = "count"
    /\ Turns(d, TooMany, "analyse")

NeedsRecovery == sample = "failing"

Analyses(d) ==
    /\ rec[d].pc = "analyse"
    /\ Turns(d, ~NeedsRecovery, "insert")

InsertsOwn(d) == rec[d].pc = "own" /\ Goes(d, "ownMark")
MarksOwn(d)   == rec[d].pc = "ownMark" /\ Goes(d, "insert")

Inserts(d) == rec[d].pc = "insert" /\ Goes(d, "mark")
Marks(d)   == rec[d].pc = "mark" /\ Goes(d, "attempt")

(* The methods.  Only a request asks for a switch, and the fallback tries it    *)
(* last.                                                                      *)
Methods == {"reconnect", "refresh_token", "restart", "fallback", "switch_account"}

Chosen(d) == IF rec[d].manual THEN Methods ELSE {"reconnect", "refresh_token", "restart"}

(* Each method succeeds or not at random.  switchToFallbackAccount looks for    *)
(* the id of the account itself, which its comment means to leave out, among     *)
(* the active ones.                                                           *)
MaySucceed(method) == method = "switch_account" => status = "active"

(* After a success updateAccountAfterRecovery saves the copy read at the start. *)
Recovers(d, pc) ==
    /\ status' = "active"
    /\ rec' = [rec EXCEPT ![d].pc = pc]
    /\ UNCHANGED <<sample, active, check, ended, stuck, manuals, crashes>>

RecoverySucceeds(d) ==
    /\ rec[d].pc = "attempt"
    /\ \E method \in Chosen(d) : MaySucceed(method)
    /\ Recovers(d, "finish")

(* A failure inserts the row of the fallback, but for that of a switch.         *)
RecoveryFails(d) ==
    /\ rec[d].pc = "attempt"
    /\ \E method \in Chosen(d) : Goes(d, IF method = "switch_account" THEN "finish" ELSE "fbMark")

MarksFallback(d)    == rec[d].pc = "fbMark" /\ Goes(d, "fbAttempt")
FallbackSucceeds(d) ==
    /\ rec[d].pc = "fbAttempt"
    /\ \E method \in Methods \ {"fallback"} : MaySucceed(method)
    /\ Recovers(d, "fbFinish")

(* The row of the fallback is saved with its outcome. *)
FinishesFallback(d) ==
    /\ rec[d].pc \in {"fbAttempt", "fbFinish"}
    /\ ended' = ended + 1
    /\ rec' = [rec EXCEPT ![d].pc = "finish"]
    /\ UNCHANGED <<status, sample, active, check, stuck, manuals, crashes>>

(* The recovery's own row is saved with its outcome; the row of a manual        *)
(* request, read again but never written, still says running.                  *)
LeftRunning(d) == IF rec[d].manual THEN 1 ELSE 0

Finishes(d) ==
    /\ rec[d].pc = "finish"
    /\ ended' = ended + 1
    /\ stuck' = stuck + LeftRunning(d)
    /\ rec' = [rec EXCEPT ![d] = NoRec]
    /\ UNCHANGED <<status, sample, active, check, manuals, crashes>>

DetectorStep(d) ==
    \/ LooksForRunning(d) \/ CountsAttempts(d) \/ Analyses(d)
    \/ InsertsOwn(d) \/ MarksOwn(d) \/ Inserts(d) \/ Marks(d)
    \/ RecoverySucceeds(d) \/ RecoveryFails(d) \/ MarksFallback(d)
    \/ FallbackSucceeds(d) \/ FinishesFallback(d) \/ Finishes(d)
-----------------------------------------------------------------------------
(* Time and crashes *)

(* Rows leave the last hour; those that somebody works on are seconds old. *)
LogAges ==
    /\ \/ ended > 0 /\ ended' = ended - 1 /\ UNCHANGED stuck
       \/ stuck > 0 /\ stuck' = stuck - 1 /\ UNCHANGED ended
    /\ UNCHANGED <<status, sample, active, check, rec, manuals, crashes>>

SampleAges ==
    /\ sample # "none" /\ sample' = "none"
    /\ UNCHANGED <<status, active, check, rec, ended, stuck, manuals, crashes>>

Restart ==
    /\ crashes < MaxCrashes
    /\ crashes' = crashes + 1
    /\ stuck' = stuck + Running
    /\ ended' = ended + Rows - Running
    /\ check' = [k \in Checker |-> NoCheck] /\ rec' = [d \in Detector |-> NoRec]
    /\ UNCHANGED <<status, sample, active, manuals>>

CheckerStep(k) ==
    Measures(k) \/ FindsAlert(k) \/ SavesAlert(k)

Next ==
    \/ \E k \in Checker : ScheduledCheck(k) \/ ManualCheck(k) \/ CheckerStep(k)
    \/ \E d \in Detector : Detects(d) \/ ManualRecovery(d) \/ DetectorStep(d)
    \/ AlertCloses \/ LogAges \/ SampleAges \/ Restart

Spec == Init /\ [][Next]_vars
-----------------------------------------------------------------------------
(* Properties *)

(* maxRecoveryAttempts (account-recovery.service.ts:104): the hour holds no     *)
(* more rows than the limit allows plus what detections that passed the test   *)
(* together, and manual requests, which take none, add.                        *)
AttemptsBounded ==
    Attempts <= MaxAttempts - 1 + 2 * Cardinality(Detector) + 3 * manuals

(* Lines 489-507 of account-health.service.ts: an alert is updated where there *)
(* is one, so that no more are active than checks that looked together.        *)
AlertsFew == Cardinality(active) <= Cardinality(Checker)
=============================================================================
