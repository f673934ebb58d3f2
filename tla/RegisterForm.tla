---------------------------- MODULE RegisterForm ----------------------------
(***************************************************************************)
(* The dialog of the accounts page in which one starts to register an         *)
(* account and waits for it: it asks for the account's status at once and      *)
(* every five seconds, until an answer says that the registration is over.      *)
(*                                                                         *)
(* The page keeps one dialog, open or not, with one reference to a timer.       *)
(* Closing it while a registration is being started forgets nothing: the        *)
(* answer starts a timer all the same, and the next one takes over the          *)
(* reference while the first goes on.                                         *)
(***************************************************************************)
EXTENDS Naturals, Sequences, SequencesExt

CONSTANTS
    Account,
    NoAccount,
    MaxPolls,   \* bound: requests for one account's status in flight
    MaxFailed   \* bound: requests that fail

VARIABLES
    row,      \* the accounts' rows on the server
    open,
    phase,
    waited,   \* accountId: the one whose registration was started last
    start,    \* the request that starts a registration
    polls,    \* requests for a status
    timers,   \* the accounts whose interval is running
    ref,      \* pollTimerRef
    cancel,   \* the confirmation to cancel, and its request
    failed

formVars == <<row, open, phase, waited, start, polls, timers, ref, cancel, failed>>

Idle == [of |-> NoAccount, at |-> "idle"]

Init ==
    /\ row = [a \in Account |-> "none"]
    /\ open = FALSE /\ phase = "form" /\ waited = NoAccount
    /\ start = Idle /\ polls = <<>> /\ timers = {} /\ ref = NoAccount /\ cancel = Idle
    /\ failed = 0

Asking == cancel.at = "asked"   \* the confirmation covers the dialog

Cleared == timers' = timers \ {ref}
-----------------------------------------------------------------------------
(* The effect of opening resets what is shown, and neither timer nor request.  *)
OpenForm ==
    /\ ~open
    /\ open' = TRUE /\ phase' = "form" /\ waited' = NoAccount
    /\ UNCHANGED <<row, start, polls, timers, ref, cancel, failed>>

Submit(a) ==
    /\ open /\ phase = "form" /\ start = Idle /\ row[a] = "none"
    /\ start' = [of |-> a, at |-> "sent"]
    /\ UNCHANGED <<row, open, phase, waited, polls, timers, ref, cancel, failed>>

StartServed ==
    /\ start.at = "sent"
    /\ start' = [start EXCEPT !.at = "served"]
    /\ row' = [row EXCEPT ![start.of] = "registering"]
    /\ UNCHANGED <<open, phase, waited, polls, timers, ref, cancel, failed>>

Unanswered(a) == [of |-> a, said |-> "nothing"]

StartAnswered ==
    /\ start.at = "served"
    /\ waited' = start.of /\ phase' = "waiting"
    /\ polls' = Append(polls, Unanswered(start.of))
    /\ timers' = timers \cup {start.of} /\ ref' = start.of
    /\ start' = Idle
    /\ UNCHANGED <<row, open, cancel, failed>>

StartFails ==
    /\ start # Idle /\ failed < MaxFailed
    /\ failed' = failed + 1
    /\ start' = Idle
    /\ UNCHANGED <<row, open, phase, waited, polls, timers, ref, cancel>>

PollTick(a) ==
    /\ a \in timers /\ Len(SelectSeq(polls, LAMBDA p : p.of = a)) < MaxPolls
    /\ polls' = Append(polls, Unanswered(a))
    /\ UNCHANGED <<row, open, phase, waited, start, timers, ref, cancel, failed>>

(* getRegistrationStatus: a row that neither registers nor failed is "idle".    *)
StatusOf(a) == CASE row[a] \in {"registering", "failed"} -> row[a]
                 [] row[a] = "deleted" -> "gone"
                 [] OTHER -> "idle"

ServerSays(i) ==
    /\ i \in DOMAIN polls /\ polls[i].said = "nothing"
    /\ polls' = [polls EXCEPT ![i].said = StatusOf(polls[i].of)]
    /\ UNCHANGED <<row, open, phase, waited, start, timers, ref, cancel, failed>>

(* Whichever account the answer is about, the phase is the dialog's, and the    *)
(* timer cleared is the one referred to.                                     *)
Over == {"idle", "failed"}

StatusArrives(i) ==
    /\ i \in DOMAIN polls /\ polls[i].said # "nothing"
    /\ polls' = RemoveAt(polls, i)
    /\ IF polls[i].said \in Over
       THEN phase' = (IF polls[i].said = "idle" THEN "success" ELSE "failed") /\ Cleared
       ELSE UNCHANGED <<phase, timers>>
    /\ UNCHANGED <<row, open, waited, start, ref, cancel, failed>>

ClearedOnError == Cleared   \* mutation: an error ends the polling

KeepsPolling == UNCHANGED timers

StatusFails(i) ==
    /\ i \in DOMAIN polls /\ failed < MaxFailed
    /\ failed' = failed + 1
    /\ polls' = RemoveAt(polls, i)
    /\ KeepsPolling
    /\ UNCHANGED <<row, open, phase, waited, start, ref, cancel>>
-----------------------------------------------------------------------------
(* handleCancel while a registration is waited for                            *)
AskCancel ==
    /\ open /\ phase = "waiting" /\ waited # NoAccount /\ cancel = Idle
    /\ cancel' = [of |-> waited, at |-> "asked"]
    /\ UNCHANGED <<row, open, phase, waited, start, polls, timers, ref, failed>>

Confirm ==
    /\ Asking
    /\ \/ cancel' = [cancel EXCEPT !.at = "sent"]
       \/ cancel' = Idle
    /\ UNCHANGED <<row, open, phase, waited, start, polls, timers, ref, failed>>

(* cancelRegistration deletes the row whatever its status; 404 if it was.     *)
CancelServed ==
    /\ cancel.at = "sent"
    /\ IF row[cancel.of] = "deleted" THEN cancel' = Idle ELSE cancel' = [cancel EXCEPT !.at = "served"]
    /\ row' = [row EXCEPT ![cancel.of] = "deleted"]
    /\ UNCHANGED <<open, phase, waited, start, polls, timers, ref, failed>>

CancelAnswered ==
    /\ cancel.at = "served"
    /\ cancel' = Idle
    /\ open' = FALSE /\ Cleared
    /\ UNCHANGED <<row, phase, waited, start, polls, ref, failed>>

CancelFails ==
    /\ cancel.at \in {"sent", "served"} /\ failed < MaxFailed
    /\ failed' = failed + 1
    /\ cancel' = Idle
    /\ UNCHANGED <<row, open, phase, waited, start, polls, timers, ref>>

(* handleCancel otherwise; the button under a result only closes.             *)
CloseForm ==
    /\ open /\ phase # "waiting" /\ ~Asking
    /\ open' = FALSE
    /\ Cleared \/ (phase \in {"success", "failed"} /\ UNCHANGED timers)
    /\ UNCHANGED <<row, phase, waited, start, polls, ref, cancel, failed>>

(* The watcher's verdict, a login after a failure, a deletion                 *)
RowChanges(a) ==
    /\ \E s \in {"registered", "failed", "deleted"} :
        /\ row[a] \in (CASE s = "registered" -> {"registering", "failed"}
                         [] s = "failed" -> {"registering"}
                         [] s = "deleted" -> {"registering", "failed", "registered"})
        /\ row' = [row EXCEPT ![a] = s]
    /\ UNCHANGED <<open, phase, waited, start, polls, timers, ref, cancel, failed>>

Next ==
    \/ OpenForm \/ StartServed \/ StartAnswered \/ StartFails
    \/ \E a \in Account : Submit(a) \/ PollTick(a) \/ RowChanges(a)
    \/ \E i \in DOMAIN polls : ServerSays(i) \/ StatusArrives(i) \/ StatusFails(i)
    \/ AskCancel \/ Confirm \/ CancelServed \/ CancelAnswered \/ CancelFails \/ CloseForm

(* The intervals fire and requests for a status are answered.                 *)
Fairness ==
    /\ \A a \in Account : WF_formVars(PollTick(a))
    /\ WF_formVars(ServerSays(1)) /\ WF_formVars(StatusArrives(1))

Spec == Init /\ [][Next]_formVars /\ Fairness
-----------------------------------------------------------------------------
(* A dialog that waits does not wait for ever for a registration that is over: *)
(* it shows a result, is closed, or the account has been deleted meanwhile.    *)
FormSettles ==
    \A a \in Account :
        (open /\ phase = "waiting" /\ waited = a /\ row[a] \in {"registered", "failed"})
            ~> (~open \/ phase # "waiting" \/ waited # a \/ row[a] = "deleted")
=============================================================================
