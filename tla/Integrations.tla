---------------------------- MODULE Integrations ----------------------------
(***************************************************************************)
(* What a task does with a browser                                         *)
(* (src/backend/src/modules/task-executor/integrations/): friend requests, *)
(* comments, follows, combos, group joins, posts, warming, dual chats and  *)
(* calls.  Each run loads its accounts, takes a browser and a tab for each, *)
(* logs in with their cookies, works on pages that may throw at any step,  *)
(* and in a finally block closes its tabs and releases the browsers.       *)
(*                                                                         *)
(* Facebook is the environment: what a page shows is a choice.  The pool   *)
(* itself is the subject of BrowserSession.  A run that an account is not  *)
(* part of is not affected by others, except through three things modelled *)
(* here: the Messenger PIN, the history of joined groups and the site.     *)
(***************************************************************************)
EXTENDS Naturals, Sequences, FiniteSets

CONSTANTS
    Account,
    Run,       \* slots for concurrent executions
    Pin, NoPin,
    Limit,     \* dailyLimit of group joins, and the limits of the other kinds
    Feed,      \* bound on what a page goes on to offer: posts, groups, cycles
    MaxDay,    \* bound on midnights
    MaxFaults, \* bound on crashes and failed statements
    Job        \* the jobs of an instance: a kind, its accounts, the rest of a combo

Social   == {"friends", "accept", "comment", "follow"}
Pair     == {"chat", "call"}
Post     == {"post_image", "post_video"}
AllKinds == Social \cup Pair \cup Post \cup {"join", "warm"}

ASSUME IntegrationsAssumption ==
    /\ Pin # {} /\ NoPin \notin Pin
    /\ Limit \in Nat \ {0} /\ Feed \in Nat /\ MaxDay \in Nat /\ MaxFaults \in Nat
    /\ \A j \in Job :
        /\ j.kind \in AllKinds \ {"combo"} /\ j.acct \in Seq(Account) /\ j.rest \in Seq(Social)
        /\ Len(j.acct) = IF j.kind \in Pair THEN 2 ELSE 1

FriendsCap    == 6
CommentMisses == 6
FollowMisses  == 4
MaxRounds     == 5

VARIABLES
    run,      \* local state of each execution
    tabs,     \* what it has open: the tabs it holds, A and B, and what nobody holds
    pin,      \* facebook_accounts.messenger_pin
    sitePin,  \* the PIN that Facebook knows
    rows,     \* group_join_history: joined rows of each account and dateKey
    real,     \* groups that the site let each account into on each day
    day,
    faults,
    shared,   \* history: accounts that two executions, or both sides of one, worked for
    lost,     \* history: accounts with a join that went unrecorded
    made,     \* history: accounts whose PIN an execution has created
    agenda    \* the kinds of a behaviour: kinds of two agendas share nothing

vars == <<run, tabs, pin, sitePin, rows, real, day, faults, shared, lost, made, agenda>>
site == <<sitePin, real, made, agenda>>
db   == <<pin, rows, lost>>

Agendas == {Pair, {"join"}, Social \cup Post \cup {"warm"}}

Idle == [kind |-> "none", pc |-> "idle", role |-> "A", acct |-> <<>>, rest |-> <<>>,
         copy |-> <<>>, left |-> 0, done |-> 0, miss |-> 0, feed |-> 0,
         out |-> "none", result |-> "none"]

Init ==
    /\ run = [r \in Run |-> Idle]
    /\ tabs = [r \in Run |-> {}]
    /\ agenda \in Agendas
    /\ IF agenda = Pair
       THEN LET p == CHOOSE p \in Pin : TRUE
            IN  pin \in [Account -> {NoPin, p}] /\ sitePin \in [Account -> {NoPin, p}]
       ELSE pin = [a \in Account |-> NoPin] /\ sitePin = pin
    /\ rows = [a \in Account |-> [d \in 0..MaxDay |-> 0]]
    /\ real = rows
    /\ day = 0 /\ faults = 0
    /\ shared = {} /\ lost = {} /\ made = {}

Sets(r, s) == run' = [run EXCEPT ![r] = s]
Goes(r, pc) == Sets(r, [run[r] EXCEPT !.pc = pc])
Works(r, kinds) == run[r].pc = "work" /\ run[r].kind \in kinds

Of(r) == run[r].acct[IF run[r].role = "A" THEN 1 ELSE 2]
Roles(r) == IF run[r].kind \in Pair THEN {"A", "B"} ELSE {"A"}
AccountsOf(s) == {s.acct[i] : i \in DOMAIN s.acct}
Active(s) == s.pc \notin {"idle", "ended"}

(* try ... finally: the run keeps its result and closes what it has opened. *)
ToFinally(r, result) == Sets(r, [run[r] EXCEPT !.pc = "finally", !.result = result, !.copy = <<>>])
-----------------------------------------------------------------------------
(* The way in *)

(* A combo is the first of its actions with the others to follow.  Only      *)
(* chats and joins have something to share with a job next to them.  Nothing *)
(* here refuses a pair of an account with itself.                            *)
Starts(r, j) ==
    /\ ~Active(run[r])
    /\ tabs' = [tabs EXCEPT ![r] = {}]
    /\ j.kind \in agenda
    /\ \A q \in Run : Active(run[q]) => {j.kind, run[q].kind} \subseteq {"chat", "join"}
    /\ Sets(r, [Idle EXCEPT !.kind = j.kind, !.pc = "load", !.acct = j.acct, !.rest = j.rest])
    /\ shared' = shared \cup {a \in AccountsOf(j) :
                                 \/ j.acct = <<a, a>>
                                 \/ \E q \in Run \ {r} : Active(run[q]) /\ a \in AccountsOf(run[q])}
    /\ UNCHANGED <<day, faults, db, site>>

(* A combo goes on with its next action whatever became of this one.         *)
Ended(s) ==
    IF s.rest = <<>> THEN [Idle EXCEPT !.pc = "ended", !.kind = s.kind]
    ELSE [Idle EXCEPT !.kind = Head(s.rest), !.pc = "load", !.acct = s.acct, !.rest = Tail(s.rest)]

IgnoringToday(r) == Limit             \* mutation: what was joined before is not counted

(* What getTodayJoinCount leaves of the daily limit. *)
Remaining(r) == IF rows[Of(r)][day] >= Limit THEN 0 ELSE Limit - rows[Of(r)][day]

(* Copies of the account rows; a missing account, missing cookies or an      *)
(* empty list of texts end the run here.                                     *)
Loads(r) ==
    /\ run[r].pc = "load" /\ run[r].kind # "join"
    /\ Sets(r, [run[r] EXCEPT !.pc = "open", !.copy = [i \in DOMAIN run[r].acct |-> pin[run[r].acct[i]]]])
    /\ UNCHANGED <<tabs, day, faults, shared, db, site>>

LoadsJoin(r) ==
    /\ run[r].pc = "load" /\ run[r].kind = "join"
    /\ IF Remaining(r) = 0 THEN Sets(r, Ended(run[r]))
       ELSE Sets(r, [run[r] EXCEPT !.pc = "open", !.left = Remaining(r)])
    /\ UNCHANGED <<tabs, day, faults, shared, db, site>>

Refused(r) ==
    /\ run[r].pc = "load"
    /\ Sets(r, Ended(run[r]))
    /\ UNCHANGED <<tabs, day, faults, shared, db, site>>

(* getOrLaunchSession, of a pair both at once, and then a tab for each: the  *)
(* browser opens it, and a proxy's credentials are set.                      *)
OpensTab(r) ==
    /\ run[r].pc = "open"
    /\ tabs' = [tabs EXCEPT ![r] = @ \cup {run[r].role}]
    /\ IF "B" \in Roles(r) /\ run[r].role = "A" THEN Sets(r, [run[r] EXCEPT !.role = "B"])
       ELSE Sets(r, [run[r] EXCEPT !.role = "A", !.pc = "login"])
    /\ UNCHANGED <<day, faults, shared, db, site>>

(* The credentials are rejected: the tab is there, and pageA or pageB is     *)
(* still null.                                                               *)
HalfOpens(r) ==
    /\ run[r].pc = "open"
    /\ tabs' = [tabs EXCEPT ![r] = @ \cup {"half"}]
    /\ ToFinally(r, "failed")
    /\ UNCHANGED <<day, faults, shared, db, site>>

(* The cookies still hold, or they have expired. *)
LogsIn(r) ==
    /\ run[r].pc = "login"
    /\ \/ Goes(r, CASE run[r].kind \in Pair -> "pin" [] run[r].kind = "join" -> "search" [] OTHER -> "visit")
       \/ ToFinally(r, "failed")
    /\ UNCHANGED <<tabs, day, faults, shared, db, site>>

(* The page of the kind, which offers Feed things at most. *)
Visits(r) ==
    /\ run[r].pc = "visit"
    /\ \E n \in 0..Feed : Sets(r, [run[r] EXCEPT !.feed = n, !.pc = "work"])
    /\ UNCHANGED <<tabs, day, faults, shared, db, site>>

(* A keyword, a search, and the groups that its page lists, in any order.    *)
SearchesGroups(r) ==
    /\ run[r].pc = "search"
    /\ \E n \in 0..Feed : Sets(r, [run[r] EXCEPT !.feed = n, !.pc = "work"])
    /\ UNCHANGED <<tabs, day, faults, shared, db, site>>

(* A launch, a navigation, a click or a key press rejects. *)
Throws(r) ==
    /\ run[r].pc \in {"open", "login", "visit", "search", "work", "pin", "type"}
    /\ ToFinally(r, "failed")
    /\ UNCHANGED <<tabs, day, faults, shared, db, site>>
-----------------------------------------------------------------------------
(* Friends, requests, comments, follows *)

Max(kind) == CASE kind = "friends" -> IF Limit < FriendsCap THEN Limit ELSE FriendsCap
               [] OTHER -> Limit
Misses(kind) == CASE kind = "comment" -> CommentMisses
                  [] kind = "follow"  -> FollowMisses
                  [] OTHER            -> 1

(* The click is made by coordinates and nothing looks what came of it: the   *)
(* page may go on to offer what was clicked.  A post that was handled is not *)
(* looked at again.                                                          *)
AfterClick(s) == IF s.kind = "comment" THEN {s.feed - 1} ELSE {s.feed, s.feed - 1}

(* One more, counted after the click *)
Counted(s, feed) == [s EXCEPT !.done = @ + 1, !.feed = feed, !.miss = 0]

Finds(r) ==
    /\ Works(r, Social) /\ run[r].done < Max(run[r].kind) /\ run[r].feed > 0
    /\ \E n \in AfterClick(run[r]) : Sets(r, Counted(run[r], n))
    /\ UNCHANGED <<tabs, day, faults, shared, db, site>>

SamePostAgain(s) == [s EXCEPT !.miss = 0]                      \* mutation
PastThePost(s)   == [s EXCEPT !.feed = @ - 1, !.miss = 0]

(* executeAutoComment: the article has a button and no text box appears.     *)
NoTextBox(r) ==
    /\ Works(r, {"comment"}) /\ run[r].done < Limit /\ run[r].feed > 0
    /\ Sets(r, PastThePost(run[r]))
    /\ UNCHANGED <<tabs, day, faults, shared, db, site>>

(* Nothing to click even after a scroll: the next round, or the end.         *)
Missed(s) ==
    IF s.miss + 1 >= Misses(s.kind) THEN [s EXCEPT !.pc = "finally", !.result = "ok"]
    ELSE [s EXCEPT !.miss = @ + 1]

FindsNone(r) ==
    /\ Works(r, Social) /\ run[r].done < Max(run[r].kind)
    /\ Sets(r, Missed(run[r]))
    /\ UNCHANGED <<tabs, day, faults, shared, db, site>>

HasEnough(r) ==
    /\ Works(r, Social) /\ run[r].done >= Max(run[r].kind)
    /\ ToFinally(r, "ok")
    /\ UNCHANGED <<tabs, day, faults, shared, db, site>>
-----------------------------------------------------------------------------
(* Group joins *)

Joining(r) == Works(r, {"join"}) /\ run[r].feed > 0 /\ run[r].done < run[r].left

EntersGroup(r) == real' = [real EXCEPT ![Of(r)][day] = @ + 1]

TryEnds(r, out) ==
    /\ IF out = "joined" THEN EntersGroup(r) ELSE UNCHANGED real
    /\ Sets(r, [run[r] EXCEPT !.pc = "record", !.out = out])

(* tryJoinOne: after the click the page asks nothing.  It says that the       *)
(* account is in, or one of the many reasons why not.                        *)
AsksNothing(r) == \E out \in {"joined", "skipped"} : TryEnds(r, out)

(* generateAnswer: whichever model is asked, in ten seconds it has given a    *)
(* text or an error; nothing is thrown.                                      *)
Answer == {"text", "error"}

(* getDecryptedAiApiKey: no key is stored for the user, or the one that is    *)
(* cannot be decrypted; nothing is thrown.                                   *)
Key == {"plain", "none"}

(* A dialog with questions.  It is closed when there is no key, or the model  *)
(* does not answer one, or the box of one is not there; otherwise the answers *)
(* are sent, and that counts as joined, if the button is found.              *)
AsksQuestions(r) ==
    \E key \in Key, answer \in Answer, filled, sent \in BOOLEAN :
        TryEnds(r, IF key = "plain" /\ answer = "text" /\ filled /\ sent
                   THEN "joined" ELSE "skipped")

TriesGroup(r) ==
    /\ Joining(r)
    /\ AsksNothing(r) \/ AsksQuestions(r)
    /\ UNCHANGED <<tabs, day, faults, shared, db, sitePin, made, agenda>>

(* The page does not say yet that the account is in, or the look at it       *)
(* throws: the attempt counts as skipped.                                    *)
JoinsUnseen(r) ==
    /\ Joining(r) /\ faults < MaxFaults
    /\ faults' = faults + 1
    /\ EntersGroup(r)
    /\ lost' = lost \cup {Of(r)}
    /\ Sets(r, [run[r] EXCEPT !.feed = @ - 1])
    /\ UNCHANGED <<tabs, day, shared, pin, rows, sitePin, made, agenda>>

(* recordAttempt, with the date of this moment; only joined rows count.      *)
Records(r) ==
    LET in == IF run[r].out = "joined" THEN 1 ELSE 0
    IN  /\ run[r].pc = "record"
        /\ rows' = [rows EXCEPT ![Of(r)][day] = @ + in]
        /\ Sets(r, [run[r] EXCEPT !.pc = "work", !.feed = @ - 1, !.done = @ + in])
        /\ UNCHANGED <<tabs, day, faults, shared, pin, lost, site>>

RecordFails(r) ==
    /\ run[r].pc = "record" /\ faults < MaxFaults
    /\ faults' = faults + 1
    /\ lost' = IF run[r].out = "joined" THEN lost \cup {Of(r)} ELSE lost
    /\ Sets(r, [run[r] EXCEPT !.pc = "work", !.feed = @ - 1])
    /\ UNCHANGED <<tabs, day, shared, pin, rows, site>>

JoinsEnough(r) ==
    /\ Works(r, {"join"}) /\ (run[r].feed = 0 \/ run[r].done >= run[r].left)
    /\ ToFinally(r, "ok")
    /\ UNCHANGED <<tabs, day, faults, shared, db, site>>
-----------------------------------------------------------------------------
(* Posts and warming *)

(* A button is clicked by text or by label, or a shortcut pressed instead;   *)
(* nothing looks whether the post has appeared.                              *)
Publishes(r) ==
    /\ ToFinally(r, "ok")
    /\ UNCHANGED <<tabs, day, faults, shared, db, site>>

PostsImage(r) == Works(r, {"post_image"}) /\ Publishes(r)
PostsVideo(r) == Works(r, {"post_video"}) /\ Publishes(r)

Activities == {"scroll_feed", "watch_video", "like_post", "view_profile", "view_stories"}

(* A like or a visit counts when there was one to make, the others always.   *)
CountsWithout(activity) == activity \notin {"like_post", "view_profile"}

(* One cycle, whose exceptions are swallowed; feed is the time that is left. *)
WarmCycle(r, activity, found) ==
    /\ Works(r, {"warm"}) /\ run[r].feed > 0
    /\ Sets(r, [run[r] EXCEPT !.feed = @ - 1,
                              !.done = IF found \/ CountsWithout(activity) THEN @ + 1 ELSE @])
    /\ UNCHANGED <<tabs, day, faults, shared, db, site>>

TimeIsUp(r) ==
    /\ Works(r, {"warm"}) /\ run[r].feed = 0
    /\ ToFinally(r, "ok")
    /\ UNCHANGED <<tabs, day, faults, shared, db, site>>
-----------------------------------------------------------------------------
(* Dual chats and calls *)

Copy(r) == run[r].copy[IF run[r].role = "A" THEN 1 ELSE 2]

(* Both sides in turn: the chat, its PIN, its notices. *)
NextSide(s) == IF s.role = "A" THEN [s EXCEPT !.role = "B", !.pc = "pin"]
               ELSE [s EXCEPT !.role = "A", !.pc = "work", !.copy = <<>>]

(* They are clicked away if they are there; a click that throws and the end  *)
(* of the wait are swallowed.                                                *)
PassesNotices(r) ==
    /\ run[r].pc = "notices"
    /\ Sets(r, NextSide(run[r]))
    /\ UNCHANGED <<tabs, day, faults, shared, db, site>>

NoDialog(r) ==
    /\ run[r].pc = "pin"
    /\ Goes(r, "notices")
    /\ UNCHANGED <<tabs, day, faults, shared, db, site>>

(* The copy of the account has a PIN, or the dialog asks for one that nobody *)
(* has told the program.                                                     *)
UsesPin(r) ==
    /\ run[r].pc = "pin"
    /\ IF Copy(r) # NoPin THEN Goes(r, "type") ELSE ToFinally(r, "failed")
    /\ UNCHANGED <<tabs, day, faults, shared, db, site>>

PinUnsaved(a, p) == pin                       \* mutation
PinSaved(a, p) == [pin EXCEPT ![a] = p]

(* A word like Create anywhere on the page makes the dialog one that creates *)
(* a PIN; without one it is generated and saved, then typed.                 *)
GeneratesPin(r, p) ==
    /\ run[r].pc = "pin" /\ Copy(r) = NoPin
    /\ pin' = PinSaved(Of(r), p)
    /\ Sets(r, [run[r] EXCEPT !.pc = "type", !.copy = [@ EXCEPT ![IF run[r].role = "A" THEN 1 ELSE 2] = p]])
    /\ UNCHANGED <<tabs, day, faults, shared, rows, lost, site>>

(* The digits reach the dialog: typing creates the PIN of an account that     *)
(* has none.                                                                 *)
FillsPin(r) ==
    IF sitePin[Of(r)] = NoPin
    THEN /\ sitePin' = [sitePin EXCEPT ![Of(r)] = Copy(r)]
         /\ made' = made \cup {Of(r)}
    ELSE UNCHANGED <<sitePin, made>>

(* The PIN is typed, twice when it is new, unless a click rejects before.     *)
(* Then the dialog clears, or its error is swallowed, or it stays and the run *)
(* fails.                                                                    *)
TypesPin(r) ==
    /\ run[r].pc = "type"
    /\ FillsPin(r) \/ UNCHANGED <<sitePin, made>>
    /\ \/ Goes(r, "notices")
       \/ ToFinally(r, "failed")
    /\ UNCHANGED <<tabs, day, faults, shared, db, real, agenda>>

(* runDualScriptChat: one message for each phase that has texts.  runDualAi- *)
(* Chat: an opening of A, then at most MaxRounds rounds of B and A, which an *)
(* empty answer of the model ends, and a call of it that fails.              *)
Sizes == {1, 2 * MaxRounds + 1}

Talks(r) ==
    /\ Works(r, {"chat"})
    /\ \E n \in Sizes : Sets(r, [run[r] EXCEPT !.done = n, !.pc = "finally", !.result = "ok"])
    /\ UNCHANGED <<tabs, day, faults, shared, db, site>>

(* sendMessage finds no input box: what was sent before is not reported.     *)
TalkBreaksOff(r) ==
    /\ Works(r, {"chat"})
    /\ ToFinally(r, "failed")
    /\ UNCHANGED <<tabs, day, faults, shared, db, site>>

(* executeAutoCall clicks the call button, often into a popup, which nothing *)
(* closes.                                                                   *)
Rings(r) == \E popup \in {{}, {"popup"}} : tabs' = [tabs EXCEPT ![r] = @ \cup popup]

(* B answers and the call lasts as long as it should; it is ended from the   *)
(* popup, or the page without one, if the button is found.                   *)
CallAnswered(r) ==
    /\ Works(r, {"call"}) /\ Rings(r)
    /\ ToFinally(r, "ok")
    /\ UNCHANGED <<day, faults, shared, db, site>>

(* There is no button to call, or half a minute later nobody has answered,   *)
(* or a click on the way rejects; the call goes on ringing.                  *)
CallUnanswered(r) ==
    /\ Works(r, {"call"}) /\ Rings(r)
    /\ ToFinally(r, "failed")
    /\ UNCHANGED <<day, faults, shared, db, site>>
-----------------------------------------------------------------------------
(* The way out, the night and crashes *)

FirstTabOnly(r) == tabs[r] \ {"A"}            \* mutation
LeftOpen(r) == tabs[r] \ {"A", "B"}

(* Each tab that is held is closed; a close that rejects is swallowed.       *)
Finishes(r) ==
    /\ run[r].pc = "finally"
    /\ \E unclosed \in SUBSET (IF tabs[r] \cap {"A", "B"} = {} THEN {} ELSE {"unclosed"}) :
        tabs' = [tabs EXCEPT ![r] = LeftOpen(r) \cup unclosed]
    /\ Sets(r, Ended(run[r]))
    /\ UNCHANGED <<day, faults, shared, db, site>>

Midnight ==
    /\ day < MaxDay /\ agenda = {"join"}     \* no other kind looks at the date
    /\ day' = day + 1
    /\ UNCHANGED <<run, tabs, faults, shared, db, site>>

(* The process dies; the browsers die with it. *)
Crash ==
    /\ faults < MaxFaults
    /\ \E r \in Run : Active(run[r])
    /\ faults' = faults + 1
    /\ run' = [r \in Run |-> Idle]
    /\ tabs' = [r \in Run |-> {}]
    /\ lost' = lost \cup {Of(r) : r \in {q \in Run : run[q].pc = "record" /\ run[q].out = "joined"}}
    /\ UNCHANGED <<day, shared, pin, rows, site>>
-----------------------------------------------------------------------------
Step(r) ==
    \/ Loads(r) \/ LoadsJoin(r) \/ Refused(r) \/ OpensTab(r) \/ HalfOpens(r) \/ LogsIn(r) \/ Visits(r)
    \/ SearchesGroups(r) \/ Throws(r)
    \/ Finds(r) \/ NoTextBox(r) \/ FindsNone(r) \/ HasEnough(r)
    \/ TriesGroup(r) \/ JoinsUnseen(r) \/ Records(r) \/ RecordFails(r) \/ JoinsEnough(r)
    \/ PostsImage(r) \/ PostsVideo(r) \/ TimeIsUp(r)
    \/ \E x \in Activities, found \in BOOLEAN : WarmCycle(r, x, found)
    \/ NoDialog(r) \/ UsesPin(r) \/ TypesPin(r) \/ PassesNotices(r)
    \/ Talks(r) \/ TalkBreaksOff(r) \/ CallAnswered(r) \/ CallUnanswered(r)
    \/ \E p \in Pin : GeneratesPin(r, p)
    \/ Finishes(r)

(* pickWarmupActions: what a window of each package may do                   *)
Candidates(package, window) ==
    CASE package = 1 -> {"warm"}
      [] package = 2 /\ window = 0 -> {"warm", "friends"}
      [] package = 2 /\ window = 1 -> {"accept", "warm"}
      [] package = 2 /\ window = 2 -> {"chat", "join", "post_image"}
      [] package = 3 /\ window = 0 -> {"chat", "friends", "comment"}
      [] package = 3 /\ window = 1 -> {"accept", "follow", "join"}
      [] package = 3 /\ window = 2 -> {"chat", "post_image", "post_video"}

WindowKinds == UNION {Candidates(package, window) : package \in 1..3, window \in 0..2}

(* findChatPartner: another account of the group; without one the chat       *)
(* becomes warming.                                                          *)
HasPartner(j) == j.kind = "chat" => j.acct[1] # j.acct[2]

(* executeWindowAction: one action of the window, for one account.  Those     *)
(* that would post are placeholders and do nothing.                          *)
InWindow(j) == j.kind \in WindowKinds \ Post /\ j.rest = <<>> /\ HasPartner(j)

(* A window of a package fires; or someone, or the runner, executes a task,   *)
(* which may be of any kind.                                                 *)
Begins(r) ==
    \/ \E j \in {i \in Job : InWindow(i)} : Starts(r, j)
    \/ \E j \in Job : Starts(r, j)

Next == (\E r \in Run : Begins(r) \/ Step(r)) \/ Midnight \/ Crash

Spec == Init /\ [][Next]_vars
-----------------------------------------------------------------------------
(* Properties *)

(* Line 166 of facebook-group-join.service.ts: no account enters more than   *)
(* dailyLimit groups on one day, over any number of executions and across    *)
(* midnight, unless two executions overlapped or a join went unrecorded.     *)
JoinsWithinLimit ==
    \A a \in Account \ (shared \cup lost) : \A d \in 0..MaxDay : real[a][d] <= Limit

(* Lines 362-372 of facebook-chat.service.ts: a PIN that the program has     *)
(* created is in the database whatever happens next, unless two executions,  *)
(* or the two sides of one, worked for the account with copies of their own. *)
PinNotLost == \A a \in made \ shared : pin[a] = sitePin[a]

(* The finally blocks: however an execution ends, in success, an exception,  *)
(* a refusal or with a combo's next action, no tab that it held is left      *)
(* without an attempt to close it.  What may stay open is the popup of a     *)
(* call, a tab that newPage opened and did not hand over, and one whose      *)
(* close was rejected.                                                       *)
TabsClosed ==
    \A r \in Run :
        run[r].pc \in {"idle", "load", "ended"} => tabs[r] \subseteq {"popup", "half", "unclosed"}

(* How far an execution is from its end: the actions of a combo to come, the *)
(* stage of this one, and in its loop what the page still offers, the clicks *)
(* and the misses that are left, and a record to be made.                    *)
Stage(s) ==
    CASE s.pc = "load"    -> 12
      [] s.pc = "open"    -> IF s.role = "A" THEN 11 ELSE 10
      [] s.pc = "login"   -> 9
      [] s.pc = "pin"     -> IF s.role = "A" THEN 8 ELSE 5
      [] s.pc = "type"    -> IF s.role = "A" THEN 7 ELSE 4
      [] s.pc = "notices" -> IF s.role = "A" THEN 6 ELSE 3
      [] s.pc \in {"visit", "search"} -> 3
      [] s.pc \in {"work", "record"} -> 2
      [] s.pc = "finally" -> 1
      [] OTHER            -> 0

ClicksLeft(s) == IF s.kind \in Social /\ s.done < Limit THEN Limit - s.done ELSE 0

Distance(s) ==
    LET loop == 2 * ((s.feed + ClicksLeft(s)) * (CommentMisses + 1) + CommentMisses - s.miss)
                    + IF s.pc = "work" THEN 1 ELSE 0
        most == 2 * (Feed + Limit + 1) * (CommentMisses + 1)
    IN  (Len(s.rest) * 13 + Stage(s)) * most + loop

(* The loops of lines 125-150, 187-210, 264-389 and 437-468 of facebook-     *)
(* social.service.ts, 218-246 of facebook-group-join.service.ts and 504-601  *)
(* of facebook-chat.service.ts: every step brings an execution closer to its *)
(* end, whatever the pages do: not even a button that stays where it was     *)
(* after each click keeps one for ever.                                      *)
RunsWindDown ==
    [][\A r \in Run : Active(run[r]) /\ run'[r] # run[r] => Distance(run'[r]) < Distance(run[r])]_vars
=============================================================================
