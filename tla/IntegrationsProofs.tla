-------------------------- MODULE IntegrationsProofs --------------------------
(***************************************************************************)
(* What a task does with a browser, proved for any accounts, jobs, limits and   *)
(* number of concurrent executions, and for pages of any length: the tabs it    *)
(* closes, the PINs it makes, the groups it joins and the way to its end.       *)
(***************************************************************************)
EXTENDS Integrations, SequenceTheorems, TLAPS

Pcs    == {"idle", "load", "open", "login", "visit", "search", "work", "record", "pin", "type",
           "notices", "finally", "ended"}
Before == {"load", "open", "login", "visit", "search", "pin", "type", "notices"}
OnePin == Pin \cup {NoPin}

RunState ==
    [kind: AllKinds \cup {"none"}, pc: Pcs, role: {"A", "B"}, acct: Seq(Account), rest: Seq(Social),
     copy: Seq(OnePin), left: Nat, done: Nat, miss: 0..5, feed: 0..Feed,
     out: {"none", "joined", "skipped"}, result: {"none", "ok", "failed"}]

(* A join that the site has let in and the history does not know yet.            *)
Pending(s) == IF s.pc = "record" /\ s.out = "joined" THEN 1 ELSE 0

(* What holds of the local state of one execution, whatever the others do.        *)
Shape(s) ==
    /\ Active(s) => /\ s.kind \in AllKinds
                    /\ Len(s.acct) \in {1, 2}
                    /\ s.kind \in Pair => Len(s.acct) = 2
    /\ s.pc \in {"pin", "type", "notices"} => s.kind \in Pair
    /\ s.pc = "record" => s.kind = "join" /\ s.feed > 0
    /\ s.role = "B" => s.kind \in Pair

Counts(s) ==
    /\ s.pc \in Before => s.done = 0 /\ s.miss = 0
    /\ s.kind \in Social => s.done <= Max(s.kind) /\ (s.pc = "work" => s.miss < Misses(s.kind))
    /\ s.kind = "join" => s.left <= Limit /\ s.done + Pending(s) <= s.left

Fits(s) == s \in RunState /\ Shape(s) /\ Counts(s)
-----------------------------------------------------------------------------
(* How far an execution is from its end *)

Level(s) == Len(s.rest) * 13 + Stage(s)
Loop(s)  == 2 * ((s.feed + ClicksLeft(s)) * (CommentMisses + 1) + CommentMisses - s.miss)
              + IF s.pc = "work" THEN 1 ELSE 0
Most     == 2 * (Feed + Limit + 1) * (CommentMisses + 1)

(* Lexicographic: an earlier stage, or the same one with less of its loop left.   *)
Closer(s, t) ==
    \/ Level(t) < Level(s)
    \/ Level(t) = Level(s) /\ Loop(t) < Loop(s)

LEMMA Stages ==
    ASSUME NEW s, s.role \in {"A", "B"}
    PROVE  /\ s.pc = "load" => Stage(s) = 12
           /\ s.pc = "open" => Stage(s) = IF s.role = "A" THEN 11 ELSE 10
           /\ s.pc = "login" => Stage(s) = 9
           /\ s.pc = "pin" => Stage(s) = IF s.role = "A" THEN 8 ELSE 5
           /\ s.pc = "type" => Stage(s) = IF s.role = "A" THEN 7 ELSE 4
           /\ s.pc = "notices" => Stage(s) = IF s.role = "A" THEN 6 ELSE 3
           /\ s.pc \in {"visit", "search"} => Stage(s) = 3
           /\ s.pc \in {"work", "record"} => Stage(s) = 2
           /\ s.pc = "finally" => Stage(s) = 1
           /\ s.pc \in {"idle", "ended"} => Stage(s) = 0
BY DEF Stage

LEMMA StageBounds == ASSUME NEW s \in RunState PROVE Stage(s) \in 0..12 /\ (Active(s) <=> Stage(s) > 0)
<1>1. s.pc \in Pcs /\ s.role \in {"A", "B"}
    BY DEF RunState
<1> QED BY <1>1, Stages DEF Pcs, Active

(* The clicks that the limit leaves *)
LEMMA Clicks ==
    ASSUME NEW s \in RunState
    PROVE  /\ Limit \in Nat /\ ClicksLeft(s) \in 0..Limit
           /\ s.kind \notin Social => ClicksLeft(s) = 0
           /\ s.kind \in Social /\ s.done < Limit => ClicksLeft(s) = Limit - s.done
           /\ s.kind \in Social /\ ~(s.done < Limit) => ClicksLeft(s) = 0
<1>1. s.done \in Nat /\ Limit \in Nat
    BY IntegrationsAssumption DEF RunState
<1> QED BY <1>1 DEF ClicksLeft

LEMMA LoopIs ==
    ASSUME NEW s \in RunState
    PROVE  Loop(s) = 14 * (s.feed + ClicksLeft(s)) + 12 - 2 * s.miss + IF s.pc = "work" THEN 1 ELSE 0
<1>1. s.feed \in Nat /\ s.miss \in 0..5 /\ ClicksLeft(s) \in Nat
    BY Clicks, IntegrationsAssumption DEF RunState
<1> QED BY <1>1 DEF Loop, CommentMisses

LEMMA LoopBounds == ASSUME NEW s \in RunState PROVE Loop(s) \in Nat /\ Loop(s) < Most /\ Most \in Nat
<1>1. s.feed \in Nat /\ s.feed <= Feed /\ s.miss \in 0..5 /\ Feed \in Nat
    BY IntegrationsAssumption DEF RunState
<1>2. Limit \in Nat /\ ClicksLeft(s) \in Nat /\ ClicksLeft(s) <= Limit
    BY Clicks
<1>3. Most = 14 * (Feed + Limit) + 14
    BY <1>1, <1>2 DEF Most, CommentMisses
<1> QED BY <1>1, <1>2, <1>3, LoopIs

(* Products with the size of a loop keep the order of levels.                    *)
LEMMA LevelsOutweighLoops ==
    ASSUME NEW m \in Nat, NEW x \in Nat, NEW y \in Nat, NEW u \in Nat, NEW v \in Nat, u < m, v < m,
           x < y \/ (x = y /\ u < v)
    PROVE  x * m + u < y * m + v
<1>1. CASE x < y
  <2>1. PICK d \in Nat : y = x + 1 + d
    <3>1. y - x - 1 \in Nat /\ y = x + 1 + (y - x - 1)
      BY <1>1
    <3> QED BY <3>1
  <2>2. d * m \in Nat /\ x * m \in Nat
    OBVIOUS
  <2>3. y * m = x * m + m + d * m
    BY <2>1
  <2> HIDE <2>1
  <2> QED BY <2>2, <2>3
<1>2. CASE x = y /\ u < v
  <2>1. x * m \in Nat
    OBVIOUS
  <2> QED BY <1>2, <2>1
<1> QED BY <1>1, <1>2

LEMMA DistanceIs == ASSUME NEW s \in RunState PROVE Distance(s) = Level(s) * Most + Loop(s)
BY DEF Distance, Level, Loop, Most

LEMMA CloserIsLess ==
    ASSUME NEW s \in RunState, NEW t \in RunState, Closer(s, t)
    PROVE  Distance(t) < Distance(s)
<1>1. Level(s) \in Nat /\ Level(t) \in Nat
  <2>1. Len(s.rest) \in Nat /\ Len(t.rest) \in Nat
    BY LenProperties DEF RunState
  <2>2. Stage(s) \in Nat /\ Stage(t) \in Nat
    BY StageBounds
  <2> QED BY <2>1, <2>2 DEF Level
<1>2. /\ Loop(s) \in Nat /\ Loop(s) < Most /\ Loop(t) \in Nat /\ Loop(t) < Most /\ Most \in Nat
    BY LoopBounds
<1> QED BY <1>1, <1>2, DistanceIs, LevelsOutweighLoops DEF Closer
LEMMA Nearer ==
    ASSUME NEW s \in RunState, NEW t \in RunState, t.rest = s.rest,
           Stage(t) < Stage(s) \/ (Stage(t) = Stage(s) /\ Loop(t) < Loop(s))
    PROVE  Closer(s, t)
<1>1. s.rest \in Seq(Social)
    BY DEF RunState
<1>2. Len(s.rest) \in Nat
    BY <1>1, LenProperties
<1>3. Stage(s) \in Nat /\ Stage(t) \in Nat
    BY StageBounds
<1> QED BY <1>2, <1>3 DEF Closer, Level
-----------------------------------------------------------------------------
(* Steps of one execution *)

Side(s)  == IF s.role = "A" THEN 1 ELSE 2
Settled  == {"idle", "load", "ended"}
Pinned   == {"open", "login", "pin", "type", "notices"}
Joins(s) == s.kind = "join" /\ Active(s) /\ s.pc # "load"

(* An execution goes on with its accounts, or with none.                        *)
Follows(s, t) == Active(t) => Active(s) /\ t.acct = s.acct

(* What its joins and its PINs rely on stays as it is.                           *)
Still(s, t) ==
    /\ Follows(s, t)
    /\ s.pc # "record" /\ t.pc # "record"
    /\ t.pc \in Settled => s.pc \in {"load", "finally"}
    /\ Joins(t) => Joins(s) /\ t.left = s.left /\ t.done = s.done
    /\ t.kind \in Pair /\ t.pc \in Pinned =>
         /\ s.kind \in Pair /\ s.pc \in Pinned /\ t.copy = s.copy
         /\ t.pc = "type" => s.copy[Side(t)] # NoPin

LEMMA KindBounds ==
    /\ \A k : Max(k) \in Nat /\ Max(k) <= Limit /\ Misses(k) \in 1..6
    /\ "friends" \in Social /\ "join" \notin Social \cup Pair /\ "chat" \notin Social /\ "none" \notin AllKinds
    /\ \A k \in Social : k \in AllKinds /\ k \notin Pair
BY IntegrationsAssumption
   DEF Max, Misses, FriendsCap, CommentMisses, FollowMisses, Social, Pair, Post, AllKinds

LEMMA IdleFits == Idle \in RunState /\ Fits(Idle)
<1>1. <<>> \in Seq(Account) /\ <<>> \in Seq(Social) /\ <<>> \in Seq(OnePin) /\ 0 \in 0..Feed
    BY IntegrationsAssumption
<1>2. Idle \in RunState
    BY <1>1 DEF RunState, Idle, Pcs
<1> QED BY <1>2, KindBounds DEF Fits, Shape, Counts, Idle, Active, Before

(* The run ends, or its combo goes on with the next action.                       *)
LEMMA EndedFits ==
    ASSUME NEW s, Fits(s), s.pc \in {"load", "finally"}
    PROVE  LET t == Ended(s) IN Fits(t) /\ Closer(s, t) /\ Still(s, t) /\ t.pc \in {"load", "ended"}
<1> DEFINE t == Ended(s)
<1>1. s \in RunState /\ Shape(s) /\ s.rest \in Seq(Social) /\ s.acct \in Seq(Account)
    BY DEF Fits, RunState
<1>2. <<>> \in Seq(Account) /\ <<>> \in Seq(Social) /\ <<>> \in Seq(OnePin) /\ Len(<<>>) = 0
    OBVIOUS
<1>3. Stage(s) \in 1..12
  <2>1. Active(s) /\ s \in RunState
    BY <1>1 DEF Active
  <2> QED BY <2>1, StageBounds
<1>4. CASE s.rest = <<>>
  <2>1. t = [Idle EXCEPT !.pc = "ended", !.kind = s.kind]
    BY <1>4 DEF Ended
  <2>2. t \in RunState /\ t.pc = "ended" /\ t.kind = s.kind /\ t.role = "A" /\ t.done = 0 /\ t.left = 0 /\ t.rest = <<>>
    <3>1. t \in RunState /\ t.pc = "ended" /\ t.kind = s.kind
      BY <1>1, <2>1, IdleFits DEF RunState, Pcs
    <3> QED BY <2>1, <3>1 DEF Idle
  <2> HIDE DEF t
  <2>3. Fits(t)
    BY <2>2, KindBounds, IntegrationsAssumption DEF Fits, Shape, Counts, Active, Before, Pending
  <2>4. Closer(s, t)
    BY <1>2, <1>3, <1>4, <2>2, Stages DEF Closer, Level
  <2>5. Still(s, t)
    BY <1>1, <2>2 DEF Still, Settled, Follows, Joins, Active, Pinned
  <2> QED BY <2>2, <2>3, <2>4, <2>5 DEF t
<1>5. CASE s.rest # <<>>
  <2>1. t = [Idle EXCEPT !.kind = Head(s.rest), !.pc = "load", !.acct = s.acct, !.rest = Tail(s.rest)]
    BY <1>5 DEF Ended
  <2>2. Head(s.rest) \in Social /\ Tail(s.rest) \in Seq(Social) /\ Len(Tail(s.rest)) = Len(s.rest) - 1 /\ Len(s.rest) \in Nat
    BY <1>1, <1>5, HeadTailProperties, LenProperties
  <2>3. /\ t \in RunState /\ t.pc = "load" /\ t.kind = Head(s.rest) /\ t.role = "A" /\ t.done = 0
        /\ t.miss = 0 /\ t.acct = s.acct /\ t.rest = Tail(s.rest)
    <3>1. Head(s.rest) \in AllKinds
      BY <2>2, KindBounds
    <3>2. t \in RunState /\ t.pc = "load" /\ t.kind = Head(s.rest) /\ t.acct = s.acct /\ t.rest = Tail(s.rest)
      BY <1>1, <2>1, <2>2, <3>1, IdleFits DEF RunState, Pcs
    <3> QED BY <2>1, <3>2 DEF Idle
  <2> HIDE DEF t
  <2>4. Fits(t)
    BY <1>1, <2>2, <2>3, KindBounds DEF Fits, Shape, Counts, Active, Before, Pending
  <2>5. Closer(s, t)
    BY <1>3, <2>2, <2>3, Stages DEF Closer, Level
  <2>6. Still(s, t)
    BY <1>1, <2>2, <2>3, KindBounds DEF Still, Settled, Follows, Joins, Active, Pinned
  <2> QED BY <2>3, <2>4, <2>5, <2>6 DEF t
<1> QED BY <1>4, <1>5

(* try ... finally, from wherever the work has got to.                            *)
LEMMA FinallyFits ==
    ASSUME NEW s, Fits(s), s.pc \in {"open", "login", "visit", "search", "work", "pin", "type"},
           NEW result \in {"ok", "failed"}
    PROVE  LET t == [s EXCEPT !.pc = "finally", !.result = result, !.copy = <<>>]
           IN  Fits(t) /\ Closer(s, t) /\ Still(s, t)
<1> DEFINE t == [s EXCEPT !.pc = "finally", !.result = result, !.copy = <<>>]
<1>1. s \in RunState /\ Shape(s) /\ Counts(s)
    BY DEF Fits
<1>2. <<>> \in Seq(OnePin)
    OBVIOUS
<1>3. /\ t \in RunState /\ t.pc = "finally" /\ t.result = result
      /\ t.kind = s.kind /\ t.role = s.role /\ t.acct = s.acct /\ t.rest = s.rest /\ t.left = s.left
      /\ t.done = s.done /\ t.miss = s.miss /\ t.feed = s.feed
    BY <1>1, <1>2 DEF RunState, Pcs
<1> HIDE DEF t
<1>4. Shape(t)
    BY <1>1, <1>3 DEF Shape, Active
<1>5. Counts(t)
  <2>1. s.done \in Nat /\ s.left \in Nat
    BY <1>1 DEF RunState
  <2> QED BY <1>1, <1>3, <2>1 DEF Counts, Before, Pending
<1>6. Closer(s, t)
  <2>1. s.role \in {"A", "B"}
    BY <1>1 DEF RunState
  <2>2. Stage(t) = 1 /\ Stage(s) \in 2..11
    BY <1>3, <2>1, Stages
  <2> QED BY <1>1, <1>3, <2>2, Nearer
<1>7. Still(s, t)
    BY <1>1, <1>3 DEF Still, Settled, Follows, Joins, Active, Pinned
<1> QED BY <1>3, <1>4, <1>5, <1>6, <1>7 DEF Fits, t

(* One execution goes on, and no join, PIN or row is concerned.                   *)
Proceeds(r) == \E t : Sets(r, t) /\ Fits(t) /\ Closer(run[r], t) /\ Still(run[r], t)

LEMMA NextStage ==
    ASSUME NEW r \in Run, NEW t, Sets(r, t), Fits(run[r]), Fits(t), t.rest = run[r].rest,
           Stage(t) < Stage(run[r]), Still(run[r], t)
    PROVE  Proceeds(r)
<1>1. Closer(run[r], t)
    BY Nearer DEF Fits
<1> QED BY <1>1 DEF Proceeds

LEMMA NextRound ==
    ASSUME NEW r \in Run, NEW t, Sets(r, t), Fits(run[r]), Fits(t), t.rest = run[r].rest,
           Stage(t) = Stage(run[r]), Loop(t) < Loop(run[r]), Still(run[r], t)
    PROVE  Proceeds(r)
<1>1. Closer(run[r], t)
    BY Nearer DEF Fits
<1> QED BY <1>1 DEF Proceeds

LEMMA EntrySteps ==
    ASSUME NEW r \in Run, Fits(run[r]),
           \/ Refused(r) \/ OpensTab(r) \/ HalfOpens(r) \/ LogsIn(r) \/ Visits(r) \/ SearchesGroups(r)
           \/ Throws(r) \/ Finishes(r)
    PROVE  Proceeds(r)
<1> DEFINE s == run[r]
<1>1. s \in RunState /\ Shape(s) /\ Counts(s) /\ s.role \in {"A", "B"}
    BY DEF Fits, RunState
<1>2. CASE Refused(r) \/ Finishes(r)
    BY <1>2, EndedFits DEF Refused, Finishes, Proceeds
<1>3. CASE Throws(r) \/ HalfOpens(r)
    BY <1>3, FinallyFits DEF Throws, HalfOpens, ToFinally, Proceeds
<1>4. CASE OpensTab(r)
  <2>1. s.pc = "open"
    BY <1>4 DEF OpensTab
  <2>2. CASE "B" \in Roles(r) /\ s.role = "A"
    <3> DEFINE t == [s EXCEPT !.role = "B"]
    <3>1. Sets(r, t) /\ s.kind \in Pair
      BY <1>4, <2>2 DEF OpensTab, Roles
    <3>2. /\ t \in RunState /\ t.role = "B" /\ t.pc = "open" /\ t.kind = s.kind /\ t.rest = s.rest /\ t.acct = s.acct
          /\ t.copy = s.copy /\ t.left = s.left /\ t.done = s.done /\ t.miss = s.miss
      BY <1>1, <2>1 DEF RunState
    <3> HIDE DEF t
    <3>3. Fits(t)
      BY <1>1, <2>1, <3>1, <3>2 DEF Fits, Shape, Counts, Active, Pending, Before
    <3>4. Stage(s) = 11 /\ Stage(t) = 10
      BY <1>1, <2>1, <2>2, <3>2, Stages
    <3>5. Still(s, t)
      BY <2>1, <3>1, <3>2, KindBounds DEF Still, Settled, Follows, Joins, Active, Pinned
    <3> QED BY <3>1, <3>2, <3>3, <3>4, <3>5, NextStage
  <2>3. CASE ~("B" \in Roles(r) /\ s.role = "A")
    <3> DEFINE t == [s EXCEPT !.role = "A", !.pc = "login"]
    <3>1. Sets(r, t)
      BY <1>4, <2>3 DEF OpensTab
    <3>2. /\ t \in RunState /\ t.role = "A" /\ t.pc = "login" /\ t.kind = s.kind /\ t.rest = s.rest /\ t.acct = s.acct
          /\ t.copy = s.copy /\ t.left = s.left /\ t.done = s.done /\ t.miss = s.miss
      BY <1>1 DEF RunState, Pcs
    <3> HIDE DEF t
    <3>3. Fits(t)
      BY <1>1, <2>1, <3>2 DEF Fits, Shape, Counts, Active, Pending, Before
    <3>4. Stage(s) \in 10..11 /\ Stage(t) = 9
      BY <1>1, <2>1, <3>2, Stages
    <3>5. Still(s, t)
      BY <2>1, <3>2 DEF Still, Settled, Follows, Joins, Active, Pinned
    <3> QED BY <3>1, <3>2, <3>3, <3>4, <3>5, NextStage
  <2> QED BY <2>2, <2>3
<1>5. CASE LogsIn(r)
  <2>1. s.pc = "login"
    BY <1>5 DEF LogsIn
  <2>2. ASSUME NEW pc, Sets(r, [s EXCEPT !.pc = pc]), pc \in {"pin", "search", "visit"}, pc = "pin" <=> s.kind \in Pair
        PROVE  Proceeds(r)
    <3> DEFINE t == [s EXCEPT !.pc = pc]
    <3>1. /\ t \in RunState /\ t.role = s.role /\ t.pc = pc /\ t.kind = s.kind /\ t.rest = s.rest /\ t.acct = s.acct
          /\ t.copy = s.copy /\ t.left = s.left /\ t.done = s.done /\ t.miss = s.miss
      BY <1>1, <2>2 DEF RunState, Pcs
    <3>0. Sets(r, t)
      BY <2>2
    <3> HIDE DEF t
    <3>2. Fits(t)
      BY <1>1, <2>1, <2>2, <3>1 DEF Fits, Shape, Counts, Active, Pending, Before
    <3>3. Stage(s) = 9 /\ Stage(t) \in 3..8
      BY <1>1, <2>1, <2>2, <3>1, Stages
    <3>4. Still(s, t)
      BY <2>1, <2>2, <3>1 DEF Still, Settled, Follows, Joins, Active, Pinned
    <3> QED BY <3>0, <3>1, <3>2, <3>3, <3>4, NextStage
  <2>3. CASE ToFinally(r, "failed")
    BY <2>1, <2>3, FinallyFits DEF ToFinally, Proceeds
  <2>4. CASE Goes(r, CASE s.kind \in Pair -> "pin" [] s.kind = "join" -> "search" [] OTHER -> "visit")
    <3> DEFINE pc == CASE s.kind \in Pair -> "pin" [] s.kind = "join" -> "search" [] OTHER -> "visit"
    <3>1. pc \in {"pin", "search", "visit"} /\ (pc = "pin" <=> s.kind \in Pair)
      BY KindBounds
    <3>2. Sets(r, [s EXCEPT !.pc = pc])
      BY <2>4 DEF Goes
    <3> HIDE DEF pc
    <3> QED BY <2>2, <3>1, <3>2
  <2> QED BY <1>5, <2>3, <2>4 DEF LogsIn
<1>6. CASE Visits(r) \/ SearchesGroups(r)
  <2>1. s.pc \in {"visit", "search"}
    BY <1>6 DEF Visits, SearchesGroups
  <2>2. PICK n \in 0..Feed : Sets(r, [s EXCEPT !.feed = n, !.pc = "work"])
    BY <1>6 DEF Visits, SearchesGroups
  <2> DEFINE t == [s EXCEPT !.feed = n, !.pc = "work"]
  <2>3. /\ t \in RunState /\ t.role = s.role /\ t.pc = "work" /\ t.kind = s.kind /\ t.rest = s.rest /\ t.acct = s.acct
        /\ t.copy = s.copy /\ t.left = s.left /\ t.done = s.done /\ t.miss = s.miss
    BY <1>1 DEF RunState, Pcs
  <2>0. Sets(r, t)
    BY <2>2
  <2> HIDE DEF t
  <2>4. Fits(t)
    BY <1>1, <2>1, <2>3, KindBounds DEF Fits, Shape, Counts, Active, Pending, Before
  <2>5. Stage(s) = 3 /\ Stage(t) = 2
    BY <1>1, <2>1, <2>3, Stages
  <2>6. Still(s, t)
    BY <2>1, <2>3 DEF Still, Settled, Follows, Joins, Active, Pinned
  <2> QED BY <2>0, <2>3, <2>4, <2>5, <2>6, NextStage
<1> QED BY <1>2, <1>3, <1>4, <1>5, <1>6

LEMMA SocialSteps ==
    ASSUME NEW r \in Run, Fits(run[r]), Finds(r) \/ NoTextBox(r) \/ FindsNone(r) \/ HasEnough(r)
    PROVE  Proceeds(r)
<1> DEFINE s == run[r]
<1>1. s \in RunState /\ Shape(s) /\ Counts(s) /\ s.role \in {"A", "B"}
    BY DEF Fits, RunState
<1>2. s.pc = "work" /\ s.kind \in Social /\ s.kind # "chat" /\ s.kind # "join" /\ s.kind \notin Pair
    BY KindBounds DEF Finds, NoTextBox, FindsNone, HasEnough, Works, Social, Pair
<1>3. s.done \in Nat /\ s.feed \in 0..Feed /\ s.miss \in 0..5 /\ s.miss < Misses(s.kind)
    BY <1>1, <1>2 DEF Counts, RunState
<1>4. /\ Feed \in Nat /\ Misses(s.kind) \in 1..6 /\ Max(s.kind) \in Nat /\ s.done <= Max(s.kind)
      /\ Limit \in Nat /\ Max(s.kind) <= Limit
    BY <1>1, <1>2, IntegrationsAssumption, KindBounds DEF Counts
(* another round of the loop, after a click, past a post or with one more miss *)
<1>5. ASSUME NEW t, Sets(r, t), t \in RunState, t.pc = "work", t.kind = s.kind, t.acct = s.acct, t.role = s.role,
             t.rest = s.rest, t.done <= Max(t.kind), t.miss < Misses(t.kind),
             14 * (t.feed + ClicksLeft(t)) - 2 * t.miss < 14 * (s.feed + ClicksLeft(s)) - 2 * s.miss
      PROVE  Proceeds(r)
  <2>1. Fits(t)
    BY <1>1, <1>2, <1>5 DEF Fits, Shape, Counts, Active, Before
  <2>2. Stage(t) = 2 /\ Stage(s) = 2
    BY <1>1, <1>2, <1>5, Stages
  <2>3. Loop(t) < Loop(s)
    <3>1. t.feed \in 0..Feed /\ t.miss \in 0..5
      BY <1>5 DEF RunState
    <3>2. ClicksLeft(t) \in Nat /\ ClicksLeft(s) \in Nat
      BY <1>1, <1>5, Clicks
    <3> QED BY <1>1, <1>2, <1>3, <1>4, <1>5, <3>1, <3>2, LoopIs
  <2>4. Still(s, t)
    BY <1>2, <1>5 DEF Still, Settled, Follows, Joins, Active
  <2> QED BY <1>5, <2>1, <2>2, <2>3, <2>4, NextRound
<1>6. CASE Finds(r)
  <2>1. s.done < Max(s.kind) /\ s.feed > 0
    BY <1>6 DEF Finds
  <2>2. PICK n \in AfterClick(s) : Sets(r, Counted(s, n))
    BY <1>6 DEF Finds
  <2>3. n \in 0..Feed /\ n <= s.feed
    BY <1>3, <1>4, <2>1, <2>2 DEF AfterClick
  <2> DEFINE d == s.done + 1
             m == 0
             t == [s EXCEPT !.done = d, !.feed = n, !.miss = m]
  <2>4. d \in Nat /\ d = s.done + 1 /\ d <= Max(s.kind) /\ d <= Limit /\ m \in 0..5 /\ m = 0 /\ Sets(r, t)
    BY <1>3, <1>4, <2>1, <2>2 DEF Counted
  <2> HIDE DEF d, m
  <2>5. /\ t \in RunState /\ t.pc = "work" /\ t.kind = s.kind /\ t.acct = s.acct /\ t.role = s.role
        /\ t.rest = s.rest /\ t.done = d /\ t.feed = n /\ t.miss = m
    BY <1>1, <1>2, <2>3, <2>4 DEF RunState
  <2> HIDE DEF t
  <2>6. ClicksLeft(t) = Limit - d /\ ClicksLeft(s) = Limit - s.done
    <3>1. s.done < Limit /\ (d < Limit \/ d = Limit)
      BY <1>3, <1>4, <2>4
    <3>2. ClicksLeft(s) = Limit - s.done
      BY <1>1, <1>2, <3>1, Clicks
    <3>3. ClicksLeft(t) = Limit - d
      BY <1>2, <1>4, <2>4, <2>5, <3>1, Clicks
    <3> QED BY <3>2, <3>3
  <2>7. 14 * (t.feed + ClicksLeft(t)) - 2 * t.miss < 14 * (s.feed + ClicksLeft(s)) - 2 * s.miss
    BY <1>3, <1>4, <2>3, <2>4, <2>5, <2>6
  <2> QED BY <1>2, <1>4, <1>5, <2>4, <2>5, <2>7
<1>7. CASE NoTextBox(r)
  <2> DEFINE f == s.feed - 1
             m == 0
             t == [s EXCEPT !.feed = f, !.miss = m]
  <2>1. Sets(r, t) /\ s.feed > 0
    BY <1>7 DEF NoTextBox, PastThePost
  <2>2. f \in 0..Feed /\ f = s.feed - 1 /\ m \in 0..5 /\ m = 0
    BY <1>3, <1>4, <2>1
  <2> HIDE DEF f, m
  <2>3. /\ t \in RunState /\ t.pc = "work" /\ t.kind = s.kind /\ t.acct = s.acct /\ t.role = s.role
        /\ t.rest = s.rest /\ t.done = s.done /\ t.feed = f /\ t.miss = m
    BY <1>1, <1>2, <2>2 DEF RunState
  <2> HIDE DEF t
  <2>4. ClicksLeft(t) = ClicksLeft(s) /\ ClicksLeft(s) \in Nat
    BY <1>1, <2>3, Clicks DEF ClicksLeft
  <2>5. 14 * (t.feed + ClicksLeft(t)) - 2 * t.miss < 14 * (s.feed + ClicksLeft(s)) - 2 * s.miss
    BY <1>3, <1>4, <2>2, <2>3, <2>4
  <2> QED BY <1>2, <1>3, <1>4, <1>5, <2>1, <2>2, <2>3, <2>5
<1>8. CASE FindsNone(r)
  <2>1. CASE s.miss + 1 >= Misses(s.kind)
    <3> DEFINE t == [s EXCEPT !.pc = "finally", !.result = "ok"]
    <3>1. Sets(r, t)
      BY <1>8, <2>1 DEF FindsNone, Missed
    <3>2. /\ t \in RunState /\ t.pc = "finally" /\ t.kind = s.kind /\ t.acct = s.acct /\ t.role = s.role
          /\ t.rest = s.rest /\ t.done = s.done
      BY <1>1 DEF RunState, Pcs
    <3> HIDE DEF t
    <3>3. Fits(t)
      BY <1>1, <1>2, <1>4, <3>2 DEF Fits, Shape, Counts, Active, Before
    <3>4. Stage(t) = 1 /\ Stage(s) = 2
      BY <1>1, <1>2, <3>2, Stages
    <3>5. Still(s, t)
      BY <1>2, <3>2 DEF Still, Settled, Follows, Joins, Active
    <3> QED BY <3>1, <3>2, <3>3, <3>4, <3>5, NextStage
  <2>2. CASE ~(s.miss + 1 >= Misses(s.kind))
    <3> DEFINE m == s.miss + 1
               t == [s EXCEPT !.miss = m]
    <3>1. Sets(r, t)
      BY <1>8, <2>2 DEF FindsNone, Missed
    <3>2. m \in 0..5 /\ m = s.miss + 1 /\ m < Misses(s.kind)
      BY <1>3, <1>4, <2>2
    <3> HIDE DEF m
    <3>3. /\ t \in RunState /\ t.pc = "work" /\ t.kind = s.kind /\ t.acct = s.acct /\ t.role = s.role
          /\ t.rest = s.rest /\ t.done = s.done /\ t.feed = s.feed /\ t.miss = m
      BY <1>1, <1>2, <3>2 DEF RunState
    <3> HIDE DEF t
    <3>4. ClicksLeft(t) = ClicksLeft(s) /\ ClicksLeft(s) \in Nat
      BY <1>1, <3>3, Clicks DEF ClicksLeft
    <3>5. 14 * (t.feed + ClicksLeft(t)) - 2 * t.miss < 14 * (s.feed + ClicksLeft(s)) - 2 * s.miss
      BY <1>3, <3>2, <3>3, <3>4
    <3> QED BY <1>2, <1>4, <1>5, <3>1, <3>2, <3>3, <3>5
  <2> QED BY <2>1, <2>2
<1>9. CASE HasEnough(r)
  BY <1>2, <1>9, FinallyFits DEF HasEnough, ToFinally, Proceeds
<1> QED BY <1>6, <1>7, <1>8, <1>9

Warms(r) == \E x \in Activities, found \in BOOLEAN : WarmCycle(r, x, found)

(* The other kinds at work: joins that are over, posts, warming, chats and calls.  *)
LEMMA WorkSteps ==
    ASSUME NEW r \in Run, Fits(run[r]),
           \/ JoinsEnough(r) \/ PostsImage(r) \/ PostsVideo(r) \/ Warms(r) \/ TimeIsUp(r)
           \/ Talks(r) \/ TalkBreaksOff(r) \/ CallAnswered(r) \/ CallUnanswered(r)
    PROVE  Proceeds(r)
<1> DEFINE s == run[r]
<1>1. s \in RunState /\ Shape(s) /\ Counts(s) /\ s.role \in {"A", "B"}
    BY DEF Fits, RunState
<1>2. s.pc = "work"
    BY DEF JoinsEnough, PostsImage, PostsVideo, Publishes, Warms, WarmCycle, TimeIsUp, Talks, TalkBreaksOff,
           CallAnswered, CallUnanswered, Works
<1>3. CASE JoinsEnough(r) \/ TimeIsUp(r) \/ CallAnswered(r) \/ CallUnanswered(r) \/ TalkBreaksOff(r)
  <2>1. \E result \in {"ok", "failed"} : ToFinally(r, result)
    BY <1>3 DEF JoinsEnough, TimeIsUp, CallAnswered, CallUnanswered, TalkBreaksOff
  <2> QED BY <1>2, <2>1, FinallyFits DEF ToFinally, Proceeds
<1>4. CASE PostsImage(r) \/ PostsVideo(r)
    BY <1>2, <1>4, FinallyFits DEF PostsImage, PostsVideo, Publishes, ToFinally, Proceeds
(* with the number of messages sent *)
<1>5. CASE Talks(r)
  <2>1. s.kind = "chat" /\ s.kind \notin Social \cup {"join"}
    BY <1>5 DEF Talks, Works, Social
  <2>2. PICK n \in Sizes : Sets(r, [s EXCEPT !.done = n, !.pc = "finally", !.result = "ok"])
    BY <1>5 DEF Talks
  <2> DEFINE t == [s EXCEPT !.done = n, !.pc = "finally", !.result = "ok"]
  <2>3. Sets(r, t) /\ n \in Nat
    BY <2>2 DEF Sizes, MaxRounds
  <2>4. t \in RunState /\ t.pc = "finally" /\ t.kind = s.kind /\ t.acct = s.acct /\ t.role = s.role /\ t.rest = s.rest
    BY <1>1, <2>3 DEF RunState, Pcs
  <2> HIDE DEF t
  <2>5. Fits(t)
    BY <1>1, <1>2, <2>1, <2>4 DEF Fits, Shape, Counts, Active, Before
  <2>6. Stage(t) = 1 /\ Stage(s) = 2
    BY <1>1, <1>2, <2>4, Stages
  <2>7. Still(s, t)
    BY <1>2, <2>1, <2>4 DEF Still, Settled, Follows, Joins, Active, Pinned
  <2> QED BY <2>3, <2>4, <2>5, <2>6, <2>7, NextStage
<1>6. CASE Warms(r)
  <2>1. PICK x \in Activities, found \in BOOLEAN : WarmCycle(r, x, found)
    BY <1>6 DEF Warms
  <2> DEFINE f == s.feed - 1
             d == IF found \/ CountsWithout(x) THEN s.done + 1 ELSE s.done
             t == [s EXCEPT !.feed = f, !.done = d]
  <2>2. s.kind = "warm" /\ s.kind \notin Social \cup {"join", "chat"} /\ s.feed > 0
    BY <2>1 DEF WarmCycle, Works, Social
  <2>3. f \in 0..Feed /\ d \in Nat
    <3>1. Feed \in Nat
      BY IntegrationsAssumption
    <3>2. s.feed \in 0..Feed /\ s.done \in Nat
      BY <1>1 DEF RunState
    <3> QED BY <2>2, <3>1, <3>2
  <2>4. Sets(r, t)
    BY <2>1 DEF WarmCycle
  <2>5. s.feed \in 0..Feed /\ s.miss \in 0..5 /\ Feed \in Nat /\ f = s.feed - 1
    BY <1>1, IntegrationsAssumption DEF RunState
  <2> HIDE DEF f, d
  <2>6. /\ t \in RunState /\ t.pc = "work" /\ t.kind = s.kind /\ t.acct = s.acct /\ t.role = s.role /\ t.rest = s.rest
        /\ t.miss = s.miss /\ t.feed = f
    BY <1>1, <1>2, <2>3 DEF RunState
  <2> HIDE DEF t
  <2>7. Fits(t)
    BY <1>1, <1>2, <2>2, <2>6 DEF Fits, Shape, Counts, Active, Before
  <2>8. Stage(t) = 2 /\ Stage(s) = 2
    BY <1>1, <1>2, <2>6, Stages
  <2>9. Loop(t) < Loop(s)
    BY <1>1, <1>2, <2>2, <2>5, <2>6, LoopIs, Clicks
  <2>10. Still(s, t)
    BY <1>2, <2>2, <2>6 DEF Still, Settled, Follows, Joins, Active, Pinned
  <2> QED BY <2>4, <2>6, <2>7, <2>8, <2>9, <2>10, NextRound
<1> QED BY <1>3, <1>4, <1>5, <1>6

LEMMA SideFits ==
    ASSUME NEW s, Fits(s), s.pc = "notices"
    PROVE  LET t == NextSide(s) IN Fits(t) /\ t.rest = s.rest /\ Stage(t) < Stage(s) /\ Still(s, t)
<1> DEFINE t == NextSide(s)
<1>1. s \in RunState /\ Shape(s) /\ Counts(s) /\ s.role \in {"A", "B"} /\ s.kind \in Pair /\ s.kind \notin Social \cup {"join"}
    BY KindBounds DEF Fits, RunState, Shape
<1>2. CASE s.role = "A"
  <2>1. t = [s EXCEPT !.role = "B", !.pc = "pin"]
    BY <1>2 DEF NextSide
  <2>2. /\ t \in RunState /\ t.pc = "pin" /\ t.role = "B" /\ t.kind = s.kind /\ t.acct = s.acct /\ t.rest = s.rest
        /\ t.copy = s.copy /\ t.done = s.done /\ t.miss = s.miss
    BY <1>1, <2>1 DEF RunState, Pcs
  <2> HIDE DEF t
  <2>3. Fits(t)
    BY <1>1, <2>2 DEF Fits, Shape, Counts, Active, Before
  <2>4. Stage(t) = 5 /\ Stage(s) = 6
    BY <1>1, <1>2, <2>2, Stages
  <2>5. Still(s, t)
    BY <1>1, <2>2 DEF Still, Settled, Follows, Joins, Active, Pinned
  <2> QED BY <2>2, <2>3, <2>4, <2>5 DEF t
<1>3. CASE s.role = "B"
  <2>1. t = [s EXCEPT !.role = "A", !.pc = "work", !.copy = <<>>]
    BY <1>3 DEF NextSide
  <2>2. /\ t \in RunState /\ t.pc = "work" /\ t.role = "A" /\ t.kind = s.kind /\ t.acct = s.acct /\ t.rest = s.rest
    <3>1. <<>> \in Seq(OnePin)
      OBVIOUS
    <3> QED BY <1>1, <2>1, <3>1 DEF RunState, Pcs
  <2> HIDE DEF t
  <2>3. Fits(t)
    BY <1>1, <2>2 DEF Fits, Shape, Counts, Active, Before
  <2>4. Stage(t) = 2 /\ Stage(s) = 3
    BY <1>1, <1>3, <2>2, Stages
  <2>5. Still(s, t)
    BY <1>1, <2>2 DEF Still, Settled, Follows, Joins, Active, Pinned
  <2> QED BY <2>2, <2>3, <2>4, <2>5 DEF t
<1> QED BY <1>1, <1>2, <1>3

LEMMA PinSteps ==
    ASSUME NEW r \in Run, Fits(run[r]), NoDialog(r) \/ UsesPin(r) \/ TypesPin(r) \/ PassesNotices(r)
    PROVE  Proceeds(r)
<1> DEFINE s == run[r]
<1>1. s \in RunState /\ Shape(s) /\ Counts(s) /\ s.role \in {"A", "B"} /\ s.pc \in {"pin", "type", "notices"}
    BY DEF Fits, RunState, NoDialog, UsesPin, TypesPin, FillsPin, PassesNotices
<1>2. CASE PassesNotices(r)
  <2>1. Sets(r, NextSide(s)) /\ s.pc = "notices"
    BY <1>2 DEF PassesNotices
  <2> QED BY <1>1, <2>1, SideFits, NextStage
<1>3. CASE ToFinally(r, "failed") /\ s.pc # "notices"
    BY <1>1, <1>3, FinallyFits DEF ToFinally, Proceeds
<1>5. CASE Goes(r, "notices") /\ s.pc # "notices"
  <2> DEFINE t == [s EXCEPT !.pc = "notices"]
  <2>1. Sets(r, t) /\ s.pc \in {"pin", "type"} /\ s.kind \in Pair
    BY <1>1, <1>5 DEF Goes, Shape
  <2>2. /\ t \in RunState /\ t.pc = "notices" /\ t.role = s.role /\ t.kind = s.kind /\ t.acct = s.acct /\ t.rest = s.rest
        /\ t.copy = s.copy /\ t.done = s.done /\ t.miss = s.miss
    BY <1>1 DEF RunState, Pcs
  <2> HIDE DEF t
  <2>3. Fits(t)
    BY <1>1, <2>1, <2>2, KindBounds DEF Fits, Shape, Counts, Active, Before, Pending
  <2>4. Stage(t) < Stage(s)
    BY <1>1, <2>1, <2>2, Stages
  <2>5. Still(s, t)
    BY <2>1, <2>2, KindBounds DEF Still, Settled, Follows, Joins, Active, Pinned
  <2> QED BY <2>1, <2>2, <2>3, <2>4, <2>5, NextStage
<1>4. CASE UsesPin(r) /\ Copy(r) # NoPin
  <2> DEFINE t == [s EXCEPT !.pc = "type"]
  <2>1. Sets(r, t) /\ s.pc = "pin" /\ s.kind \in Pair
    BY <1>1, <1>4 DEF UsesPin, Goes, Shape
  <2>2. /\ t \in RunState /\ t.pc = "type" /\ t.role = s.role /\ t.kind = s.kind /\ t.acct = s.acct /\ t.rest = s.rest
        /\ t.copy = s.copy /\ t.done = s.done /\ t.miss = s.miss
    BY <1>1 DEF RunState, Pcs
  <2> HIDE DEF t
  <2>3. Fits(t)
    BY <1>1, <2>1, <2>2, KindBounds DEF Fits, Shape, Counts, Active, Before, Pending
  <2>4. Stage(t) < Stage(s)
    BY <1>1, <2>1, <2>2, Stages
  <2>5. Still(s, t)
    BY <1>4, <2>1, <2>2, KindBounds DEF Still, Settled, Follows, Joins, Active, Pinned, Copy, Side
  <2> QED BY <2>1, <2>2, <2>3, <2>4, <2>5, NextStage
<1> QED BY <1>2, <1>3, <1>4, <1>5 DEF NoDialog, UsesPin, TypesPin, FillsPin

SiteOK ==
    /\ pin \in [Account -> OnePin] /\ sitePin \in [Account -> OnePin]
    /\ rows \in [Account -> [0..MaxDay -> Nat]] /\ real \in [Account -> [0..MaxDay -> Nat]]
    /\ day \in 0..MaxDay

LEMMA Accounts ==
    ASSUME NEW s, Fits(s), Active(s)
    PROVE  /\ s.acct \in [1..Len(s.acct) -> Account] /\ s.acct[1] \in Account /\ Len(s.acct) \in {1, 2}
           /\ s.kind \in Pair => Len(s.acct) = 2 /\ s.acct[2] \in Account
           /\ s.kind = "join" => s.role = "A"
<1>1. s.acct \in Seq(Account) /\ Len(s.acct) \in {1, 2} /\ (s.kind \in Pair => Len(s.acct) = 2) /\ s.role \in {"A", "B"}
    BY DEF Fits, Shape, RunState
<1>2. s.acct \in [1..Len(s.acct) -> Account]
    BY <1>1
<1>3. s.kind = "join" => s.role = "A"
    BY <1>1, KindBounds DEF Fits, Shape
<1> QED BY <1>1, <1>2, <1>3

(* The copies that a chat or a call takes of its accounts' PINs.                    *)
LEMMA LoadStep ==
    ASSUME SiteOK, NEW r \in Run, Fits(run[r]), Loads(r)
    PROVE  \E t : /\ Sets(r, t) /\ Fits(t) /\ Closer(run[r], t) /\ Follows(run[r], t) /\ run[r].pc = "load"
                  /\ t.pc = "open" /\ t.kind = run[r].kind /\ t.kind # "join" /\ t.acct = run[r].acct
                  /\ t.copy = [i \in DOMAIN run[r].acct |-> pin[run[r].acct[i]]]
<1> DEFINE s == run[r]
           c == [i \in DOMAIN s.acct |-> pin[s.acct[i]]]
           t == [s EXCEPT !.pc = "open", !.copy = c]
<1>1. s \in RunState /\ Shape(s) /\ Counts(s) /\ s.role \in {"A", "B"} /\ s.pc = "load" /\ s.kind # "join" /\ Active(s)
    BY DEF Fits, RunState, Loads, Active
<1>2. c \in Seq(OnePin)
  <2>1. s.acct \in [1..Len(s.acct) -> Account] /\ Len(s.acct) \in Nat
    BY <1>1, Accounts
  <2>2. c \in [1..Len(s.acct) -> OnePin]
    BY <2>1 DEF SiteOK
  <2> QED BY <2>1, <2>2
<1>3. Sets(r, t)
    BY DEF Loads
<1> HIDE DEF c
<1>4. /\ t \in RunState /\ t.pc = "open" /\ t.role = s.role /\ t.kind = s.kind /\ t.acct = s.acct /\ t.rest = s.rest
      /\ t.copy = c /\ t.done = s.done /\ t.miss = s.miss
    BY <1>1, <1>2 DEF RunState, Pcs
<1> HIDE DEF t
<1>5. Fits(t)
    BY <1>1, <1>4 DEF Fits, Shape, Counts, Active, Before
<1>6. Stage(s) = 12 /\ Stage(t) \in 10..11
    BY <1>1, <1>4, Stages
<1>7. Closer(s, t)
    BY <1>1, <1>4, <1>6, Nearer
<1>8. Follows(s, t)
    BY <1>1, <1>4 DEF Follows
<1> QED BY <1>1, <1>3, <1>4, <1>5, <1>7, <1>8 DEF c

(* What is left of the day, or the end.                                          *)
LEMMA LoadJoinStep ==
    ASSUME SiteOK, NEW r \in Run, Fits(run[r]), LoadsJoin(r)
    PROVE  /\ run[r].pc = "load" /\ run[r].kind = "join"
           /\ \/ Proceeds(r)
              \/ \E t : /\ Sets(r, t) /\ Fits(t) /\ Closer(run[r], t) /\ Follows(run[r], t)
                        /\ t.pc = "open" /\ t.kind = "join" /\ t.acct = run[r].acct /\ t.done = 0
                        /\ rows[t.acct[1]][day] < Limit /\ t.left = Limit - rows[t.acct[1]][day]
<1> DEFINE s == run[r]
           n == Remaining(r)
<1>1. s \in RunState /\ Shape(s) /\ Counts(s) /\ s.role \in {"A", "B"} /\ s.pc = "load" /\ s.kind = "join" /\ Active(s)
    BY DEF Fits, RunState, LoadsJoin, Active
<1>2. Of(r) = s.acct[1] /\ Of(r) \in Account
    BY <1>1, Accounts DEF Of
<1>3. rows[Of(r)][day] \in Nat /\ Limit \in Nat
    BY <1>2, IntegrationsAssumption DEF SiteOK
<1>4. CASE n = 0
    BY <1>1, <1>4, EndedFits DEF LoadsJoin, Proceeds
<1>5. CASE n # 0
  <2> DEFINE t == [s EXCEPT !.pc = "open", !.left = n]
  <2>1. Sets(r, t)
    BY <1>5 DEF LoadsJoin
  <2>2. rows[Of(r)][day] < Limit /\ n = Limit - rows[Of(r)][day] /\ n \in Nat /\ n <= Limit
    BY <1>3, <1>5 DEF Remaining
  <2> HIDE DEF n
  <2>3. /\ t \in RunState /\ t.pc = "open" /\ t.role = s.role /\ t.kind = s.kind /\ t.acct = s.acct /\ t.rest = s.rest
        /\ t.left = n /\ t.done = s.done /\ t.miss = s.miss
    BY <1>1, <2>2 DEF RunState, Pcs
  <2> HIDE DEF t
  <2>4. Fits(t) /\ s.done = 0
    BY <1>1, <2>2, <2>3, KindBounds DEF Fits, Shape, Counts, Active, Before, Pending
  <2>5. Stage(s) = 12 /\ Stage(t) \in 10..11
    BY <1>1, <2>3, Stages
  <2>6. Closer(s, t)
    BY <1>1, <2>3, <2>5, Nearer
  <2>7. Follows(s, t)
    BY <1>1, <2>3 DEF Follows
  <2> QED BY <1>1, <1>2, <2>1, <2>2, <2>3, <2>4, <2>6, <2>7
<1> QED BY <1>1, <1>4, <1>5

(* One group: it is tried, and then its record is made, or not.                      *)
LEMMA AtJoins ==
    ASSUME NEW s, Fits(s), s.pc \in {"work", "record"}, s.kind = "join"
    PROVE  /\ s \in RunState /\ Shape(s) /\ Counts(s) /\ s.role \in {"A", "B"} /\ s.kind \notin Social \cup Pair
           /\ s.done \in Nat /\ s.left \in Nat /\ s.feed \in 0..Feed /\ Feed \in Nat
           /\ s.miss \in 0..5 /\ s.left <= Limit /\ s.done + Pending(s) <= s.left
<1>1. s \in RunState /\ Shape(s) /\ Counts(s)
    BY DEF Fits
<1> QED BY <1>1, KindBounds, IntegrationsAssumption DEF RunState, Counts

AfterTry(s, out) == [s EXCEPT !.pc = "record", !.out = out]
AfterGroup(s, d) == [s EXCEPT !.pc = "work", !.feed = s.feed - 1, !.done = d]

LEMMA Tried ==
    ASSUME NEW s, Fits(s), s.pc = "work", s.kind = "join", s.done < s.left, s.feed > 0,
           NEW out \in {"joined", "skipped"}, NEW t, t = AfterTry(s, out)
    PROVE  /\ Fits(t) /\ Closer(s, t) /\ t.pc = "record" /\ t.kind = "join" /\ t.acct = s.acct
           /\ t.left = s.left /\ t.done = s.done /\ t.out = out
<1>1. s \in RunState /\ s.role \in {"A", "B"} /\ s.miss \in 0..5 /\ s.feed \in 0..Feed /\ Feed \in Nat
    BY AtJoins
<1>2. /\ t \in RunState /\ t.pc = "record" /\ t.role = s.role /\ t.kind = s.kind /\ t.acct = s.acct /\ t.rest = s.rest
      /\ t.left = s.left /\ t.done = s.done /\ t.miss = s.miss /\ t.feed = s.feed /\ t.out = out
    BY <1>1 DEF RunState, Pcs, AfterTry
<1>3. Pending(t) = IF out = "joined" THEN 1 ELSE 0
    BY <1>2 DEF Pending
<1>4. Fits(t)
    BY <1>2, <1>3, AtJoins, KindBounds DEF Fits, Shape, Counts, Active, Before
<1>5. Stage(s) = 2 /\ Stage(t) = 2
    BY <1>1, <1>2, Stages
<1>6. Loop(t) < Loop(s)
    BY <1>1, <1>2, LoopIs, Clicks, KindBounds
<1>7. Closer(s, t)
    BY <1>1, <1>2, <1>5, <1>6, Nearer
<1> QED BY <1>2, <1>3, <1>4, <1>7

LEMMA NextGroup ==
    ASSUME NEW s, Fits(s), s.pc \in {"work", "record"}, s.kind = "join", s.feed > 0,
           NEW d \in Nat, d <= s.left, NEW t, t = AfterGroup(s, d)
    PROVE  /\ Fits(t) /\ Closer(s, t) /\ t.pc = "work" /\ t.kind = "join" /\ t.acct = s.acct
           /\ t.left = s.left /\ t.done = d
<1> DEFINE f == s.feed - 1
<1>1. /\ f \in 0..Feed /\ f = s.feed - 1 /\ s \in RunState /\ s.role \in {"A", "B"} /\ s.miss \in 0..5
      /\ s.feed \in 0..Feed /\ Feed \in Nat
    BY AtJoins
<1>2. t = [s EXCEPT !.pc = "work", !.feed = f, !.done = d]
    BY DEF AfterGroup
<1> HIDE DEF f
<1>3. /\ t \in RunState /\ t.pc = "work" /\ t.role = s.role /\ t.kind = s.kind /\ t.acct = s.acct /\ t.rest = s.rest
      /\ t.left = s.left /\ t.done = d /\ t.miss = s.miss /\ t.feed = f
    BY <1>1, <1>2 DEF RunState, Pcs
<1>4. Fits(t)
    BY <1>3, AtJoins, KindBounds DEF Fits, Shape, Counts, Active, Before, Pending
<1>5. Stage(s) = 2 /\ Stage(t) = 2
    BY <1>1, <1>3, Stages
<1>6. Loop(t) < Loop(s)
    BY <1>1, <1>3, LoopIs, Clicks, KindBounds
<1>7. Closer(s, t)
    BY <1>1, <1>3, <1>5, <1>6, Nearer
<1> QED BY <1>3, <1>4, <1>7

LEMMA TryStep ==
    ASSUME NEW r \in Run, Fits(run[r]), TriesGroup(r)
    PROVE  \E t : /\ Sets(r, t) /\ Fits(t) /\ Closer(run[r], t)
                  /\ run[r].pc = "work" /\ run[r].kind = "join" /\ run[r].done < run[r].left
                  /\ t.pc = "record" /\ t.kind = "join" /\ t.acct = run[r].acct /\ t.left = run[r].left
                  /\ t.done = run[r].done
                  /\ (t.out = "joined" /\ EntersGroup(r)) \/ (t.out = "skipped" /\ UNCHANGED real)
<1> DEFINE s == run[r]
<1>1. s.pc = "work" /\ s.kind = "join" /\ s.done < s.left /\ s.feed > 0
    BY DEF TriesGroup, AsksNothing, AsksQuestions, TryEnds, Joining, Works
<1>2. PICK out \in {"joined", "skipped"} :
        /\ Sets(r, AfterTry(s, out))
        /\ (out = "joined" /\ EntersGroup(r)) \/ (out = "skipped" /\ UNCHANGED real)
    BY DEF TriesGroup, AsksNothing, AsksQuestions, TryEnds, AfterTry
<1> DEFINE t == AfterTry(s, out)
<1>3. Sets(r, t) /\ t = AfterTry(s, out)
    BY <1>2
<1> HIDE DEF t
<1>4. /\ Fits(t) /\ Closer(s, t) /\ t.pc = "record" /\ t.kind = "join" /\ t.acct = s.acct
      /\ t.left = s.left /\ t.done = s.done /\ t.out = out
    BY <1>1, <1>3, Tried
<1> QED BY <1>1, <1>2, <1>3, <1>4

LEMMA UnseenStep ==
    ASSUME NEW r \in Run, Fits(run[r]), JoinsUnseen(r)
    PROVE  \E t : /\ Sets(r, t) /\ Fits(t) /\ Closer(run[r], t) /\ run[r].pc = "work" /\ run[r].kind = "join"
                  /\ t.pc = "work" /\ t.kind = "join" /\ t.acct = run[r].acct /\ t.left = run[r].left
                  /\ t.done = run[r].done
<1> DEFINE s == run[r]
           t == AfterGroup(s, s.done)
<1>1. s.pc = "work" /\ s.kind = "join" /\ s.feed > 0 /\ s.done < s.left
    BY DEF JoinsUnseen, Joining, Works
<1>2. s \in RunState /\ s.done \in Nat /\ s.left \in Nat
    BY <1>1, AtJoins
<1>3. t = [s EXCEPT !.feed = @ - 1]
    BY <1>1, <1>2 DEF RunState, AfterGroup
<1>4. Sets(r, t) /\ t = AfterGroup(s, s.done) /\ s.done <= s.left
    BY <1>1, <1>2, <1>3 DEF JoinsUnseen
<1> HIDE DEF t
<1>5. Fits(t) /\ Closer(s, t) /\ t.pc = "work" /\ t.kind = "join" /\ t.acct = s.acct /\ t.left = s.left /\ t.done = s.done
  <2>1. s.pc \in {"work", "record"}
    BY <1>1
  <2> QED BY <1>1, <1>2, <1>4, <2>1, NextGroup
<1> QED BY <1>1, <1>4, <1>5

LEMMA RecordSteps ==
    ASSUME NEW r \in Run, Fits(run[r])
    PROVE  /\ Records(r) =>
                \E t : /\ Sets(r, t) /\ Fits(t) /\ Closer(run[r], t) /\ run[r].pc = "record" /\ run[r].kind = "join"
                       /\ t.pc = "work" /\ t.kind = "join" /\ t.acct = run[r].acct /\ t.left = run[r].left
                       /\ t.done = run[r].done + Pending(run[r])
           /\ RecordFails(r) =>
                \E t : /\ Sets(r, t) /\ Fits(t) /\ Closer(run[r], t) /\ run[r].pc = "record" /\ run[r].kind = "join"
                       /\ t.pc = "work" /\ t.kind = "join" /\ t.acct = run[r].acct /\ t.left = run[r].left
                       /\ t.done = run[r].done
<1> DEFINE s == run[r]
<1>1. ASSUME s.pc = "record", NEW d \in Nat, d <= s.left, Sets(r, AfterGroup(s, d))
      PROVE  \E t : /\ Sets(r, t) /\ Fits(t) /\ Closer(s, t) /\ s.kind = "join"
                    /\ t.pc = "work" /\ t.kind = "join" /\ t.acct = s.acct /\ t.left = s.left /\ t.done = d
  <2> DEFINE t == AfterGroup(s, d)
  <2>1. s.kind = "join" /\ s.feed > 0 /\ s.pc \in {"work", "record"}
    BY <1>1 DEF Fits, Shape
  <2>2. Sets(r, t) /\ t = AfterGroup(s, d)
    BY <1>1
  <2> HIDE DEF t
  <2>3. /\ Fits(t) /\ Closer(s, t) /\ t.pc = "work" /\ t.kind = "join" /\ t.acct = s.acct /\ t.left = s.left
        /\ t.done = d
    BY <1>1, <2>1, <2>2, NextGroup
  <2> QED BY <2>1, <2>2, <2>3
<1>2. ASSUME s.pc = "record"
      PROVE  /\ s \in RunState /\ s.done \in Nat /\ s.left \in Nat /\ s.done + Pending(s) <= s.left
             /\ Pending(s) \in {0, 1} /\ Pending(s) = IF s.out = "joined" THEN 1 ELSE 0
  <2>1. s.kind = "join"
    BY <1>2 DEF Fits, Shape
  <2> QED BY <1>2, <2>1, AtJoins DEF Pending
<1>3. ASSUME Records(r)
      PROVE  \E t : /\ Sets(r, t) /\ Fits(t) /\ Closer(s, t) /\ s.pc = "record" /\ s.kind = "join"
                    /\ t.pc = "work" /\ t.kind = "join" /\ t.acct = s.acct /\ t.left = s.left
                    /\ t.done = s.done + Pending(s)
  <2> DEFINE d == s.done + Pending(s)
  <2>1. s.pc = "record" /\ Sets(r, [s EXCEPT !.pc = "work", !.feed = @ - 1, !.done = @ + (IF s.out = "joined" THEN 1 ELSE 0)])
    BY <1>3 DEF Records
  <2>2. d \in Nat /\ d <= s.left /\ d = s.done + (IF s.out = "joined" THEN 1 ELSE 0)
    BY <1>2, <2>1
  <2> HIDE DEF d
  <2>3. Sets(r, AfterGroup(s, d))
    BY <2>1, <2>2 DEF AfterGroup
  <2>4. \E t : /\ Sets(r, t) /\ Fits(t) /\ Closer(s, t) /\ s.kind = "join"
               /\ t.pc = "work" /\ t.kind = "join" /\ t.acct = s.acct /\ t.left = s.left /\ t.done = d
    BY <1>1, <2>1, <2>2, <2>3
  <2> QED BY <2>1, <2>4 DEF d
<1>4. ASSUME RecordFails(r)
      PROVE  \E t : /\ Sets(r, t) /\ Fits(t) /\ Closer(s, t) /\ s.pc = "record" /\ s.kind = "join"
                    /\ t.pc = "work" /\ t.kind = "join" /\ t.acct = s.acct /\ t.left = s.left /\ t.done = s.done
  <2> DEFINE d == s.done
  <2>1. s.pc = "record" /\ Sets(r, [s EXCEPT !.pc = "work", !.feed = @ - 1])
    BY <1>4 DEF RecordFails
  <2>2. d \in Nat /\ d <= s.left
    BY <1>2, <2>1
  <2>3. Sets(r, AfterGroup(s, d))
    <3>1. AfterGroup(s, d) = [s EXCEPT !.pc = "work", !.feed = s.feed - 1]
      BY <1>2, <2>1 DEF RunState, AfterGroup
    <3> QED BY <2>1, <3>1
  <2> HIDE DEF d
  <2>4. \E t : /\ Sets(r, t) /\ Fits(t) /\ Closer(s, t) /\ s.kind = "join"
               /\ t.pc = "work" /\ t.kind = "join" /\ t.acct = s.acct /\ t.left = s.left /\ t.done = d
    BY <1>1, <2>1, <2>2, <2>3
  <2> QED BY <2>1, <2>4 DEF d
<1> QED BY <1>3, <1>4

LEMMA GenerateStep ==
    ASSUME NEW r \in Run, Fits(run[r]), NEW p \in Pin, GeneratesPin(r, p)
    PROVE  \E t : /\ Sets(r, t) /\ Fits(t) /\ Closer(run[r], t) /\ run[r].pc = "pin" /\ run[r].kind \in Pair
                  /\ t.pc = "type" /\ t.kind = run[r].kind /\ t.role = run[r].role /\ t.acct = run[r].acct
                  /\ t.copy = [run[r].copy EXCEPT ![Side(run[r])] = p]
<1> DEFINE s == run[r]
           c == [s.copy EXCEPT ![Side(s)] = p]
           t == [s EXCEPT !.pc = "type", !.copy = c]
<1>1. s \in RunState /\ Shape(s) /\ Counts(s) /\ s.role \in {"A", "B"} /\ s.pc = "pin" /\ s.kind \in Pair
    BY DEF Fits, RunState, Shape, GeneratesPin
<1>2. c \in Seq(OnePin)
  <2>1. s.copy \in Seq(OnePin)
    BY <1>1 DEF RunState
  <2>2. s.copy \in [1..Len(s.copy) -> OnePin] /\ Len(s.copy) \in Nat /\ p \in OnePin
    BY <2>1 DEF OnePin
  <2>3. c \in [1..Len(s.copy) -> OnePin]
    BY <2>2
  <2> QED BY <2>2, <2>3
<1>3. Sets(r, t)
    BY DEF GeneratesPin, Side
<1> HIDE DEF c
<1>4. /\ t \in RunState /\ t.pc = "type" /\ t.role = s.role /\ t.kind = s.kind /\ t.acct = s.acct /\ t.rest = s.rest
      /\ t.copy = c /\ t.done = s.done /\ t.miss = s.miss
    BY <1>1, <1>2 DEF RunState, Pcs
<1> HIDE DEF t
<1>5. Fits(t)
    BY <1>1, <1>4, KindBounds DEF Fits, Shape, Counts, Active, Before
<1>6. Stage(t) < Stage(s)
    BY <1>1, <1>4, Stages
<1>7. Closer(s, t)
    BY <1>1, <1>4, <1>6, Nearer
<1> QED BY <1>1, <1>3, <1>4, <1>5, <1>7 DEF c

(* The steps that change nothing but the run and its tabs, or type a PIN.            *)
Quiet(r) ==
    \/ Refused(r) \/ OpensTab(r) \/ HalfOpens(r) \/ LogsIn(r) \/ Visits(r) \/ SearchesGroups(r) \/ Throws(r)
    \/ Finishes(r) \/ Finds(r) \/ NoTextBox(r) \/ FindsNone(r) \/ HasEnough(r)
    \/ JoinsEnough(r) \/ PostsImage(r) \/ PostsVideo(r) \/ Warms(r) \/ TimeIsUp(r)
    \/ Talks(r) \/ TalkBreaksOff(r) \/ CallAnswered(r) \/ CallUnanswered(r)
    \/ NoDialog(r) \/ UsesPin(r) \/ PassesNotices(r)

LEMMA QuietSteps ==
    ASSUME NEW r \in Run, Fits(run[r]), Quiet(r)
    PROVE  Proceeds(r) /\ UNCHANGED <<pin, sitePin, rows, real, day, shared, lost, made>>
<1>1. Proceeds(r)
    BY EntrySteps, SocialSteps, WorkSteps, PinSteps DEF Quiet
<1>2. UNCHANGED <<pin, sitePin, rows, real, day, shared, lost, made>>
    BY DEF Quiet, Refused, OpensTab, HalfOpens, LogsIn, Visits, SearchesGroups, Throws, Finishes, Finds,
           NoTextBox, FindsNone, HasEnough, JoinsEnough, PostsImage, PostsVideo, Publishes, Warms, WarmCycle,
           TimeIsUp, Talks, TalkBreaksOff, CallAnswered, CallUnanswered, NoDialog, UsesPin, PassesNotices, db, site
<1> QED BY <1>1, <1>2

(* Every step of an execution is one of these.                                    *)
LEMMA StepKinds ==
    ASSUME NEW r \in Run, Step(r)
    PROVE  \/ Quiet(r) \/ Loads(r) \/ LoadsJoin(r) \/ TriesGroup(r) \/ JoinsUnseen(r) \/ Records(r) \/ RecordFails(r)
           \/ TypesPin(r) \/ \E p \in Pin : GeneratesPin(r, p)
BY DEF Step, Quiet, Warms

LEMMA StepsAhead ==
    ASSUME SiteOK, NEW r \in Run, Fits(run[r]), Step(r)
    PROVE  \E t : /\ Sets(r, t) /\ Fits(t) /\ Closer(run[r], t) /\ Follows(run[r], t)
                  /\ t.pc \in Settled => run[r].pc \in {"load", "finally"}
<1>1. CASE Proceeds(r)
    BY <1>1 DEF Proceeds, Still
<1>2. CASE Loads(r)
    BY <1>2, LoadStep DEF Settled
<1>3. CASE LoadsJoin(r)
    BY <1>1, <1>3, LoadJoinStep DEF Settled
<1>4. CASE TriesGroup(r)
    BY <1>4, TryStep DEF Settled, Follows, Active
<1>5. CASE JoinsUnseen(r)
    BY <1>5, UnseenStep DEF Settled, Follows, Active
<1>6. CASE Records(r) \/ RecordFails(r)
    BY <1>6, RecordSteps DEF Settled, Follows, Active
<1>7. CASE \E p \in Pin : GeneratesPin(r, p)
    BY <1>7, GenerateStep DEF Settled, Follows, Active
<1> QED BY <1>1, <1>2, <1>3, <1>4, <1>5, <1>6, <1>7, QuietSteps, PinSteps, StepKinds
-----------------------------------------------------------------------------
(* Types, and the way to the end *)

RunsOK == run \in [Run -> RunState] /\ \A r \in Run : Fits(run[r])

LEMMA RunMoves ==
    ASSUME RunsOK, NEW r \in Run, NEW t, Sets(r, t), Fits(t)
    PROVE  RunsOK' /\ run'[r] = t /\ \A q \in Run \ {r} : run'[q] = run[q]
BY DEF RunsOK, Sets, Fits

LEMMA StartFits ==
    ASSUME NEW r \in Run, NEW j \in Job, Starts(r, j)
    PROVE  \E t : Sets(r, t) /\ Fits(t) /\ t.pc = "load" /\ t.acct = j.acct /\ ~Active(run[r])
<1> DEFINE t == [Idle EXCEPT !.kind = j.kind, !.pc = "load", !.acct = j.acct, !.rest = j.rest]
<1>1. Sets(r, t) /\ ~Active(run[r])
    BY DEF Starts
<1>2. /\ j.kind \in AllKinds /\ j.acct \in Seq(Account) /\ j.rest \in Seq(Social)
      /\ Len(j.acct) = IF j.kind \in Pair THEN 2 ELSE 1
    BY IntegrationsAssumption
<1>3. t \in RunState /\ t.pc = "load" /\ t.kind = j.kind /\ t.acct = j.acct
    BY <1>2, IdleFits DEF RunState, Pcs
<1>4. t.role = "A" /\ t.done = 0 /\ t.miss = 0 /\ t.left = 0
    BY DEF Idle
<1> HIDE DEF t
<1>5. Shape(t)
    BY <1>2, <1>3, <1>4, KindBounds DEF Shape, Active
<1>6. Counts(t)
  <2>1. Max(t.kind) \in Nat /\ Limit \in Nat /\ Pending(t) = 0
    BY <1>3, KindBounds, IntegrationsAssumption DEF Pending
  <2> QED BY <1>3, <1>4, <2>1 DEF Counts
<1> QED BY <1>1, <1>3, <1>5, <1>6 DEF Fits

(* The copies of PINs, from the load of a pair until its sides are both through; *)
(* none is typed that is not there.                                              *)
Copied(s) ==
    s.kind \in Pair /\ s.pc \in Pinned =>
        /\ s.copy \in [1..2 -> OnePin]
        /\ s.pc = "type" => s.copy[Side(s)] # NoPin

CopiesOK == \A r \in Run : Copied(run[r])

LEMMA SideOf == ASSUME NEW s \in RunState PROVE Side(s) \in 1..2
BY DEF RunState, Side

LEMMA StillCopied ==
    ASSUME NEW s, NEW t, Copied(s), Still(s, t) PROVE Copied(t)
BY DEF Copied, Still

LEMMA CopiesStep ==
    ASSUME SiteOK, RunsOK, CopiesOK, [Next]_vars PROVE CopiesOK'
<1>1. ASSUME NEW r \in Run, NEW t, Sets(r, t), Fits(t), Copied(t) PROVE CopiesOK'
    BY <1>1, RunMoves DEF CopiesOK
<1>2. ASSUME NEW r \in Run, Step(r) PROVE CopiesOK'
  <2> DEFINE s == run[r]
  <2>1. Fits(s) /\ s \in RunState /\ Side(s) \in 1..2 /\ Copied(s)
    BY SideOf DEF RunsOK, CopiesOK
  <2>2. CASE Proceeds(r)
    BY <1>1, <2>1, <2>2, StillCopied DEF Proceeds
  <2>3. CASE Loads(r)
    <3>1. PICK t : /\ Sets(r, t) /\ Fits(t) /\ s.pc = "load" /\ t.pc = "open" /\ t.kind = s.kind
                   /\ t.copy = [i \in DOMAIN s.acct |-> pin[s.acct[i]]]
      BY <2>1, <2>3, LoadStep
    <3>2. s.kind \in Pair => DOMAIN s.acct = 1..2 /\ s.acct \in [1..2 -> Account]
      BY <2>1, <3>1, Accounts DEF Active
    <3>3. Copied(t)
      BY <3>1, <3>2 DEF Copied, SiteOK
    <3> QED BY <1>1, <3>1, <3>3
  <2>4. CASE LoadsJoin(r)
    BY <1>1, <2>1, <2>2, <2>4, LoadJoinStep, KindBounds DEF Copied
  <2>5. CASE TriesGroup(r)
    BY <1>1, <2>1, <2>5, TryStep DEF Copied, Pinned
  <2>6. CASE JoinsUnseen(r)
    BY <1>1, <2>1, <2>6, UnseenStep DEF Copied, Pinned
  <2>7. CASE Records(r) \/ RecordFails(r)
    BY <1>1, <2>1, <2>7, RecordSteps DEF Copied, Pinned
  <2>8. CASE \E p \in Pin : GeneratesPin(r, p)
    <3>0. PICK p \in Pin : GeneratesPin(r, p)
      BY <2>8
    <3>1. PICK t : /\ Sets(r, t) /\ Fits(t) /\ s.pc = "pin" /\ s.kind \in Pair /\ t.pc = "type"
                   /\ t.role = s.role /\ t.copy = [s.copy EXCEPT ![Side(s)] = p]
      BY <2>1, <3>0, GenerateStep
    <3>2. s.copy \in [1..2 -> OnePin] /\ p # NoPin /\ p \in OnePin /\ Side(t) = Side(s)
      BY <2>1, <3>1, IntegrationsAssumption DEF Copied, Pinned, OnePin, Side
    <3>3. Copied(t)
      BY <2>1, <3>1, <3>2 DEF Copied
    <3> QED BY <1>1, <3>1, <3>3
  <2> QED BY <1>2, <2>1, <2>2, <2>3, <2>4, <2>5, <2>6, <2>7, <2>8, QuietSteps, PinSteps, StepKinds
<1>3. ASSUME NEW r \in Run, NEW j \in Job, Starts(r, j) PROVE CopiesOK'
    BY <1>1, <1>3, StartFits DEF Copied, Pinned
<1>4. CASE Crash
    BY <1>4 DEF Crash, CopiesOK, Copied, Idle, Pair
<1>5. CASE Midnight \/ UNCHANGED vars
    BY <1>5 DEF Midnight, vars, CopiesOK
<1> QED BY <1>2, <1>3, <1>4, <1>5 DEF Next, Begins

Tab    == {"A", "B", "popup", "half", "unclosed"}
Strays == {"popup", "half", "unclosed"}

TabsOK == tabs \in [Run -> SUBSET Tab]

(* Every variable has its type, and every execution a local state that fits its     *)
(* kind and its stage.                                                          *)
TypeOK ==
    /\ SiteOK /\ RunsOK /\ CopiesOK /\ TabsOK
    /\ faults \in 0..MaxFaults /\ agenda \in Agendas
    /\ shared \subseteq Account /\ lost \subseteq Account /\ made \subseteq Account

LEMMA TypesInit == Init => TypeOK
<1> SUFFICES ASSUME Init PROVE TypeOK
    OBVIOUS
<1>1. /\ run = [r \in Run |-> Idle] /\ tabs = [r \in Run |-> {}] /\ agenda \in Agendas
      /\ rows = [a \in Account |-> [d \in 0..MaxDay |-> 0]] /\ real = rows /\ day = 0 /\ faults = 0
      /\ shared = {} /\ lost = {} /\ made = {}
    BY DEF Init
<1>2. MaxDay \in Nat /\ MaxFaults \in Nat
    BY IntegrationsAssumption
<1>3. pin \in [Account -> OnePin] /\ sitePin \in [Account -> OnePin]
  <2>1. CASE agenda = Pair
    <3>0. agenda \in Agendas /\ IF agenda = Pair
             THEN LET p == CHOOSE p \in Pin : TRUE
                  IN  pin \in [Account -> {NoPin, p}] /\ sitePin \in [Account -> {NoPin, p}]
             ELSE pin = [a \in Account |-> NoPin] /\ sitePin = pin
      BY DEF Init
    <3>1. PICK p : p = (CHOOSE q \in Pin : TRUE) /\ pin \in [Account -> {NoPin, p}] /\ sitePin \in [Account -> {NoPin, p}]
      BY <2>1, <3>0
    <3>2. p \in Pin
      BY <3>1, IntegrationsAssumption
    <3> QED BY <3>1, <3>2 DEF OnePin
  <2>2. CASE agenda # Pair
    BY <2>2 DEF Init, OnePin
  <2> QED BY <2>1, <2>2
<1>4. RunsOK
    BY <1>1, IdleFits DEF RunsOK
<1>5. CopiesOK
    BY <1>1 DEF CopiesOK, Copied, Idle, Pair
<1>6. SiteOK
    BY <1>1, <1>2, <1>3 DEF SiteOK
<1> QED BY <1>1, <1>2, <1>4, <1>5, <1>6 DEF TypeOK, TabsOK

(* The account that a step works for.                                              *)
LEMMA OfAccount ==
    ASSUME NEW r \in Run, Fits(run[r]), Active(run[r])
    PROVE  Of(r) \in Account /\ Of(r) = run[r].acct[Side(run[r])]
<1>1. run[r].role \in {"A", "B"} /\ (run[r].role = "B" => run[r].kind \in Pair)
    BY DEF Fits, RunState, Shape
<1> QED BY <1>1, Accounts DEF Of, Side

OneMore(f, a, d, n) == [f EXCEPT ![a][d] = @ + n]

LEMMA CountedOnce ==
    ASSUME NEW f \in [Account -> [0..MaxDay -> Nat]], NEW a \in Account, NEW d \in 0..MaxDay, NEW n \in Nat
    PROVE  LET g == OneMore(f, a, d, n)
           IN  /\ g \in [Account -> [0..MaxDay -> Nat]]
               /\ g[a][d] = f[a][d] + n
               /\ \A b \in Account, c \in 0..MaxDay : b # a \/ c # d => g[b][c] = f[b][c]
<1> DEFINE m == f[a][d] + n
           h == [f[a] EXCEPT ![d] = m]
           g == [f EXCEPT ![a] = h]
<1>1. f[a] \in [0..MaxDay -> Nat] /\ f[a][d] \in Nat
    OBVIOUS
<1>2. m \in Nat
    BY <1>1
<1>3. OneMore(f, a, d, n) = g
    BY DEF OneMore
<1> HIDE DEF m
<1>4. h \in [0..MaxDay -> Nat] /\ h[d] = m /\ \A c \in 0..MaxDay : c # d => h[c] = f[a][c]
    BY <1>1, <1>2
<1> HIDE DEF h
<1>5. /\ g \in [Account -> [0..MaxDay -> Nat]] /\ g[a] = h
      /\ \A b \in Account : b # a => g[b] = f[b]
    BY <1>4
<1> HIDE DEF g
<1>6. /\ g \in [Account -> [0..MaxDay -> Nat]] /\ g[a][d] = m
      /\ \A b \in Account, c \in 0..MaxDay : b # a \/ c # d => g[b][c] = f[b][c]
    BY <1>4, <1>5
<1> QED BY <1>3, <1>6 DEF m

LEMMA SiteStep == ASSUME TypeOK, [Next]_vars PROVE SiteOK'
<1>1. ASSUME NEW r \in Run, Step(r) PROVE SiteOK'
  <2>1. Fits(run[r]) /\ Copied(run[r]) /\ run[r] \in RunState
    BY DEF TypeOK, RunsOK, CopiesOK
  <2>2. CASE Quiet(r)
    BY <2>1, <2>2, QuietSteps DEF TypeOK, SiteOK
  <2>3. CASE Loads(r) \/ LoadsJoin(r) \/ RecordFails(r)
    BY <2>3 DEF Loads, LoadsJoin, RecordFails, TypeOK, SiteOK, db, site
  <2>4. CASE TriesGroup(r) \/ JoinsUnseen(r)
    <3>1. Of(r) \in Account
      BY <2>1, <2>4, OfAccount DEF TriesGroup, AsksNothing, AsksQuestions, TryEnds, JoinsUnseen, Joining, Works, Active
    <3>2. EntersGroup(r) => real' \in [Account -> [0..MaxDay -> Nat]]
      <4>1. EntersGroup(r) => real' = OneMore(real, Of(r), day, 1)
        BY DEF EntersGroup, OneMore
      <4>2. 1 \in Nat /\ day \in 0..MaxDay /\ real \in [Account -> [0..MaxDay -> Nat]]
        BY DEF TypeOK, SiteOK
      <4> QED BY <3>1, <4>1, <4>2, CountedOnce
    <3> QED BY <2>4, <3>2 DEF TriesGroup, AsksNothing, AsksQuestions, TryEnds, JoinsUnseen, TypeOK, SiteOK, db
  <2>5. CASE Records(r)
    <3>1. Of(r) \in Account
      BY <2>1, <2>5, OfAccount DEF Records, Active
    <3>2. PICK n \in {0, 1} : rows' = [rows EXCEPT ![Of(r)][day] = @ + n]
      BY <2>5 DEF Records
    <3>3. rows' \in [Account -> [0..MaxDay -> Nat]]
      <4>1. rows' = OneMore(rows, Of(r), day, n)
        BY <3>2 DEF OneMore
      <4>2. n \in Nat /\ day \in 0..MaxDay /\ rows \in [Account -> [0..MaxDay -> Nat]]
        BY DEF TypeOK, SiteOK
      <4> QED BY <3>1, <4>1, <4>2, CountedOnce
    <3> QED BY <2>5, <3>3 DEF Records, TypeOK, SiteOK, site
  <2>6. CASE TypesPin(r)
    <3>1. Of(r) \in Account
      BY <2>1, <2>6, OfAccount DEF TypesPin, FillsPin, Active
    <3>2. Copy(r) \in OnePin
      BY <2>1, <2>6, SideOf DEF TypesPin, FillsPin, Copied, Pinned, Copy, Side, Fits, Shape
    <3> QED BY <2>6, <3>1, <3>2 DEF TypesPin, FillsPin, TypeOK, SiteOK, db
  <2>7. CASE \E p \in Pin : GeneratesPin(r, p)
    <3>1. PICK p \in Pin : GeneratesPin(r, p)
      BY <2>7
    <3>2. pin' \in [Account -> OnePin]
      BY <3>1 DEF GeneratesPin, PinSaved, TypeOK, SiteOK, OnePin
    <3> QED BY <3>1, <3>2 DEF GeneratesPin, TypeOK, SiteOK, site
  <2> QED BY <1>1, <2>2, <2>3, <2>4, <2>5, <2>6, <2>7, StepKinds
<1>2. ASSUME NEW r \in Run, NEW j \in Job, Starts(r, j) PROVE SiteOK'
    BY <1>2 DEF Starts, TypeOK, SiteOK, db, site
<1>3. CASE Midnight
    BY <1>3, IntegrationsAssumption DEF Midnight, TypeOK, SiteOK, db, site
<1>4. CASE Crash
    BY <1>4 DEF Crash, TypeOK, SiteOK, db, site
<1>5. CASE UNCHANGED vars
    BY <1>5 DEF vars, TypeOK, SiteOK
<1> QED BY <1>1, <1>2, <1>3, <1>4, <1>5 DEF Next, Begins

LEMMA RunsStep == ASSUME TypeOK, [Next]_vars PROVE RunsOK'
<1>1. ASSUME NEW r \in Run, Step(r) PROVE RunsOK'
    BY <1>1, StepsAhead, RunMoves DEF TypeOK, RunsOK
<1>2. ASSUME NEW r \in Run, NEW j \in Job, Starts(r, j) PROVE RunsOK'
    BY <1>2, StartFits, RunMoves DEF TypeOK
<1>3. CASE Crash
    BY <1>3, IdleFits DEF Crash, RunsOK
<1>4. CASE Midnight \/ UNCHANGED vars
    BY <1>4 DEF Midnight, vars, TypeOK, RunsOK
<1> QED BY <1>1, <1>2, <1>3, <1>4 DEF Next, Begins

(* Tabs are opened one by one, a call may add its popup, and the end closes those     *)
(* that are held, or leaves one that will not close.                                 *)
LEMMA TabSteps ==
    ASSUME TypeOK, NEW r \in Run, Step(r)
    PROVE  \/ tabs' = tabs /\ run[r].pc # "finally"
           \/ run[r].pc \in {"open", "work"} /\ \E x \in SUBSET Tab : tabs' = [tabs EXCEPT ![r] = tabs[r] \cup x]
           \/ /\ run[r].pc = "finally"
              /\ \E x \in SUBSET {"unclosed"} : tabs' = [tabs EXCEPT ![r] = (tabs[r] \ {"A", "B"}) \cup x]
<1>1. CASE OpensTab(r)
  <2>1. {run[r].role} \in SUBSET Tab
    BY DEF TypeOK, RunsOK, RunState, Tab
  <2>2. run[r].pc = "open" /\ tabs' = [tabs EXCEPT ![r] = tabs[r] \cup {run[r].role}]
    BY <1>1 DEF OpensTab
  <2> QED BY <2>1, <2>2
<1>2. CASE CallAnswered(r) \/ CallUnanswered(r)
  <2>1. run[r].pc = "work" /\ Rings(r)
    BY <1>2 DEF CallAnswered, CallUnanswered, Works
  <2>2. PICK x \in {{}, {"popup"}} : tabs' = [tabs EXCEPT ![r] = tabs[r] \cup x]
    BY <2>1 DEF Rings
  <2> QED BY <2>1, <2>2 DEF Tab
<1>3. CASE Finishes(r)
  <2>1. PICK x \in SUBSET (IF tabs[r] \cap {"A", "B"} = {} THEN {} ELSE {"unclosed"}) :
          tabs' = [tabs EXCEPT ![r] = LeftOpen(r) \cup x]
    BY <1>3 DEF Finishes
  <2>2. x \in SUBSET {"unclosed"}
    OBVIOUS
  <2> QED BY <1>3, <2>1, <2>2 DEF Finishes, LeftOpen
<1>7. CASE HalfOpens(r)
  <2>1. {"half"} \in SUBSET Tab /\ run[r].pc = "open" /\ tabs' = [tabs EXCEPT ![r] = tabs[r] \cup {"half"}]
    BY <1>7 DEF HalfOpens, Tab
  <2> QED BY <2>1
<1>4. CASE \/ Refused(r) \/ LogsIn(r) \/ Visits(r) \/ SearchesGroups(r) \/ Throws(r) \/ Finds(r)
           \/ NoTextBox(r) \/ FindsNone(r) \/ HasEnough(r) \/ JoinsEnough(r) \/ PostsImage(r) \/ PostsVideo(r)
    BY <1>4 DEF Refused, LogsIn, Visits, SearchesGroups, Throws, Finds, NoTextBox, FindsNone, HasEnough,
           JoinsEnough, PostsImage, PostsVideo, Publishes, Works
<1>5. CASE Warms(r) \/ TimeIsUp(r) \/ Talks(r) \/ TalkBreaksOff(r) \/ NoDialog(r) \/ UsesPin(r)
           \/ PassesNotices(r)
    BY <1>5 DEF Warms, WarmCycle, TimeIsUp, Talks, TalkBreaksOff, NoDialog, UsesPin, PassesNotices, Works
<1>6. CASE \/ Loads(r) \/ LoadsJoin(r) \/ TriesGroup(r) \/ JoinsUnseen(r) \/ Records(r) \/ RecordFails(r) \/ TypesPin(r)
           \/ \E p \in Pin : GeneratesPin(r, p)
    BY <1>6 DEF Loads, LoadsJoin, TriesGroup, AsksNothing, AsksQuestions, TryEnds, JoinsUnseen, Joining, Works, Records, RecordFails, TypesPin, FillsPin, GeneratesPin
<1> QED BY <1>1, <1>2, <1>3, <1>4, <1>5, <1>6, <1>7, StepKinds DEF Quiet

LEMMA OthersStep ==
    ASSUME TypeOK, [Next]_vars
    PROVE  /\ TabsOK' /\ faults' \in 0..MaxFaults /\ agenda' \in Agendas
           /\ shared' \subseteq Account /\ lost' \subseteq Account /\ made' \subseteq Account
<1>1. MaxFaults \in Nat
    BY IntegrationsAssumption
<1>2. ASSUME NEW r \in Run, Step(r)
      PROVE  /\ TabsOK' /\ faults' \in 0..MaxFaults /\ agenda' = agenda
             /\ shared' = shared /\ lost' \subseteq Account /\ made' \subseteq Account
  <2>1. Fits(run[r]) /\ run[r] \in RunState
    BY DEF TypeOK, RunsOK
  <2>2. CASE Quiet(r)
    <3>1. TabsOK'
      BY <1>2, TabSteps DEF TypeOK, TabsOK, Tab
    <3>2. UNCHANGED <<faults, agenda>>
      BY <2>2 DEF Quiet, Refused, OpensTab, HalfOpens, LogsIn, Visits, SearchesGroups, Throws, Finishes, Finds,
           NoTextBox, FindsNone, HasEnough, JoinsEnough, PostsImage, PostsVideo, Publishes, Warms, WarmCycle,
           TimeIsUp, Talks, TalkBreaksOff, CallAnswered, CallUnanswered, NoDialog, UsesPin, PassesNotices, site
    <3> QED BY <2>1, <2>2, <3>1, <3>2, QuietSteps DEF TypeOK
  <2>3. CASE Loads(r) \/ LoadsJoin(r) \/ TriesGroup(r) \/ Records(r)
    BY <2>3 DEF Loads, LoadsJoin, TriesGroup, AsksNothing, AsksQuestions, TryEnds, Records, TypeOK, TabsOK, db, site
  <2>4. CASE JoinsUnseen(r) \/ RecordFails(r)
    <3>1. Of(r) \in Account
      BY <2>1, <2>4, OfAccount DEF JoinsUnseen, RecordFails, Joining, Works, Active
    <3> QED BY <1>1, <2>4, <3>1 DEF JoinsUnseen, RecordFails, TypeOK, TabsOK, site
  <2>5. CASE TypesPin(r)
    <3>1. Of(r) \in Account
      BY <2>1, <2>5, OfAccount DEF TypesPin, FillsPin, Active
    <3> QED BY <2>5, <3>1 DEF TypesPin, FillsPin, TypeOK, TabsOK, db
  <2>6. CASE \E p \in Pin : GeneratesPin(r, p)
    BY <2>6 DEF GeneratesPin, TypeOK, TabsOK, site
  <2> QED BY <1>2, <2>2, <2>3, <2>4, <2>5, <2>6, StepKinds
<1>3. ASSUME NEW r \in Run, NEW j \in Job, Starts(r, j)
      PROVE  /\ TabsOK' /\ faults' \in 0..MaxFaults /\ agenda' = agenda
             /\ shared' \subseteq Account /\ lost' \subseteq Account /\ made' \subseteq Account
  <2>1. AccountsOf(j) \subseteq Account
    <3>1. j.acct \in Seq(Account)
      BY IntegrationsAssumption
    <3>2. j.acct \in [1..Len(j.acct) -> Account]
      BY <3>1
    <3> QED BY <3>2 DEF AccountsOf
  <2>2. shared' \subseteq Account
    BY <1>3, <2>1 DEF Starts, TypeOK
  <2> QED BY <1>3, <2>2 DEF Starts, TypeOK, TabsOK, db, site
<1>4. CASE Midnight
    BY <1>4 DEF Midnight, TypeOK, TabsOK, db, site
<1>5. CASE Crash
  <2>1. \A r \in Run : run[r].pc = "record" => Of(r) \in Account
    BY OfAccount DEF TypeOK, RunsOK, Active
  <2>2. lost' \subseteq Account
    BY <1>5, <2>1 DEF Crash, TypeOK
  <2> QED BY <1>1, <1>5, <2>2 DEF Crash, TypeOK, TabsOK, site
<1>6. CASE UNCHANGED vars
    BY <1>6 DEF vars, TypeOK, TabsOK
<1> QED BY <1>2, <1>3, <1>4, <1>5, <1>6 DEF Next, Begins, TypeOK

LEMMA TypesStep == TypeOK /\ [Next]_vars => TypeOK'
<1> SUFFICES ASSUME TypeOK, [Next]_vars PROVE TypeOK'
    OBVIOUS
<1>1. SiteOK' /\ RunsOK' /\ CopiesOK'
    BY SiteStep, RunsStep, CopiesStep DEF TypeOK
<1> QED BY <1>1, OthersStep DEF TypeOK

(* Every variable keeps its type, an execution never has more misses, things on      *)
(* offer or joins than its loop allows, and what it counts fits its stage.           *)
THEOREM IntegrationsTypeCorrect == Spec => []TypeOK
BY TypesInit, TypesStep, PTL DEF Spec

(* The loops of facebook-social.service.ts and facebook-group-join.service.ts end,   *)
(* whatever the pages show: every step of an execution, a crash included, lessens    *)
(* a distance to its end that is a natural number.                                  *)
THEOREM ExecutionsWindDown == Spec => RunsWindDown
<1>1. ASSUME TypeOK, Next, NEW r \in Run, Active(run[r]), run'[r] # run[r]
      PROVE  Distance(run'[r]) < Distance(run[r])
  <2>1. RunsOK /\ SiteOK /\ Fits(run[r]) /\ run[r] \in RunState
    BY <1>1 DEF TypeOK, RunsOK
  <2>2. ASSUME NEW q \in Run, Step(q) PROVE Distance(run'[r]) < Distance(run[r])
    <3>1. PICK t : Sets(q, t) /\ Fits(t) /\ Closer(run[q], t)
      BY <2>1, <2>2, StepsAhead DEF RunsOK
    <3>2. q = r /\ run'[r] = t /\ t \in RunState
      BY <1>1, <2>1, <3>1, RunMoves DEF Fits
    <3> QED BY <2>1, <3>1, <3>2, CloserIsLess
  <2>3. ASSUME NEW q \in Run, NEW j \in Job, Starts(q, j) PROVE FALSE
    BY <1>1, <2>1, <2>3, StartFits, RunMoves
  <2>4. CASE Midnight
    BY <1>1, <2>4 DEF Midnight
  <2>5. CASE Crash
    <3>1. run'[r] = Idle
      BY <2>5 DEF Crash
    <3>2. Idle \in RunState /\ Idle.pc = "idle" /\ Idle.rest = <<>> /\ Idle.role = "A" /\ Len(<<>>) = 0
      BY IdleFits DEF Idle
    <3>3. Level(Idle) = 0
      BY <3>2, Stages DEF Level
    <3>4. Stage(run[r]) \in 1..12 /\ Len(run[r].rest) \in Nat
      <4>1. run[r].rest \in Seq(Social)
        BY <2>1 DEF RunState
      <4> QED BY <1>1, <2>1, <4>1, StageBounds, LenProperties
    <3>5. Level(run[r]) > 0
      BY <3>4 DEF Level
    <3> QED BY <2>1, <3>1, <3>2, <3>3, <3>5, CloserIsLess DEF Closer
  <2> QED BY <1>1, <2>2, <2>3, <2>4, <2>5 DEF Next, Begins
<1>2. TypeOK /\ [Next]_vars => [\A r \in Run : Active(run[r]) /\ run'[r] # run[r] => Distance(run'[r]) < Distance(run[r])]_vars
    BY <1>1
<1> QED BY <1>2, IntegrationsTypeCorrect, PTL DEF Spec, RunsWindDown

(* The tabs of an execution that has not begun its work, or has ended.                *)
TabsGone == \A r \in Run : run[r].pc \in Settled => tabs[r] \subseteq Strays

LEMMA TabsStep == TypeOK /\ TabsGone /\ [Next]_vars => TabsGone'
<1> SUFFICES ASSUME TypeOK, TabsGone, [Next]_vars PROVE TabsGone'
    OBVIOUS
<1>1. RunsOK /\ tabs \in [Run -> SUBSET Tab]
    BY DEF TypeOK, TabsOK
<1>2. ASSUME NEW r \in Run, Step(r) PROVE TabsGone'
  <2>1. PICK t : Sets(r, t) /\ Fits(t) /\ (t.pc \in Settled => run[r].pc \in {"load", "finally"})
    BY <1>2, StepsAhead DEF TypeOK, RunsOK
  <2>2. run'[r] = t /\ \A q \in Run \ {r} : run'[q] = run[q]
    BY <1>1, <2>1, RunMoves
  <2>3. \A q \in Run \ {r} : tabs'[q] = tabs[q]
    BY <1>1, <1>2, TabSteps
  <2>4. t.pc \in Settled => tabs'[r] \subseteq Strays
    <3>1. CASE run[r].pc = "load"
      BY <1>1, <1>2, <3>1, TabSteps DEF TabsGone, Settled
    <3>2. CASE run[r].pc = "finally"
      <4>1. PICK x \in SUBSET {"unclosed"} : tabs' = [tabs EXCEPT ![r] = (tabs[r] \ {"A", "B"}) \cup x]
        BY <1>2, <3>2, TabSteps
      <4>2. tabs'[r] = (tabs[r] \ {"A", "B"}) \cup x /\ tabs[r] \subseteq Tab
        BY <1>1, <4>1
      <4> QED BY <4>2 DEF Tab, Strays
    <3> QED BY <2>1, <3>1, <3>2
  <2> QED BY <2>2, <2>3, <2>4 DEF TabsGone
<1>3. ASSUME NEW r \in Run, NEW j \in Job, Starts(r, j) PROVE TabsGone'
  <2>1. PICK t : Sets(r, t) /\ Fits(t)
    BY <1>3, StartFits
  <2>2. \A q \in Run \ {r} : run'[q] = run[q]
    BY <1>1, <2>1, RunMoves
  <2>3. tabs' = [tabs EXCEPT ![r] = {}]
    BY <1>3 DEF Starts
  <2> QED BY <1>1, <2>2, <2>3 DEF TabsGone
<1>4. CASE Crash
    BY <1>4 DEF Crash, TabsGone
<1>5. CASE Midnight \/ UNCHANGED vars
    BY <1>5 DEF Midnight, vars, TabsGone
<1> QED BY <1>2, <1>3, <1>4, <1>5 DEF Next, Begins

(* The finally blocks: whether an execution succeeds, fails at any step, dies with    *)
(* the process or goes on with a combo's next action, every tab that it held has been *)
(* closed or its close was rejected.  Call popups and tabs whose credentials were     *)
(* rejected are never held.                                                       *)
THEOREM NoTabLeftBehind == Spec => []TabsClosed
<1>1. Init => TabsGone
    BY DEF Init, TabsGone
<1>2. TabsGone => TabsClosed
    BY DEF TabsGone, TabsClosed, Settled, Strays
<1> QED BY <1>1, <1>2, TabsStep, IntegrationsTypeCorrect, PTL DEF Spec
-----------------------------------------------------------------------------
(* Who works for an account *)

(* Two executions, or the two sides of one, only work for the same account if it is   *)
(* among the shared ones.                                                         *)
Apart ==
    /\ \A q \in Run, r \in Run :
         q # r /\ Active(run[q]) /\ Active(run[r]) => AccountsOf(run[q]) \cap AccountsOf(run[r]) \subseteq shared
    /\ \A r \in Run : Active(run[r]) /\ Len(run[r].acct) = 2 /\ run[r].acct[1] = run[r].acct[2] => run[r].acct[1] \in shared

LEMMA SharedKept == ASSUME NEW r \in Run, Step(r) PROVE shared' = shared
<1>1. CASE \/ Refused(r) \/ OpensTab(r) \/ LogsIn(r) \/ Visits(r) \/ SearchesGroups(r) \/ Throws(r) \/ Finishes(r)
           \/ Finds(r) \/ HalfOpens(r) \/ NoTextBox(r) \/ FindsNone(r) \/ HasEnough(r) \/ Loads(r) \/ LoadsJoin(r)
    BY <1>1 DEF Refused, OpensTab, HalfOpens, LogsIn, Visits, SearchesGroups, Throws, Finishes, Finds,
           NoTextBox, FindsNone, HasEnough, Loads, LoadsJoin
<1>2. CASE \/ JoinsEnough(r) \/ PostsImage(r) \/ PostsVideo(r) \/ Warms(r) \/ TimeIsUp(r) \/ Talks(r) \/ TalkBreaksOff(r)
           \/ CallAnswered(r) \/ CallUnanswered(r) \/ NoDialog(r) \/ UsesPin(r) \/ PassesNotices(r)
    BY <1>2 DEF JoinsEnough, PostsImage, PostsVideo, Publishes, Warms, WarmCycle, TimeIsUp, Talks, TalkBreaksOff,
           CallAnswered, CallUnanswered, NoDialog, UsesPin, PassesNotices
<1>3. CASE TriesGroup(r) \/ JoinsUnseen(r) \/ Records(r) \/ RecordFails(r) \/ TypesPin(r) \/ \E p \in Pin : GeneratesPin(r, p)
    BY <1>3 DEF TriesGroup, AsksNothing, AsksQuestions, TryEnds, JoinsUnseen, Records, RecordFails, TypesPin, FillsPin, GeneratesPin
<1> QED BY <1>1, <1>2, <1>3, StepKinds DEF Quiet

LEMMA ApartStep == TypeOK /\ Apart /\ [Next]_vars => Apart'
<1> SUFFICES ASSUME TypeOK, Apart, [Next]_vars PROVE Apart'
    OBVIOUS
<1>1. RunsOK
    BY DEF TypeOK
<1>2. ASSUME NEW r \in Run, Step(r) PROVE Apart'
  <2>1. PICK t : Sets(r, t) /\ Fits(t) /\ Follows(run[r], t)
    BY <1>2, StepsAhead DEF TypeOK, RunsOK
  <2>2. run'[r] = t /\ \A q \in Run \ {r} : run'[q] = run[q]
    BY <1>1, <2>1, RunMoves
  <2>3. \A q \in Run : Active(run'[q]) => Active(run[q]) /\ run'[q].acct = run[q].acct
    BY <2>1, <2>2 DEF Follows
  <2> QED BY <1>2, <2>3, SharedKept DEF Apart, AccountsOf
<1>3. ASSUME NEW r \in Run, NEW j \in Job, Starts(r, j) PROVE Apart'
  <2>1. PICK t : Sets(r, t) /\ t.acct = j.acct /\ Fits(t)
    BY <1>3, StartFits
  <2>2. run'[r] = t /\ \A q \in Run \ {r} : run'[q] = run[q]
    BY <1>1, <2>1, RunMoves
  <2>3. /\ \A a \in AccountsOf(j) : (j.acct = <<a, a>> \/ \E q \in Run \ {r} : Active(run[q]) /\ a \in AccountsOf(run[q]))
                                       => a \in shared'
        /\ shared \subseteq shared'
    BY <1>3 DEF Starts
  <2>4. AccountsOf(t) = AccountsOf(j)
    BY <2>1 DEF AccountsOf
  <2>5. ASSUME NEW q \in Run \ {r}, Active(run[q]) PROVE AccountsOf(run[q]) \cap AccountsOf(t) \subseteq shared'
    BY <2>3, <2>4, <2>5
  <2>6. \A q \in Run, u \in Run : q # u /\ Active(run'[q]) /\ Active(run'[u])
                                    => AccountsOf(run'[q]) \cap AccountsOf(run'[u]) \subseteq shared'
    BY <2>2, <2>3, <2>5 DEF Apart
  <2>7. ASSUME Len(t.acct) = 2, t.acct[1] = t.acct[2] PROVE t.acct[1] \in shared'
    <3>1. j.acct \in Seq(Account) /\ Len(j.acct) = 2 /\ j.acct[1] = j.acct[2]
      BY <2>1, <2>7, IntegrationsAssumption
    <3>2. j.acct = <<j.acct[1], j.acct[1]>> /\ 1 \in DOMAIN j.acct
      BY <3>1
    <3>3. j.acct[1] \in AccountsOf(j)
      BY <3>2 DEF AccountsOf
    <3> QED BY <2>1, <2>3, <3>2, <3>3
  <2>8. \A q \in Run : Active(run'[q]) /\ Len(run'[q].acct) = 2 /\ run'[q].acct[1] = run'[q].acct[2]
                          => run'[q].acct[1] \in shared'
    BY <2>2, <2>3, <2>7 DEF Apart
  <2> QED BY <2>6, <2>8 DEF Apart
<1>4. CASE Crash
    BY <1>4 DEF Crash, Apart, Idle, Active
<1>5. CASE Midnight \/ UNCHANGED vars
    BY <1>5 DEF Midnight, vars, Apart
<1> QED BY <1>2, <1>3, <1>4, <1>5 DEF Next, Begins

(* An execution that joins works for its first account.                           *)
LEMMA JoinsFor ==
    ASSUME NEW r \in Run, Fits(run[r]), run[r].kind = "join"
    PROVE  Active(run[r]) => Of(r) = run[r].acct[1]
BY Accounts DEF Of

LEMMA AloneFor ==
    ASSUME TypeOK, Apart, NEW r \in Run, Active(run[r]), NEW q \in Run, q # r, Active(run[q]),
           run[q].acct[1] = run[r].acct[1]
    PROVE  run[r].acct[1] \in shared
<1>1. /\ run[r].acct \in [1..Len(run[r].acct) -> Account] /\ Len(run[r].acct) \in {1, 2}
      /\ run[q].acct \in [1..Len(run[q].acct) -> Account] /\ Len(run[q].acct) \in {1, 2}
    BY Accounts DEF TypeOK, RunsOK
<1>2. run[r].acct[1] \in AccountsOf(run[r]) /\ run[q].acct[1] \in AccountsOf(run[q])
    BY <1>1 DEF AccountsOf
<1> QED BY <1>2 DEF Apart
-----------------------------------------------------------------------------
(* Groups joined in a day *)

(* An execution whose group has let account a in and whose record is to come.        *)
Awaited(a) == \E r \in Run : Active(run[r]) /\ run[r].acct[1] = a /\ Pending(run[r]) = 1

(* The history of an account knows all its groups of the day but the one awaited, and *)
(* what its execution may still join fits into the day with them.                   *)
Within(a) ==
    /\ \A d \in 0..MaxDay : real[a][d] <= Limit
    /\ real[a][day] <= rows[a][day] + 1
    /\ ~Awaited(a) => real[a][day] <= rows[a][day]
    /\ \A r \in Run : Joins(run[r]) /\ run[r].acct[1] = a =>
                         real[a][day] + run[r].left <= Limit + run[r].done + Pending(run[r])

NoneAhead == \A a \in Account, d \in 0..MaxDay : d > day => real[a][d] = 0

JoinsOK == NoneAhead /\ \A a \in Account \ (shared \cup lost) : Within(a)

LEMMA PendingIs ==
    ASSUME NEW s PROVE Pending(s) \in {0, 1} /\ (s.pc # "record" => Pending(s) = 0)
BY DEF Pending

(* A step that is about another account, or about no group of this one.              *)
LEMMA WithinElse ==
    ASSUME TypeOK, NEW r \in Run, NEW t, Sets(r, t), Fits(t), Active(run[r]), Follows(run[r], t),
           NEW a \in Account, Within(a), day' = day,
           \A d \in 0..MaxDay : real'[a][d] = real[a][d] /\ rows'[a][d] = rows[a][d],
           run[r].acct[1] = a => /\ Pending(run[r]) = 0 /\ Pending(t) = 0
                                 /\ Joins(t) => Joins(run[r]) /\ t.left = run[r].left /\ t.done = run[r].done
    PROVE  Within(a)'
<1>1. run'[r] = t /\ \A q \in Run \ {r} : run'[q] = run[q]
    BY RunMoves DEF TypeOK
<1>2. day \in 0..MaxDay
    BY DEF TypeOK, SiteOK
<1>3. Active(t) => t.acct = run[r].acct
    BY DEF Follows
<1>4. Awaited(a) => Awaited(a)'
  <2> SUFFICES ASSUME NEW q \in Run, Active(run[q]), run[q].acct[1] = a, Pending(run[q]) = 1 PROVE Awaited(a)'
      BY DEF Awaited
  <2>1. q # r
    OBVIOUS
  <2>2. run'[q] = run[q]
    BY <1>1, <2>1
  <2> QED BY <2>2 DEF Awaited
<1>5. real'[a][day'] = real[a][day] /\ rows'[a][day'] = rows[a][day]
    BY <1>2
<1>6. ASSUME NEW q \in Run, Joins(run'[q]), run'[q].acct[1] = a
      PROVE  real'[a][day'] + run'[q].left <= Limit + run'[q].done + Pending(run'[q])
  <2>1. CASE q # r
    BY <1>1, <1>5, <1>6, <2>1 DEF Within
  <2>2. CASE q = r
    <3>1. t.acct[1] = run[r].acct[1] /\ Joins(t)
      BY <1>1, <1>3, <1>6, <2>2 DEF Joins
    <3>2. Joins(run[r]) /\ t.left = run[r].left /\ t.done = run[r].done /\ Pending(t) = Pending(run[r])
      BY <1>1, <1>6, <2>2, <3>1
    <3>3. real[a][day] + run[r].left <= Limit + run[r].done + Pending(run[r])
      BY <1>1, <1>6, <2>2, <3>1, <3>2 DEF Within
    <3> QED BY <1>1, <1>5, <2>2, <3>2, <3>3
  <2> QED BY <2>1, <2>2
<1>7. \A d \in 0..MaxDay : real'[a][d] <= Limit
    BY DEF Within
<1>8. /\ real'[a][day'] <= rows'[a][day'] + 1
      /\ ~Awaited(a)' => real'[a][day'] <= rows'[a][day']
    BY <1>4, <1>5 DEF Within
<1> QED BY <1>6, <1>7, <1>8 DEF Within

(* What an execution finds left of the day is right: nobody else joins for it.        *)
LEMMA NotAwaited ==
    ASSUME TypeOK, Apart, NEW r \in Run, Active(run[r]), Pending(run[r]) = 0, run[r].acct[1] \notin shared
    PROVE  ~Awaited(run[r].acct[1])
BY AloneFor DEF Awaited

LEMMA Ranges ==
    ASSUME TypeOK, NEW a \in Account
    PROVE  /\ Limit \in Nat /\ day \in 0..MaxDay /\ real[a][day] \in Nat /\ rows[a][day] \in Nat
           /\ real \in [Account -> [0..MaxDay -> Nat]] /\ rows \in [Account -> [0..MaxDay -> Nat]]
BY IntegrationsAssumption DEF TypeOK, SiteOK

LEMMA WithinLoads ==
    ASSUME TypeOK, Apart, NEW r \in Run, LoadsJoin(r), NEW a \in Account, Within(a), a \notin shared
    PROVE  Within(a)'
<1> DEFINE s == run[r]
<1>1. /\ Fits(s) /\ s.pc = "load" /\ Active(s) /\ Pending(s) = 0 /\ day' = day /\ real' = real /\ rows' = rows
      /\ SiteOK /\ s.kind = "join"
    BY PendingIs DEF TypeOK, RunsOK, LoadsJoin, Active, db, site
<1>2. CASE Proceeds(r)
  <2>1. PICK t : Sets(r, t) /\ Fits(t) /\ Still(s, t)
    BY <1>2 DEF Proceeds
  <2> QED BY <1>1, <2>1, WithinElse, PendingIs DEF Still
<1>3. ASSUME NEW t, Sets(r, t), Fits(t), Follows(s, t), t.pc = "open", t.kind = "join", t.acct = s.acct, t.done = 0,
             rows[t.acct[1]][day] < Limit, t.left = Limit - rows[t.acct[1]][day]
      PROVE  Within(a)'
  <2>1. CASE s.acct[1] # a
    BY <1>1, <1>3, <2>1, WithinElse
  <2>2. CASE s.acct[1] = a
    <3>1. run'[r] = t /\ \A q \in Run \ {r} : run'[q] = run[q]
      BY <1>3, RunMoves DEF TypeOK
    <3>2. real[a][day] <= rows[a][day]
      BY <1>1, <2>2, NotAwaited DEF Within
    <3>3. real'[a][day'] = real[a][day] /\ rows'[a][day'] = rows[a][day] /\ Pending(t) = 0
      BY <1>1, <1>3, PendingIs
    <3>4. ASSUME NEW q \in Run, Joins(run'[q]), run'[q].acct[1] = a
          PROVE  real'[a][day'] + run'[q].left <= Limit + run'[q].done + Pending(run'[q])
      <4>1. CASE q # r
        BY <3>1, <3>3, <3>4, <4>1 DEF Within
      <4>2. CASE q = r
        <5>1. real[a][day] + t.left <= Limit
          BY <1>3, <2>2, <3>2, Ranges
        <5>2. run'[q] = t /\ t.done = 0
          BY <1>3, <3>1, <4>2
        <5>3. real'[a][day'] + t.left <= Limit + 0 + 0
          BY <3>3, <5>1, Ranges
        <5> QED BY <3>3, <5>2, <5>3
      <4> QED BY <4>1, <4>2
    <3>5. \A d \in 0..MaxDay : real'[a][d] <= Limit
      BY <1>1 DEF Within
    <3>6. real'[a][day'] <= rows'[a][day'] /\ real'[a][day'] <= rows'[a][day'] + 1
      BY <3>2, <3>3, Ranges
    <3> QED BY <3>4, <3>5, <3>6 DEF Within
  <2> QED BY <2>1, <2>2
<1> QED BY <1>1, <1>2, <1>3, LoadJoinStep

(* An execution enters one group more only while it may join one more.              *)
LEMMA WithinTries ==
    ASSUME TypeOK, Apart, NEW r \in Run, TriesGroup(r), NEW a \in Account, Within(a), a \notin shared
    PROVE  Within(a)'
<1> DEFINE s == run[r]
<1>1. Fits(s) /\ rows' = rows /\ day' = day
    BY DEF TypeOK, RunsOK, TriesGroup, AsksNothing, AsksQuestions, TryEnds, db
<1>2. PICK t : /\ Sets(r, t) /\ Fits(t) /\ s.pc = "work" /\ s.kind = "join" /\ s.done < s.left
               /\ t.pc = "record" /\ t.kind = "join" /\ t.acct = s.acct /\ t.left = s.left /\ t.done = s.done
               /\ (t.out = "joined" /\ EntersGroup(r)) \/ (t.out = "skipped" /\ UNCHANGED real)
    BY <1>1, TryStep
<1>3. /\ Active(s) /\ Follows(s, t) /\ Joins(s) /\ Joins(t) /\ Of(r) = s.acct[1] /\ Pending(s) = 0
      /\ Of(r) \in Account /\ s.left \in Nat /\ s.done \in Nat
    BY <1>1, <1>2, JoinsFor, OfAccount, AtJoins, PendingIs DEF Active, Follows, Joins
<1>4. CASE t.out = "skipped" /\ UNCHANGED real
  <2>1. Pending(t) = 0
    BY <1>4 DEF Pending
  <2> QED BY <1>1, <1>2, <1>3, <1>4, <2>1, WithinElse
<1>5. CASE t.out = "joined" /\ EntersGroup(r)
  <2>1. real' = OneMore(real, Of(r), day, 1) /\ Pending(t) = 1
    BY <1>2, <1>5 DEF EntersGroup, OneMore, Pending
  <2>2. /\ real'[Of(r)][day] = real[Of(r)][day] + 1
        /\ \A b \in Account, c \in 0..MaxDay : b # Of(r) \/ c # day => real'[b][c] = real[b][c]
    <3>1. 1 \in Nat /\ real \in [Account -> [0..MaxDay -> Nat]] /\ day \in 0..MaxDay
      BY DEF TypeOK, SiteOK
    <3> QED BY <1>3, <2>1, <3>1, CountedOnce
  <2>3. CASE s.acct[1] # a
    BY <1>1, <1>2, <1>3, <2>2, <2>3, WithinElse
  <2>4. CASE s.acct[1] = a
    <3>1. run'[r] = t /\ \A q \in Run \ {r} : run'[q] = run[q]
      BY <1>2, RunMoves DEF TypeOK
    <3>2. real[a][day] <= rows[a][day]
      BY <1>3, <2>4, NotAwaited DEF Within
    <3>3. real'[a][day'] = real[a][day] + 1 /\ rows'[a][day'] = rows[a][day]
      BY <1>1, <1>3, <2>2, <2>4
    <3>4. real[a][day] + s.left <= Limit + s.done
      <4>1. real[a][day] + s.left <= Limit + s.done + Pending(s)
        BY <1>3, <2>4 DEF Within
      <4> QED BY <1>3, <4>1, Ranges
    <3>5. real'[a][day'] <= Limit
      <4>1. real[a][day] \in Nat /\ Limit \in Nat /\ s.left \in Nat /\ s.done \in Nat /\ s.done < s.left
        BY <1>2, <1>3, Ranges
      <4>2. real[a][day] + 1 <= Limit
        BY <3>4, <4>1
      <4> QED BY <3>3, <4>2
    <3>6. \A d \in 0..MaxDay : real'[a][d] <= Limit
      BY <1>1, <2>2, <3>5, Ranges DEF Within
    <3>7. Awaited(a)'
      BY <1>2, <2>1, <2>4, <3>1 DEF Awaited, Active
    <3>8. ASSUME NEW q \in Run, Joins(run'[q]), run'[q].acct[1] = a
          PROVE  real'[a][day'] + run'[q].left <= Limit + run'[q].done + Pending(run'[q])
      <4>1. q = r
        BY <1>3, <2>4, <3>1, <3>8, AloneFor DEF Joins
      <4>2. run'[q] = t
        BY <3>1, <4>1
      <4>3. real[a][day] + 1 + s.left <= Limit + s.done + 1
        <5>1. real[a][day] \in Nat /\ Limit \in Nat
          BY Ranges
        <5>2. s.left \in Nat /\ s.done \in Nat
          BY <1>3
        <5> QED BY <3>4, <5>1, <5>2
      <4> QED BY <1>2, <2>1, <3>3, <4>2, <4>3
    <3>9. real'[a][day'] <= rows'[a][day'] + 1
      BY <3>2, <3>3, Ranges
    <3> QED BY <3>6, <3>7, <3>8, <3>9 DEF Within
  <2> QED BY <2>3, <2>4
<1> QED BY <1>2, <1>4, <1>5

(* A record makes the history know the group that was awaited.                     *)
LEMMA WithinRecords ==
    ASSUME TypeOK, Apart, NEW r \in Run, Records(r), NEW a \in Account, Within(a), a \notin shared
    PROVE  Within(a)'
<1> DEFINE s == run[r]
<1>1. Fits(s) /\ real' = real /\ day' = day
    BY DEF TypeOK, RunsOK, Records, site
<1>2. PICK t : /\ Sets(r, t) /\ Fits(t) /\ s.pc = "record" /\ s.kind = "join"
               /\ t.pc = "work" /\ t.kind = "join" /\ t.acct = s.acct /\ t.left = s.left /\ t.done = s.done + Pending(s)
    BY <1>1, RecordSteps
<1>3. /\ Active(s) /\ Follows(s, t) /\ Joins(s) /\ Joins(t) /\ Of(r) = s.acct[1] /\ Pending(t) = 0
      /\ Of(r) \in Account /\ s.left \in Nat /\ s.done \in Nat /\ Pending(s) \in {0, 1}
    BY <1>1, <1>2, JoinsFor, OfAccount, AtJoins, PendingIs DEF Active, Follows, Joins
<1>4. /\ rows'[Of(r)][day] = rows[Of(r)][day] + Pending(s)
      /\ \A b \in Account, c \in 0..MaxDay : b # Of(r) \/ c # day => rows'[b][c] = rows[b][c]
  <2>1. rows' = OneMore(rows, Of(r), day, Pending(s))
    BY <1>2 DEF Records, OneMore, Pending
  <2>2. PICK n \in Nat : n = Pending(s)
    BY <1>3
  <2>3. rows \in [Account -> [0..MaxDay -> Nat]] /\ day \in 0..MaxDay /\ Of(r) \in Account
    BY <1>3 DEF TypeOK, SiteOK
  <2>4. rows' = OneMore(rows, Of(r), day, n)
    BY <2>1, <2>2
  <2>5. /\ rows'[Of(r)][day] = rows[Of(r)][day] + n
        /\ \A b \in Account, c \in 0..MaxDay : b # Of(r) \/ c # day => rows'[b][c] = rows[b][c]
    BY <2>3, <2>4, CountedOnce
  <2> QED BY <2>2, <2>5
<1>5. CASE s.acct[1] # a
    BY <1>1, <1>2, <1>3, <1>4, <1>5, WithinElse
<1>6. CASE s.acct[1] = a
  <2>1. run'[r] = t /\ \A q \in Run \ {r} : run'[q] = run[q]
    BY <1>2, RunMoves DEF TypeOK
  <2>2. real'[a][day'] = real[a][day] /\ rows'[a][day'] = rows[a][day] + Pending(s)
    BY <1>1, <1>3, <1>4, <1>6
  <2>3. real[a][day] <= rows[a][day] + Pending(s)
    <3>1. CASE Pending(s) = 0
      BY <1>3, <1>6, <3>1, NotAwaited, Ranges DEF Within
    <3>2. CASE Pending(s) = 1
      BY <3>2, Ranges DEF Within
    <3> QED BY <1>3, <3>1, <3>2
  <2>4. ASSUME NEW q \in Run, Joins(run'[q]), run'[q].acct[1] = a
        PROVE  real'[a][day'] + run'[q].left <= Limit + run'[q].done + Pending(run'[q])
    <3>1. q = r
      BY <1>3, <1>6, <2>1, <2>4, AloneFor DEF Joins
    <3>2. real[a][day] + s.left <= Limit + s.done + Pending(s)
      BY <1>3, <1>6 DEF Within
    <3>3. run'[q] = t
      BY <2>1, <3>1
    <3>4. real[a][day] + s.left <= Limit + (s.done + Pending(s)) + 0
      BY <1>3, <3>2, Ranges
    <3> QED BY <1>2, <1>3, <2>2, <3>3, <3>4
  <2>5. \A d \in 0..MaxDay : real'[a][d] <= Limit
    BY <1>1 DEF Within
  <2>6. real'[a][day'] <= rows'[a][day'] /\ real'[a][day'] <= rows'[a][day'] + 1
    BY <1>3, <2>2, <2>3, Ranges
  <2> QED BY <2>4, <2>5, <2>6 DEF Within
<1> QED BY <1>5, <1>6

LEMMA WithinStep ==
    ASSUME TypeOK, Apart, NEW r \in Run, Step(r), NEW a \in Account, Within(a), a \notin shared, a \notin lost'
    PROVE  Within(a)'
<1> DEFINE s == run[r]
<1>1. Fits(s) /\ SiteOK
    BY DEF TypeOK, RunsOK
<1>2. CASE Proceeds(r) /\ UNCHANGED <<rows, real, day>>
  <2>1. PICK t : Sets(r, t) /\ Fits(t) /\ Still(s, t)
    BY <1>2 DEF Proceeds
  <2>2. Active(s)
    <3>1. ~Active(s) => ~Step(r)
      BY DEF Step, Active, Loads, LoadsJoin, Refused, OpensTab, HalfOpens, LogsIn, Visits, SearchesGroups, Throws, Finds,
             NoTextBox, FindsNone, HasEnough, TriesGroup, AsksNothing, AsksQuestions, TryEnds, JoinsUnseen, Joining, Records, RecordFails,
             JoinsEnough, PostsImage, PostsVideo, TimeIsUp, WarmCycle, NoDialog, UsesPin, TypesPin, PassesNotices, Talks,
             TalkBreaksOff, CallAnswered, CallUnanswered, GeneratesPin, Finishes, Works
    <3> QED BY <3>1
  <2> QED BY <1>2, <2>1, <2>2, WithinElse, PendingIs DEF Still
<1>3. CASE Loads(r)
  <2>1. PICK t : Sets(r, t) /\ Fits(t) /\ Follows(s, t) /\ s.pc = "load" /\ t.pc = "open" /\ t.kind # "join"
    BY <1>1, <1>3, LoadStep
  <2>2. UNCHANGED <<rows, real, day>>
    BY <1>3 DEF Loads, db, site
  <2> QED BY <2>1, <2>2, WithinElse, PendingIs DEF Active, Joins
<1>4. CASE \E p \in Pin : GeneratesPin(r, p)
  <2>1. PICK t : Sets(r, t) /\ Fits(t) /\ s.pc = "pin" /\ s.kind \in Pair /\ t.pc = "type" /\ t.kind = s.kind /\ t.acct = s.acct
    BY <1>1, <1>4, GenerateStep
  <2>2. UNCHANGED <<rows, real, day>>
    BY <1>4 DEF GeneratesPin, site
  <2>3. t.kind # "join"
    BY <2>1, KindBounds
  <2> QED BY <2>1, <2>2, <2>3, WithinElse, PendingIs DEF Active, Joins, Follows
<1>5. CASE JoinsUnseen(r)
  <2>1. PICK t : /\ Sets(r, t) /\ Fits(t) /\ s.pc = "work" /\ s.kind = "join" /\ t.pc = "work" /\ t.acct = s.acct
    BY <1>1, <1>5, UnseenStep
  <2>2. Active(s) /\ Follows(s, t) /\ Of(r) = s.acct[1] /\ Of(r) \in Account
    BY <1>1, <2>1, JoinsFor, OfAccount DEF Active, Follows
  <2>3. a # s.acct[1] /\ rows' = rows /\ day' = day /\ real' = OneMore(real, Of(r), day, 1)
    BY <1>5, <2>2 DEF JoinsUnseen, EntersGroup, OneMore
  <2>4. \A d \in 0..MaxDay : real'[a][d] = real[a][d]
    <3>1. 1 \in Nat /\ real \in [Account -> [0..MaxDay -> Nat]] /\ day \in 0..MaxDay
      BY DEF TypeOK, SiteOK
    <3>2. \A b \in Account, c \in 0..MaxDay : b # Of(r) \/ c # day => real'[b][c] = real[b][c]
      BY <2>2, <2>3, <3>1, CountedOnce
    <3> QED BY <2>2, <2>3, <3>2
  <2> QED BY <2>1, <2>2, <2>3, <2>4, WithinElse
<1>6. CASE RecordFails(r)
  <2>1. PICK t : /\ Sets(r, t) /\ Fits(t) /\ s.pc = "record" /\ s.kind = "join" /\ t.pc = "work" /\ t.acct = s.acct
                 /\ t.left = s.left /\ t.done = s.done
    BY <1>1, <1>6, RecordSteps
  <2>2. Active(s) /\ Follows(s, t) /\ Of(r) = s.acct[1] /\ Joins(s)
    BY <1>1, <2>1, JoinsFor DEF Active, Follows, Joins
  <2>3. UNCHANGED <<rows, real, day>> /\ (Pending(s) = 1 => a # s.acct[1])
    BY <1>6, <2>1, <2>2 DEF RecordFails, Pending, site
  <2> QED BY <2>1, <2>2, <2>3, WithinElse, PendingIs
<1>7. CASE LoadsJoin(r) \/ TriesGroup(r) \/ Records(r)
    BY <1>7, WithinLoads, WithinTries, WithinRecords
<1>8. CASE TypesPin(r)
    BY <1>1, <1>2, <1>8, PinSteps DEF TypesPin, FillsPin, db
<1>9. CASE Quiet(r)
    BY <1>1, <1>2, <1>9, QuietSteps
<1> QED BY <1>3, <1>4, <1>5, <1>6, <1>7, <1>8, <1>9, StepKinds

(* Groups are only entered today.                                                *)
LEMMA RealMoves ==
    ASSUME TypeOK, NEW r \in Run, Step(r)
    PROVE  /\ lost \subseteq lost' /\ day' = day
           /\ \A a \in Account, d \in 0..MaxDay : d # day => real'[a][d] = real[a][d]
<1>1. Fits(run[r])
    BY DEF TypeOK, RunsOK
<1>2. CASE TriesGroup(r) \/ JoinsUnseen(r)
  <2>1. Of(r) \in Account
    BY <1>1, <1>2, OfAccount DEF TriesGroup, AsksNothing, AsksQuestions, TryEnds, JoinsUnseen, Joining, Works, Active
  <2>2. lost \subseteq lost' /\ day' = day /\ (real' = real \/ real' = OneMore(real, Of(r), day, 1))
    BY <1>2 DEF TriesGroup, AsksNothing, AsksQuestions, TryEnds, JoinsUnseen, EntersGroup, OneMore, db
  <2>3. 1 \in Nat /\ real \in [Account -> [0..MaxDay -> Nat]] /\ day \in 0..MaxDay
    BY DEF TypeOK, SiteOK
  <2>4. ASSUME real' = OneMore(real, Of(r), day, 1)
        PROVE  \A b \in Account, c \in 0..MaxDay : b # Of(r) \/ c # day => real'[b][c] = real[b][c]
    BY <2>1, <2>3, <2>4, CountedOnce
  <2> QED BY <2>2, <2>4
<1>3. CASE Loads(r) \/ LoadsJoin(r) \/ Records(r) \/ RecordFails(r) \/ TypesPin(r) \/ \E p \in Pin : GeneratesPin(r, p)
    BY <1>3 DEF Loads, LoadsJoin, Records, RecordFails, TypesPin, FillsPin, GeneratesPin, db, site
<1> QED BY <1>1, <1>2, <1>3, StepKinds, QuietSteps

LEMMA JoinsStep == TypeOK /\ Apart /\ JoinsOK /\ [Next]_vars => JoinsOK'
<1> SUFFICES ASSUME TypeOK, Apart, JoinsOK, [Next]_vars PROVE JoinsOK'
    OBVIOUS
<1>1. ASSUME NEW r \in Run, Step(r) PROVE JoinsOK'
  <2>1. NoneAhead'
    BY <1>1, RealMoves DEF JoinsOK, NoneAhead
  <2>2. ASSUME NEW a \in Account, a \notin shared' \cup lost' PROVE Within(a)'
    BY <1>1, <2>2, SharedKept, RealMoves, WithinStep DEF JoinsOK
  <2> QED BY <2>1, <2>2 DEF JoinsOK
<1>2. ASSUME NEW r \in Run, NEW j \in Job, Starts(r, j) PROVE JoinsOK'
  <2>1. PICK t : Sets(r, t) /\ Fits(t) /\ t.pc = "load" /\ ~Active(run[r])
    BY <1>2, StartFits
  <2>2. run'[r] = t /\ \A q \in Run \ {r} : run'[q] = run[q]
    BY <2>1, RunMoves DEF TypeOK
  <2>3. UNCHANGED <<rows, real, day, lost>> /\ shared \subseteq shared'
    BY <1>2 DEF Starts, db, site
  <2>4. ASSUME NEW a \in Account, a \notin shared' \cup lost' PROVE Within(a)'
    <3>1. Within(a)
      BY <2>3, <2>4 DEF JoinsOK
    <3>2. \A q \in Run : Joins(run'[q]) => q # r
      BY <2>1, <2>2 DEF Joins
    <3>3. Awaited(a) => Awaited(a)'
      BY <2>1, <2>2 DEF Awaited
    <3>4. \A q \in Run : Joins(run'[q]) /\ run'[q].acct[1] = a =>
             real'[a][day'] + run'[q].left <= Limit + run'[q].done + Pending(run'[q])
      BY <2>2, <2>3, <3>1, <3>2 DEF Within
    <3>5. /\ \A d \in 0..MaxDay : real'[a][d] <= Limit
          /\ real'[a][day'] <= rows'[a][day'] + 1
          /\ ~Awaited(a)' => real'[a][day'] <= rows'[a][day']
      BY <2>3, <3>1, <3>3 DEF Within
    <3> QED BY <3>4, <3>5 DEF Within
  <2> QED BY <2>3, <2>4 DEF JoinsOK, NoneAhead
<1>3. CASE Crash
  <2>1. UNCHANGED <<rows, real, day, shared>> /\ (\A r \in Run : run'[r] = Idle) /\ lost \subseteq lost'
    BY <1>3 DEF Crash, site
  <2>2. ASSUME NEW a \in Account, a \notin shared' \cup lost' PROVE Within(a)'
    <3>1. Within(a)
      BY <2>1, <2>2 DEF JoinsOK
    <3>2. ~Awaited(a)
      <4> SUFFICES ASSUME NEW r \in Run, Active(run[r]), run[r].acct[1] = a, Pending(run[r]) = 1 PROVE FALSE
          BY DEF Awaited
      <4>1. Fits(run[r]) /\ run[r].pc = "record" /\ run[r].out = "joined"
        BY DEF TypeOK, RunsOK, Pending
      <4>2. Of(r) = a
        BY <4>1, JoinsFor DEF Fits, Shape
      <4> QED BY <1>3, <2>2, <4>1, <4>2 DEF Crash
    <3>3. \A q \in Run : ~Joins(run'[q])
      BY <2>1 DEF Joins, Idle
    <3> QED BY <2>1, <3>1, <3>2, <3>3 DEF Within
  <2> QED BY <2>1, <2>2 DEF JoinsOK, NoneAhead
<1>4. CASE Midnight
  <2>1. UNCHANGED <<run, rows, real, shared, lost>> /\ day' = day + 1 /\ day < MaxDay
    BY <1>4 DEF Midnight, db, site
  <2>2. day \in 0..MaxDay /\ MaxDay \in Nat /\ Limit \in Nat
    BY IntegrationsAssumption DEF TypeOK, SiteOK
  <2>3. ASSUME NEW a \in Account, a \notin shared' \cup lost' PROVE Within(a)'
    <3>1. Within(a)
      BY <2>1, <2>3 DEF JoinsOK
    <3>2. real'[a][day'] = 0 /\ rows'[a][day'] \in Nat
      <4>1. day' \in 0..MaxDay /\ day' > day
        BY <2>1, <2>2
      <4>2. real[a][day'] = 0
        BY <4>1 DEF JoinsOK, NoneAhead
      <4>3. rows[a][day'] \in Nat
        BY <4>1 DEF TypeOK, SiteOK
      <4> QED BY <2>1, <4>2, <4>3
    <3>3. ASSUME NEW q \in Run, Joins(run'[q]), run'[q].acct[1] = a
          PROVE  real'[a][day'] + run'[q].left <= Limit + run'[q].done + Pending(run'[q])
      <4>1. run'[q] = run[q] /\ Fits(run[q]) /\ run[q].kind = "join" /\ Pending(run[q]) \in {0, 1}
        BY <2>1, <3>3, PendingIs DEF TypeOK, RunsOK, Joins
      <4>2. run[q].left \in Nat /\ run[q].done \in Nat /\ run[q].left <= Limit
        BY <4>1 DEF Fits, RunState, Counts
      <4> QED BY <2>2, <3>2, <4>1, <4>2
    <3>4. \A d \in 0..MaxDay : real'[a][d] <= Limit
      BY <2>1, <3>1 DEF Within
    <3>5. real'[a][day'] <= rows'[a][day'] /\ real'[a][day'] <= rows'[a][day'] + 1
      BY <3>2
    <3> QED BY <3>3, <3>4, <3>5 DEF Within
  <2>4. NoneAhead'
    BY <2>1, <2>2 DEF JoinsOK, NoneAhead
  <2> QED BY <2>3, <2>4 DEF JoinsOK
<1>5. CASE UNCHANGED vars
    BY <1>5 DEF vars, JoinsOK, NoneAhead, Within, Awaited
<1> QED BY <1>1, <1>2, <1>3, <1>4, <1>5 DEF Next, Begins

LEMMA JoinsInit == Init => Apart /\ JoinsOK
<1> SUFFICES ASSUME Init PROVE Apart /\ JoinsOK
    OBVIOUS
<1>1. /\ run = [r \in Run |-> Idle] /\ rows = [a \in Account |-> [d \in 0..MaxDay |-> 0]] /\ real = rows /\ day = 0
    BY DEF Init
<1>2. \A r \in Run : ~Active(run[r]) /\ ~Joins(run[r])
    BY <1>1 DEF Idle, Active, Joins
<1>3. Limit \in Nat /\ MaxDay \in Nat
    BY IntegrationsAssumption
<1>4. \A a \in Account, d \in 0..MaxDay : real[a][d] = 0 /\ rows[a][d] = 0
    BY <1>1
<1>5. \A a \in Account : Within(a)
    BY <1>1, <1>2, <1>3, <1>4 DEF Within
<1> QED BY <1>2, <1>4, <1>5 DEF Apart, JoinsOK, NoneAhead

(* The daily limit of group joins: over any number of executions, with records and    *)
(* looks that fail, crashes and midnights, the groups that an account enters on one    *)
(* day are within the limit, unless two executions overlapped or a record was lost.   *)
THEOREM LimitHolds == Spec => []JoinsWithinLimit
<1>1. JoinsOK => JoinsWithinLimit
    BY DEF JoinsOK, Within, JoinsWithinLimit
<1> QED BY <1>1, JoinsInit, ApartStep, JoinsStep, IntegrationsTypeCorrect, PTL DEF Spec
-----------------------------------------------------------------------------
(* PINs *)

(* The copies of an execution are what the database has, unless somebody else works   *)
(* for the account.                                                             *)
Fresh(s) ==
    s.kind \in Pair /\ s.pc \in Pinned => \A i \in 1..2 : s.acct[i] \notin shared => s.copy[i] = pin[s.acct[i]]

PinsOK ==
    /\ \A a \in made : sitePin[a] # NoPin
    /\ \A a \in made \ shared : pin[a] = sitePin[a]
    /\ \A r \in Run : Fresh(run[r])

LEMMA PinsElse ==
    ASSUME TypeOK, PinsOK, NEW r \in Run, NEW t, Sets(r, t), Fits(t), UNCHANGED <<pin, sitePin, made, shared>>, Fresh(t)
    PROVE  PinsOK'
<1>1. run'[r] = t /\ \A q \in Run \ {r} : run'[q] = run[q]
    BY RunMoves DEF TypeOK
<1> QED BY <1>1 DEF PinsOK, Fresh

LEMMA StillFresh ==
    ASSUME NEW s, NEW t, Fresh(s), Still(s, t) PROVE Fresh(t)
BY DEF Fresh, Still, Follows, Active, Pinned

(* The side that has the dialog before it.                                       *)
LEMMA AtDialog ==
    ASSUME TypeOK, NEW r \in Run, run[r].pc \in {"pin", "type"}
    PROVE  LET s == run[r]
           IN  /\ Fits(s) /\ Active(s) /\ s.kind \in Pair /\ s.pc \in Pinned /\ Side(s) \in 1..2
               /\ Len(s.acct) = 2 /\ s.acct \in [1..2 -> Account] /\ s.copy \in [1..2 -> OnePin]
               /\ Of(r) = s.acct[Side(s)] /\ Of(r) \in Account /\ Copy(r) = s.copy[Side(s)]
<1>1. Fits(run[r]) /\ Copied(run[r]) /\ run[r] \in RunState /\ run[r].kind \in Pair /\ Active(run[r])
    BY DEF TypeOK, RunsOK, CopiesOK, Fits, Shape, Active
<1>2. Len(run[r].acct) = 2 /\ run[r].acct \in [1..2 -> Account]
    BY <1>1, Accounts
<1> QED BY <1>1, <1>2, OfAccount, SideOf DEF Copied, Pinned, Copy, Side

(* The PIN that is typed into a site without one is the one in the database.         *)
LEMMA PinsTyped ==
    ASSUME TypeOK, PinsOK, NEW r \in Run, TypesPin(r)
    PROVE  PinsOK'
<1> DEFINE s == run[r]
           a == Of(r)
<1>1. /\ s.pc = "type" /\ Fits(s) /\ s.kind \in Pair /\ s.pc \in Pinned /\ Side(s) \in 1..2 /\ a = s.acct[Side(s)]
      /\ a \in Account /\ Copy(r) = s.copy[Side(s)]
    BY AtDialog DEF TypesPin, FillsPin
<1>2. Copy(r) # NoPin /\ (a \notin shared => Copy(r) = pin[a])
    BY <1>1 DEF TypeOK, CopiesOK, Copied, PinsOK, Fresh
<1>3. PICK t : Sets(r, t) /\ Fits(t) /\ Still(s, t)
    BY <1>1, PinSteps DEF Proceeds
<1>4. Fresh(t)
    BY <1>3, StillFresh DEF PinsOK
<1>5. run'[r] = t /\ \A q \in Run \ {r} : run'[q] = run[q]
    BY <1>3, RunMoves DEF TypeOK
<1>6. pin' = pin /\ shared' = shared /\ sitePin \in [Account -> OnePin]
    BY DEF TypesPin, FillsPin, db, TypeOK, SiteOK
<1>7. \A q \in Run : Fresh(run[q])'
    BY <1>4, <1>5, <1>6 DEF PinsOK, Fresh
<1>8. CASE sitePin[a] = NoPin /\ FillsPin(r)
  <2>1. sitePin' = [sitePin EXCEPT ![a] = Copy(r)] /\ made' = made \cup {a}
    BY <1>8 DEF FillsPin
  <2>2. sitePin'[a] = Copy(r) /\ \A b \in Account : b # a => sitePin'[b] = sitePin[b]
    BY <1>1, <1>6, <2>1
  <2>3. made \subseteq Account
    BY DEF TypeOK
  <2> QED BY <1>2, <1>6, <1>7, <2>1, <2>2, <2>3 DEF PinsOK
<1>9. CASE UNCHANGED <<sitePin, made>>
    BY <1>6, <1>7, <1>9 DEF PinsOK
<1> QED BY <1>8, <1>9 DEF TypesPin, FillsPin

(* A PIN is generated for an account without one, so that none that the site knows    *)
(* is overwritten, and the copies of nobody else are of it.                          *)
LEMMA PinsGenerated ==
    ASSUME TypeOK, Apart, PinsOK, NEW r \in Run, NEW p \in Pin, GeneratesPin(r, p)
    PROVE  PinsOK'
<1> DEFINE s == run[r]
           a == Of(r)
<1>1. /\ s.pc = "pin" /\ Fits(s) /\ s.kind \in Pair /\ s.pc \in Pinned /\ Side(s) \in 1..2 /\ a = s.acct[Side(s)]
      /\ a \in Account /\ Copy(r) = s.copy[Side(s)] /\ Copy(r) = NoPin /\ Active(s) /\ Len(s.acct) = 2
      /\ s.acct \in [1..2 -> Account] /\ s.copy \in [1..2 -> OnePin]
    BY AtDialog DEF GeneratesPin
<1>2. PICK t : /\ Sets(r, t) /\ Fits(t) /\ t.kind = s.kind /\ t.acct = s.acct /\ t.copy = [s.copy EXCEPT ![Side(s)] = p]
    BY <1>1, GenerateStep
<1>3. run'[r] = t /\ \A q \in Run \ {r} : run'[q] = run[q]
    BY <1>2, RunMoves DEF TypeOK
<1>4. pin' = [pin EXCEPT ![a] = p] /\ UNCHANGED <<sitePin, made, shared>> /\ pin \in [Account -> OnePin]
    BY DEF GeneratesPin, PinSaved, site, TypeOK, SiteOK
<1>5. pin'[a] = p /\ \A b \in Account : b # a => pin'[b] = pin[b]
    BY <1>1, <1>4
<1>6. a \notin made \ shared
  <2>1. a \notin shared => pin[a] = NoPin
    BY <1>1 DEF PinsOK, Fresh
  <2> QED BY <2>1 DEF PinsOK
<1>7. \A b \in made' \ shared' : pin'[b] = sitePin'[b]
    BY <1>4, <1>5, <1>6 DEF PinsOK, TypeOK
<1>8. Fresh(t)'
  <2> SUFFICES ASSUME NEW i \in 1..2, s.acct[i] \notin shared PROVE t.copy[i] = pin'[s.acct[i]]
      BY <1>2, <1>4 DEF Fresh
  <2>1. CASE i = Side(s)
    BY <1>1, <1>2, <1>5, <2>1
  <2>2. CASE i # Side(s)
    <3>1. s.acct[i] # a
      <4>1. s.acct[1] = s.acct[2] => s.acct[1] \in shared
        BY <1>1 DEF Apart
      <4> QED BY <1>1, <2>2, <4>1
    <3>2. s.acct[i] \in Account /\ t.copy[i] = s.copy[i]
      BY <1>1, <1>2, <2>2
    <3>3. s.copy[i] = pin[s.acct[i]]
      BY <1>1 DEF PinsOK, Fresh
    <3> QED BY <1>5, <3>1, <3>2, <3>3
  <2> QED BY <2>1, <2>2
<1>9. ASSUME NEW q \in Run, q # r PROVE Fresh(run[q])'
  <2> SUFFICES ASSUME run[q].kind \in Pair, run[q].pc \in Pinned, NEW i \in 1..2, run[q].acct[i] \notin shared
               PROVE  run[q].copy[i] = pin'[run[q].acct[i]]
      BY <1>3, <1>4, <1>9 DEF Fresh
  <2>1. Active(run[q]) /\ Len(run[q].acct) = 2 /\ run[q].acct \in [1..2 -> Account]
    <3>1. Active(run[q]) /\ Fits(run[q])
      BY DEF Active, Pinned, TypeOK, RunsOK
    <3> QED BY <3>1, Accounts DEF Fits, Shape
  <2>2. run[q].acct[i] # a
    <3>1. run[q].acct[i] \in AccountsOf(run[q]) /\ a \in AccountsOf(s)
      BY <1>1, <2>1 DEF AccountsOf
    <3> QED BY <1>1, <1>9, <2>1, <3>1 DEF Apart
  <2>3. run[q].copy[i] = pin[run[q].acct[i]] /\ run[q].acct[i] \in Account
    BY <2>1 DEF PinsOK, Fresh
  <2> QED BY <1>5, <2>2, <2>3
<1>10. \A b \in made' : sitePin'[b] # NoPin
    BY <1>4 DEF PinsOK
<1>11. \A q \in Run : Fresh(run[q])'
    BY <1>3, <1>8, <1>9 DEF Fresh
<1> QED BY <1>7, <1>10, <1>11 DEF PinsOK

LEMMA PinsStep == TypeOK /\ Apart /\ PinsOK /\ [Next]_vars => PinsOK'
<1> SUFFICES ASSUME TypeOK, Apart, PinsOK, [Next]_vars PROVE PinsOK'
    OBVIOUS
<1>1. ASSUME NEW r \in Run, Step(r) PROVE PinsOK'
  <2> DEFINE s == run[r]
  <2>1. Fits(s) /\ SiteOK /\ Fresh(s)
    BY DEF TypeOK, RunsOK, PinsOK
  <2>2. CASE Proceeds(r) /\ UNCHANGED <<pin, sitePin, made, shared>>
    BY <2>1, <2>2, PinsElse, StillFresh DEF Proceeds
  <2>3. CASE Loads(r)
    <3>1. PICK t : /\ Sets(r, t) /\ Fits(t) /\ s.pc = "load" /\ t.pc = "open" /\ t.kind = s.kind /\ t.acct = s.acct
                   /\ t.copy = [i \in DOMAIN s.acct |-> pin[s.acct[i]]]
      BY <2>1, <2>3, LoadStep
    <3>2. s.kind \in Pair => DOMAIN s.acct = 1..2
      BY <2>1, <3>1, Accounts DEF Active
    <3>3. Fresh(t)
      BY <3>1, <3>2 DEF Fresh
    <3> QED BY <2>3, <3>1, <3>3, PinsElse DEF Loads, db, site
  <2>4. ASSUME NEW t, Sets(r, t), Fits(t), t.kind = "join", UNCHANGED <<pin, sitePin, made, shared>> PROVE PinsOK'
    BY <2>4, PinsElse, KindBounds DEF Fresh
  <2>5. CASE LoadsJoin(r)
    <3>1. UNCHANGED <<pin, sitePin, made, shared>>
      BY <2>5 DEF LoadsJoin, db, site
    <3> QED BY <2>1, <2>2, <2>4, <2>5, <3>1, LoadJoinStep
  <2>6. CASE TriesGroup(r) \/ JoinsUnseen(r) \/ Records(r) \/ RecordFails(r)
    <3>1. UNCHANGED <<pin, sitePin, made, shared>>
      BY <2>6 DEF TriesGroup, AsksNothing, AsksQuestions, TryEnds, JoinsUnseen, Records, RecordFails, db, site
    <3> QED BY <2>1, <2>4, <2>6, <3>1, TryStep, UnseenStep, RecordSteps
  <2>7. CASE TypesPin(r) \/ \E p \in Pin : GeneratesPin(r, p)
    BY <2>7, PinsTyped, PinsGenerated
  <2>8. CASE Quiet(r)
    BY <2>1, <2>2, <2>8, QuietSteps
  <2> QED BY <1>1, <2>3, <2>5, <2>6, <2>7, <2>8, StepKinds
<1>2. ASSUME NEW r \in Run, NEW j \in Job, Starts(r, j) PROVE PinsOK'
  <2>1. PICK t : Sets(r, t) /\ Fits(t) /\ t.pc = "load"
    BY <1>2, StartFits
  <2>2. run'[r] = t /\ \A q \in Run \ {r} : run'[q] = run[q]
    BY <2>1, RunMoves DEF TypeOK
  <2>3. UNCHANGED <<pin, sitePin, made>> /\ shared \subseteq shared'
    BY <1>2 DEF Starts, db, site
  <2>4. \A q \in Run : Fresh(run[q])'
    BY <2>1, <2>2, <2>3 DEF PinsOK, Fresh, Pinned
  <2> QED BY <2>3, <2>4 DEF PinsOK
<1>3. CASE Crash
  <2>1. UNCHANGED <<pin, sitePin, made, shared>> /\ \A r \in Run : run'[r] = Idle
    BY <1>3 DEF Crash, site
  <2>2. \A r \in Run : Fresh(run[r])'
    BY <2>1 DEF Fresh, Idle, Pinned
  <2> QED BY <2>1, <2>2 DEF PinsOK
<1>4. CASE Midnight \/ UNCHANGED vars
    BY <1>4 DEF Midnight, vars, db, site, PinsOK, Fresh
<1> QED BY <1>1, <1>2, <1>3, <1>4 DEF Next, Begins

(* A PIN that the program has created at the site is the one in the database, through *)
(* further chats and calls, failures and crashes, unless two executions or the two    *)
(* sides of one worked for the account.                                            *)
THEOREM CreatedPinsKept == Spec => []PinNotLost
<1>1. Init => PinsOK
  <2> SUFFICES ASSUME Init PROVE PinsOK
      OBVIOUS
  <2>1. run = [r \in Run |-> Idle] /\ made = {}
    BY DEF Init
  <2> QED BY <2>1 DEF PinsOK, Fresh, Idle, Pinned
<1>2. PinsOK => PinNotLost
    BY DEF PinsOK, PinNotLost
<1> QED BY <1>1, <1>2, JoinsInit, ApartStep, PinsStep, IntegrationsTypeCorrect, PTL DEF Spec
=============================================================================
