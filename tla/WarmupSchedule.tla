--------------------------- MODULE WarmupSchedule ---------------------------
(***************************************************************************)
(* When the warm-up of one account acts                                    *)
(* (src/backend/src/modules/warmup): every group of accounts has three     *)
(* windows of 30 minutes a day, every account of a group its own five      *)
(* minutes of each window, and a cron tick every five minutes compares the *)
(* clock with them.  The machine may be switched off for a while.          *)
(*                                                                         *)
(* Time is counted in minutes since midnight of the first day.             *)
(***************************************************************************)
EXTENDS Integers, FiniteSets

CONSTANTS
    Slot,        \* <<groupCount, groupNumber, accountPosition>> of an account
    Start,       \* minutes at which warm-ups are started
    PackageDays, \* days before the package gives way to P3: 7 or 14 in the code
    Horizon,     \* bound: the minute at which a behaviour ends
    MaxOff       \* bound: minutes the machine may be off, once

Day       == 24 * 60
WindowMin == 30    \* WINDOW_DURATION_MIN
Stagger   == 5     \* ACCOUNT_STAGGER_MIN
TickMin   == 5     \* CronExpression.EVERY_5_MINUTES

VARIABLES
    slot,        \* the account's group count, group and position
    now,         \* the clock, at a tick
    startedAt,   \* warmup_progress.startedAt
    mode,        \* warmup_progress.packageMode: "package" or "P3"
    lastFired,   \* warmup_progress.lastFiredWindow, as <<day, window>>
    lastChecked, \* warmup_progress.lastCheckedAt
    fired,       \* history: the starts of the windows that fired
    missed,      \* history: the starts of the windows counted as missed
    outage,      \* "before", "during" or "after" the time the machine is off
    cut          \* history: the starts of the windows that lost a tick to it

vars == <<slot, now, startedAt, mode, lastFired, lastChecked,
          fired, missed, outage, cut>>

Never  == -1
NoKey  == <<Never, Never>>
Window == 0 .. 2
-----------------------------------------------------------------------------
(* warmup-windows.util.ts *)

Spread(n) == IF n <= 6 THEN 60 ELSE 360 \div n

(* getWarmupWindowMinutes *)
Opens(i) == (8 * 60 + i * 360 + (slot[2] - 1) * Spread(slot[1])) % Day

(* A span that passes midnight holds both its ends of the day. *)
InSpan(cur, from, to) == IF to > from THEN from <= cur /\ cur < to ELSE from <= cur \/ cur < to

(* findActiveWindow: the first that holds, Never when none does. *)
First(S) == IF S = {} THEN Never ELSE CHOOSE i \in S : \A j \in S : i <= j

ActiveAt(t) == First({i \in Window : InSpan(t % Day, Opens(i), (Opens(i) + WindowMin) % Day)})

(* findJustMissedWindow: a window of today that ended since the last look. *)
EndToday(t, i) == (t \div Day) * Day + Opens(i) + WindowMin

JustMissed(since, t) == First({i \in Window : since < EndToday(t, i) /\ EndToday(t, i) <= t})

(* getAccountPositionInGroup, by account number; the account is in its group *)
(* and the SELECT is answered.                                               *)
Position == slot[3]

Offset == Position * Stagger

TurnEver(t) ==   \* mutation: from its turn on, to the end of the window
    Offset < WindowMin /\ \E i \in Window : InSpan(t % Day, (Opens(i) + Offset) % Day,
                                                   (Opens(i) + WindowMin) % Day)

TurnButLast(t) ==   \* mutation: the slot of the sixth account is outside
    /\ Offset + Stagger < WindowMin
    /\ \E i \in Window : LET from == (Opens(i) + Offset) % Day
                         IN  InSpan(t % Day, from, (from + Stagger) % Day)

(* isAccountTurnInWindow *)
Turn(t) ==
    /\ Offset < WindowMin
    /\ \E i \in Window : LET from == (Opens(i) + Offset) % Day
                         IN  InSpan(t % Day, from, (from + Stagger) % Day)

(* getPackageInfo(...).shouldTransitionToP3 *)
PackageDone(t) == mode = "package" /\ (t - startedAt) \div Day + 1 > PackageDays

Key(t, i) == <<t \div Day, i>>   \* `${todayKey}:${i}`
-----------------------------------------------------------------------------
(* The window i that is open at t, or that ends at t, by its first minute. *)
OpenedAt(t, i) == LET today == (t \div Day) * Day + Opens(i)
                  IN  IF today <= t THEN today ELSE today - Day

Init ==
    /\ slot \in Slot
    /\ startedAt \in Start
    /\ now = startedAt - (startedAt % TickMin)
    /\ mode = "package"
    /\ lastFired = NoKey
    /\ lastChecked = Never
    /\ fired = {}
    /\ missed = {}
    /\ outage = "before"
    /\ cut = {}

ClockGoes ==
    /\ now + TickMin <= Horizon
    /\ now' = now + TickMin

(* tickOne when the package is done: the turn to P3 takes the whole tick.   *)
TurnsToP3 ==
    /\ mode' = "P3"
    /\ startedAt' = now'
    /\ lastFired' = NoKey
    /\ UNCHANGED <<lastChecked, fired, missed>>

(* ... and otherwise: count a missed window, then fire the active one.      *)
Checks ==
    LET since  == IF lastChecked = Never THEN now' - 6 ELSE lastChecked
        gone   == JustMissed(since, now')
        active == ActiveAt(now')
        fires  == active # Never /\ lastFired # Key(now', active) /\ Turn(now')
    IN  /\ missed' = IF gone # Never /\ lastFired # Key(now', gone)
                     THEN missed \cup {OpenedAt(now', gone)} ELSE missed
        /\ fired' = IF fires THEN fired \cup {OpenedAt(now', active)} ELSE fired
        /\ lastFired' = IF fires THEN Key(now', active) ELSE lastFired
        /\ lastChecked' = now'
        /\ UNCHANGED <<startedAt, mode>>

Tick ==
    /\ ClockGoes
    /\ IF PackageDone(now') THEN TurnsToP3 ELSE Checks
    /\ outage' = IF outage = "during" THEN "after" ELSE outage
    /\ UNCHANGED <<slot, cut>>

(* The machine is off: no tick.  The first tick is not skipped: before it   *)
(* the warm-up might as well not have been started.                         *)
Off ==
    /\ ClockGoes
    /\ outage # "after"
    /\ lastChecked # Never /\ now' - lastChecked <= MaxOff
    /\ outage' = "during"
    /\ cut' = IF ActiveAt(now') = Never THEN cut ELSE cut \cup {OpenedAt(now', ActiveAt(now'))}
    /\ UNCHANGED <<slot, startedAt, mode, lastFired, lastChecked, fired, missed>>

Next == Tick \/ Off

Spec == Init /\ [][Next]_vars
-----------------------------------------------------------------------------
(* Properties *)

(* The windows that began after the warm-up, or its turn to P3, and are over. *)
Over == {o \in {d * Day + Opens(i) : d \in 0 .. Horizon \div Day, i \in Window} :
            lastChecked # Never /\ startedAt < o /\ o + WindowMin <= lastChecked}

(* "a window triggers once a day" (docs, line 100): neither a restart nor    *)
(* the turn to P3, which forgets lastFiredWindow, nor midnight inside a      *)
(* window, which changes its key, makes a window fire again.                 *)
FiresOnce ==
    [][lastFired' \notin {lastFired, NoKey} => OpenedAt(now', ActiveAt(now')) \notin fired]_vars

(* Lines 84-96 of the docs: the five-minute turns of the first six accounts  *)
(* fill the window, for every number of groups: a window fires unless the    *)
(* machine is off in it; an account behind them never acts.                  *)
Served ==
    \A o \in Over : IF slot[3] < 6 THEN o \notin cut => o \in fired ELSE o \notin fired
=============================================================================
