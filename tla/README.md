# FAhubX: a TLA+ model of the backend, its pages and the license server

FAhubX is a NestJS backend that automates Facebook accounts with Chrome
(Puppeteer), a React frontend, a license server (a Cloudflare Worker over a D1
table) and an installer. This directory holds TLA+ modules translated from that
code, TLC runs that check them on small instances, and TLAPS proofs for
instances of every size. Paths below are relative to the repository, mounted
as `src/`.

Contents: 1 inventory, 2 modules and their correspondence to the code,
3 runs, bounds and results, 4 disagreements with the code's own comments and
docs, 5 fairness, 6 proofs, 7 limits, 8 plan.

## 1. Inventory

All of the backend is one Node process. Handlers, cron jobs and timers run
one callback at a time and yield at every `await`; there are no locks. Shared
state is of two kinds: rows in PostgreSQL, written by single statements that
seldom look at the present value (or by `save()` of a row read earlier), and
maps and sets in the memory of services, lost at a crash. Only the module list
in `app.module.ts:91-99` runs; the task-executor service, account-manager,
account-health and account-recovery modules are commented out (lines 100-103)
and are modelled as they would run.

| Component | State | Operations | What is hard | What makes it correct |
|---|---|---|---|---|
| Task runner (`simple-tasks/`) | `tasks.status`, `scheduledAt`; `running`, the claim set in memory; the log store | a cron tick every 30 s; execute, start, cancel, reset, remove, create; startup | ticks overlap; every UPDATE is unconditional; a rejected call leaves the handler half way; crash | a task is worked on by one tick or execution at a time; claims are given back; no row is left `running`; due tasks run; batches go in turn; repeat cycles go on |
| Browser pool (`browser-session.service.ts`) | `sessions`, `launching`, `idleTimers` | getOrLaunch, newPage, release, close, closeAll | two awaits between look-up and launch; a launch takes a minute; timers; Chrome hangs or exits | one Chrome per profile; no account locked out; nothing left open |
| Cooldown gate and checkpoint detector | `status`, `cooldownUntil` of the row | gate before a launch, detect and record, writes of `status` by login, logout, edit | the gate is read before the launch; others overwrite the status | after a checkpoint few browsers are handed out |
| Integrations (`task-executor/integrations/`) | Messenger PIN, `group_join_history`, tabs | friends, accept, comment, follow, combos, join, post, chat, call, warming | pages throw at any step; crash between click and record; midnight | limits hold; PIN kept; tabs closed; loops end |
| Login and registration (`facebook-login`, `facebook-registration`) | `loginInProgress`, `watchers`, status columns | login, logout, status, delayed close; start, tick, cancel | checks before awaits; overlapping ticks; cancel against a launch | one login at a time, nobody locked out; success is not overwritten; registrations end |
| License client (`license/license.service.ts`) | `state` in memory, `license-cache.json`, `LICENSE_KEY` in `.env` | activate, heartbeat every 30 min, isValid (guard), startup | lost replies, replies that arrive for another key, restart, two readers of two copies | a revoked key stops working, a good one survives restarts and outages up to the grace period |
| License server (`license-server/src/routes`) | table `licenses` (active, expires_at, machine_id) | activate, heartbeat, update, delete, unbind | SELECT, then UPDATE by id | a key is bound to one machine |
| Sessions and users (`auth/`, `users/`) | `user_sessions`, `users` | register, login, refresh, logout, revoke, password, settings, administration, activation | whole-row saves of rows read earlier | revoked stays revoked; changes are kept |
| Accounts (`facebook-accounts.service.ts`) | `facebook_accounts` | create under quota, number, update, sync, soft delete, purge | count-then-insert, read-then-insert, stale saves | quota, one row per e-mail |
| VPN configurations, chat scripts | their tables | CRUD, default, seeding, import | clear-then-set, read-then-seed without an index | few defaults, few copies |
| Warm-up schedule (`warmup/warmup-windows.util.ts`) | none | windows, turns, missed windows, package length | midnight, 7-9 groups, 5-minute turns | every window fires once |
| Warm-up progress (`warmup/warmup.service.ts`) | `warmup_progress`, its parent row in `tasks` | start, retire, resume, reset, tick, window action | two rows in two statements, a tick that saves what it read earlier | progress and parent task agree; a package that is over goes on |
| Account pool, task executor, dialogue scripts (inactive) | `account_status` | acquire, release, health check, maintenance, restore; executeTask | find and save are two statements; crash | one holder; busy is held; tasks end |
| Health and recovery (inactive) | `health_alerts`, `recovery_logs` | scheduled and manual checks and recoveries | count-then-insert, find-then-insert | few alerts; attempts bounded |
| Frontend pages, log dialog, registration dialog | React state | open, turn a page, poll, click | answers out of order, polls that overlap, timers outliving dialogs | what is shown comes to agree with the server |
| Installer, scripts, migrations | none of their own | - | - | not modelled |

How they meet: the runner asks `license-cache.json` and starts executions; an
execution (integrations), a window action, a login, a registration and a shown
window all ask the pool for the account's browser, behind the cooldown gate;
`SubscriptionGuard` asks the license client's memory before the user's
requests; warm-up keeps a parent row in `tasks` that the runner's startup
clean-up must leave alone; the license client talks HTTP to the license server
and, on activation, writes the local user; the pages poll all of it. The
hazards of all this, each at its line, are listed in `PROJECT.json`.

## 2. The modules

A step runs from one `await` to the next: one database statement (or one timer,
process or HTTP event) together with the synchronous code that follows it. The
log store, messages and the content of pages are left out.

### TaskRunner and TaskClaims

`status` and `scheduledAt` are the columns of `tasks` ("unborn" before INSERT,
"removed" after DELETE; the age is "future", "due" or "stale", more than 24
hours). `running` is the claim set. `tick[k]` is one invocation of
`checkAndRunDueTasks`: the task it has claimed, the tasks of its SELECT it has
not reached, and which of them are stale by its own clock. `job[j]` is one execution,
started by a tick (`executeTask`) or by a request (`runTask`).

- `TickStart`, `SkipHeld`, `Claim`, `BatchGuard`, `Refuse`, `Release`, `Mark`
  are the awaits of the handler in its order. `todo` is visited in any order:
  the SELECT has no ORDER BY.
- `JobEnds`, `JobSaves`, `JobReleases` are the body, `saveTaskResult` (or
  `updateStatus`) and `.then(rescheduleIfRecurring).finally(running.delete)`.
  The body's result is a choice, except that an `auto_simulate` body looks for
  a cancel, and that the two copies of the dispatch disagree on an action they
  do not know (the runner fails it, the controller completes it).
- `Execute`, `Start`, `ManualMark`, `Cancel`, `Reset`, `Remove`, `Create` are the
  controller. `Start` calls `execute` but has no `SubscriptionGuard`.
- `TickDbFails`, `JobDbFails`, `Restart` are rejected calls, and the crash with
  the clean-up of `onModuleInit`, whose own failure is only logged.

Two history variables: `stranded`, the tasks a failed call left behind, and
`ended`, the tasks that have come to an end or were removed. The license gate is
the local deployment's; a cloud deployment asks the owner's subscription
instead, one await more and the same two outcomes.

`TaskClaims` says what the claim set promises without the runner: a lock per
task, taken by one tick, handed over to one execution, given back, or lost
until the restart. `TaskRunner.Lock` is its instance under the mapping that
reads the holders off `tick`, `job` and `running`.

### BrowserSession and Cooldown

`session`, `launching`, `timer` are the three maps; `alive` holds the Chrome
processes and the profile each uses; `listening` those whose `disconnected`
listener is attached; `closing` the `closeSession` calls that await
`browser.close()`; `call[c]` is one caller inside `getOrLaunchSession` or using
a page. A caller is a task (releases in its finally block), a keeper (login,
registration, shown window: never releases; a failed login closes the browser
two minutes later) or gone (one half of a chat whose other half failed, so that
its finally block has run already). Three variables are history: `kept`, the
accounts whose last caller left the browser open on purpose; `lost`, the browsers
taken out of the map while they lived; `suspect`, those that once did not answer or
close, or were launched while a call was closing or asking an older one. The cooldown
and proxy checks only refuse a call and are choices here; `Cooldown` models the
gate, the proxy (`ResolvesProxy`, `PingAnswers`) and what the calls before and behind
them write to the account's status: what is a fact in one module is a choice in the
other.

### Integrations, Logins

`Integrations`: one execution `run[r]` goes through load, open, login, PIN,
work, record, finally; the site (what Facebook holds: joins, the PIN) and the
database are separate, so a crash or a rejected statement shows. An execution is a
task of the runner or a window of the warm-up, whose actions are those that
`pickWarmupActions` may pick (`Candidates`), a chat among them only with a partner.
A tab is opened in two awaits (`newPage`, then `authenticate`), so it may be left
half open; a close may be rejected, which the finally blocks swallow; a click may
change nothing. A group may put questions, which are answered if there is an API key
and the language model answers (`AsksQuestions`). `Logins`: the
columns, `loginInProgress`, the browser, the watcher's overlapping ticks.

### License, Sessions

`License`: `row` is the server's table (a key is good or dead, and bound to a
machine); `req` the request of each machine and kind (sent, checked, written,
answered, lost); `mem`, `file`, `env` the three copies a client keeps; `age` the
time since `lastVerified`. `Other` are installations of which only the
activation's UPDATE is modelled: it may rebind a key whenever it likes, which is
what `handleActivate` allows. `Sessions`: the user's row as the set of the
changes made to it (those nested in the warm-up settings of its preferences are
changes of their own, all of which `updatePreferences`, spreading the top level
only, replaces), sessions with the second their tokens were signed in, calls
that read in one statement and save in another.

### Accounts, Configs, Recovery, Executor

Rows as sets of small records, requests as program counters from statement to
statement with the copies they read; counts that are taken and used later are
part of the request's state. An import of `Configs` carries the items that it will
insert, any of which may have the same number. In `Executor` a release may find its
account, save it, or be rejected at either, after which the worker has gone and the
row stays busy (`left`). `Recovery` tries one method and then a fallback, except that
a switch of accounts, which asks for the account's own id, has none.

### Warmup, WarmupSchedule

`Warmup`: the rows, the requests and the tick. `WarmupSchedule`: real
arithmetic on minutes: group spread, windows, five-minute turns, the
missed-window test, the package length, and `tickOne`'s decisions about one
account, with one outage of the machine.

### Pages, TaskLog, RegisterForm

`Pages` is the common shape of six pages: list requests in flight, a handler in
flight, what is shown, what the server has. A handler may write into the list what
the server has not said (`claims`: a stopped task as failed where the server has
cancelled, a refused start as running, a failed deletion as gone), and may ask for
no list after a change (`untold`: a registration that starts, fails or is cancelled,
a stop, an import into the language shown). `TaskLog` and `RegisterForm` are the two
dialogs that poll.

### MC modules

They give constants their values and define symmetry sets. Where modules share
no variable, one run checks several: a variable `part`, chosen in the initial
state, says which of them a behaviour is about, and the others rest
(`MCBrowserSession`, `MCUsers`, `MCAccounts`, `MCWarmup`, `MCPages`). Nothing is
lost: no step of one reads what another writes. These five leave their constants to the
.cfg and state their assumptions, because the proofs of section 6 about the modules they
instantiate are about these compositions, for every value of the constants.

## 3. Runs

| Run | Instance | Distinct states | Shows |
|---|---|---|---|
| `runner_safety` | 1 recurring simulate task, 2 ticks, 3 executions, all events | 80 868 | `NoLeakedClaim`, `RunningHasWorker`, the refinement `ClaimsAreLocks` |
| `runner_live` | a batch of 2 groups, the second recurring, 2 overlapping ticks, 3 executions, fair | 73 736 | `BatchInTurn`, `DueServed`, `RecurringRearmed` |
| `runner_overlap` | 1 task, 2 ticks | - | violates `PickedUpOnce` |
| `browser_safety` | pool: 1 account, 2 callers, 3 Chromes, all events; cooldown: 3 calls, a proxy, 1 fault | 1 534 605 | `LaunchGuard`, `OneBrowserPerProfile`, `NoForgottenBrowser`, `FewAfterCheckpoint` |
| `users` | license: 1 machine, 1 competitor, 2 keys, grace of 2 ticks, 1 restart, fair; sessions: 1 browser, 2 sessions, 2 overlapping calls, 2 seconds; user: the same with the calls that write his row, one warm-up setting and an API key | 951 256 | `FileFollowsMemory`, `NoResurrection`, `RevocationTakesEffect`, `RevokedStaysRevoked`, `ChangesKept` |
| `license_bind` | 2 machines, 1 key | - | violates `BoundOnce` |
| `accounts` | 3 rows, 2 e-mails, 2 requests, quotas 0 (that is 2) and 1; 3 proxies; 2 languages and packs of 2; 2 checks or 2 detections with 1 manual recovery, 1 crash | 1 358 762 | `WithinQuota`, `OneRowPerEmail`, `DefaultsFew`, `CopiesFew`, `AttemptsBounded`, `AlertsFew` |
| `warmup` | 1 account, 2 parents, 2 requests, 1 fault; 8 group/position pairs, started on or before a window, 45 hours, outage up to 6 h 40 | 1 316 225 | `ParentAgrees`, `PackageGoesOn`, `Served`, `FiresOnce` |
| `logins` | 1 account, 2 requests, 2 overlapping ticks, 1 fault, fair | 925 587 | `GuardExact`, `SuccessKept`, `CancelledIsQuiet`, `RegistrationSettles` |
| `integrations` | 2 accounts, 2 executions, 2 PINs, limit 2, feed 3, windows, a call of an account to itself, 1 midnight, 1 fault | 2 033 241 | `JoinsWithinLimit`, `PinNotLost`, `TabsClosed`, `RunsWindDown` |
| `executor` | 1 account, 2 workers, 1 clerk, a script that loops, 1 fault, fair | 234 354 | `OneHolder`, `BusyIsHeld`, `TasksEnd` |
| `pages` | 2 views, 2 list requests, 1 fault; 2 tasks, 2 polls, 2 failures; 2 accounts, 1 poll, 1 failure; fair | 245 837 | `ShownAgrees`, `PageCatchesUp`, `DialogsSettle` |

Why the bounds are enough. The claim protocol is per task: an execution or a
tick touches no other task's row or claim, save through the batch guard, so one
task with two ticks and three executions (two of the runner's and a manual one,
or the reverse) meets every interference; the batch guard relates an earlier
task to a later one, and `runner_live` has one of each, two ticks that may work
through SELECTs of different age, and a repeat cycle that sets the later one
back; the proofs of section 6 need no bound. The pool's maps are per account
except for the cap, so one account meets every interference but the cap's (and
its safety properties are proved for any number); three Chromes are an old one,
its successor and one that hangs. The cooldown is per account; three calls are
one that records, one that had passed the gate and one that overwrites, and the
bound of `FewAfterCheckpoint` is reached. `Grace = 2` distinguishes fresh,
ageing and expired. Sessions are per user; two overlapping calls are a reader
and what happens between its two statements; a third would add a second stale
copy of the same kind. The same holds for the two requests of `accounts`,
`warmup` and `logins`; three rows are one more than the quota admits, and a pack
of two items is the smallest that repeats a number. `Feed = 3` gives a loop a
first, a middle and a last turn with `Limit = 2` reached before the feed ends.
One midnight separates the two days of the join limit. The slots of `MCWarmup`
cover both spread rules, windows early, before midnight, across it and after it,
and the first, a middle, the sixth and a later position; 45 hours cover a first
day, the change to P3 after a one-day package (the code's 7 and 14 days differ
only in length) and the evening after; 400 minutes off cover any two
neighbouring windows. Beginning at 8:00 is the minute in which a window opens,
8:12 is between two ticks. One fault at any step is what the code's error paths
handle; a second hits the same paths. The bounds are the constants whose
comments say "bound", `Horizon`, `MaxOff`, `MaxBoots`, `Grace`, and the sizes of
the constant sets.

`CHECK_DEADLOCK FALSE` is set for `warmup` and `users`, whose clocks stop at
`Horizon` and `MaxTime`, for `logins`, where all requests may have been made and
answered, and for `runner_overlap`, which leaves out the events that would go on
for ever.

What the properties say:

- `ClaimsAreLocks`: ticks, and executions started by ticks, use the claim set as
  a lock: they never hold one task at a time, and a claim nobody holds is one a
  rejected call lost. `NoLeakedClaim`: such a claim is the only one that
  outlives its holder (the task is not picked up before the next restart).
- `RunningHasWorker`: a row that says running has an execution that will still
  write a final status, whatever requests, ticks and restarts interleave.
- `BatchInTurn`: the runner works on a task of a batch only after every task of the
  groups before has come to an end or was removed, whatever ticks overlap. It does not
  say that none of them is under way: a tick that read an earlier task as pending before
  it ended starts it again (section 4), and users and repeat cycles set tasks back.
- `DueServed`, `RecurringRearmed`: section 1's promises, checked without manual
  executions and resets, by which a user may take a task out of the runner's
  hands. A repeat cycle goes on only after an execution by the runner: a
  refused, stale, manually executed or interrupted run ends it, which the code
  does and no comment or document denies.
- `LaunchGuard`, `OneBrowserPerProfile`, `NoForgottenBrowser`: an account is
  never locked out by a failed launch; two Chromes on one profile occur only
  around a close, and after a hang or a replaced session (`lost`); a browser left to
  the tasks has its entry in the map and its idle timer, or is being closed. Two kinds
  of browser do stay open with nothing left to close them, and are excepted: those that
  an abandoned chat launch, a login, a registration or a shown window leave (`kept`),
  and those that a stale `closeSession` or an unanswered question takes out of the map
  (`suspect`: hazards at lines 428 and 170).
- `FewAfterCheckpoint`: after a checkpoint has been recorded, browsers are
  handed out only to calls that had passed the gate or could not read the row,
  until the 24 hours are over or a write takes the record away.
- `FileFollowsMemory`, `NoResurrection`, `RevocationTakesEffect`: the guard and
  the runner disagree only after the grace period and before the next heartbeat;
  a restart revives nothing; a revoked or rebound key stops working.
- `RevokedStaysRevoked`, `ChangesKept`: a session comes back only by the save of a row
  read before its revocation. A change of the user is undone only in the same way, by
  preferences that bring a `warmup` of their own, by the owner of the API key, or by an
  activation. The properties name these ways in; they do not deny them.
- `WithinQuota`, `OneRowPerEmail`, `DefaultsFew`, `CopiesFew`,
  `AttemptsBounded`, `AlertsFew`: how far the count-then-insert and
  find-then-insert races can go: each is an exact bound in the number of calls
  that overlap, and fails if a check is dropped. `CopiesFew` counts the items of
  overlapping imports, because one pack that repeats a number stores copies by
  itself.
- `ParentAgrees`, `PackageGoesOn`, `Served`, `FiresOnce`: progress and parent
  agree but for a failure between two statements, a stale save or a retirement
  by the tick (`loose`); the first six accounts of every group fire once in each
  window that opens after the start, unless the machine is off in it; the seventh
  never. A window that opens in the very minute of the start may be lost: the next
  tick comes after the turn of the first account.
- `TabsClosed`: no tab that an execution holds is left without an attempt to close it.
  The popup of a call, a tab whose `newPage` was rejected after opening it and one whose
  close was rejected stay open. `RunsWindDown`: no loop goes on for ever, not even
  before a button that stays where it was after each click. What social actions and
  chats report is what they clicked; nothing verifies it, so no property is about it.
- `OneHolder`, `BusyIsHeld`: an account is held twice, or idle in somebody's hands, only
  after an outdated copy was saved or it was restored under a worker (`loose`); it stays
  busy with nobody only when its last worker went in a crash or had its release
  rejected (`left`).
- `ShownAgrees`: a page at rest agrees with the server but for `claims` and `untold`,
  both of which the next list ends; an answer that came late or for another view is
  excepted likewise (`shown.why`).
- `GuardExact`, `SuccessKept`, `CancelledIsQuiet`, `RegistrationSettles`,
  `JoinsWithinLimit`, `PinNotLost`, `TasksEnd`, `PageCatchesUp`, `DialogsSettle`: as
  their comments say.

The history variables that properties except by name (`stranded`, `lost`, `suspect`,
`doubled`, `leaked`, `raced`, `early`, `stuck`, `taken`, `shared`, `loose`, `left`,
`untold`, `claims`) each stand for one race or failure that the code has, listed in
section 4 or as a hazard with a note: there the failure does occur, and the property
shows that it occurs nowhere else.

Every property of a passing run has a mutant: a plausible bug in one mapped
definition (the operators marked "mutation") under which TLC finds it violated.

## 4. Where the code and its own words disagree, and races it has

Two are checked as runs that TLC must find violated:

1. **A finished task is started again** (`runner_overlap`). The claim set
   forgets a task when its execution ends, and the UPDATE to RUNNING does not
   ask for `pending`; a slow tick restarts what an overlapping tick has run.
   `task-auto-runner.service.ts:77-79`.
2. **Two machines activate one key** (`license_bind`). `license-server/src/routes/license.ts:39`.

The others are in the models as the code has them, where the properties' stated
exceptions show them; they are listed here because a reader of the code will
want to know.

Task runner and pool:
- A cancel after the last look at the status is overwritten with completed
  (`simple-tasks.controller.ts:670` says it is not).
- Accounts that launch together pass the global limit
  (`browser-session.service.ts:37,191`), and the idle timer closes a browser that
  another task still uses (line 39).
- A manual run of an action the controller does not know is completed without
  doing anything; the runner fails it.
- A task of a batch may be started from a stale SELECT, so an earlier group may be
  running again while a later one does.
- An `updateStatus` whose UPDATE succeeds and whose following `findOne` rejects leaves
  the row running, like the rejections that the model has.
- Failures inside a combo are shown as completed; a failed chat reports no
  messages; a post is never verified, nor is what a social action or a chat counts
  (`facebook-social.service.ts:74-80,138,206,378,459`).
- A `closeSession` that comes back after the account has a new browser, or a browser
  that did not answer in time, takes the map's entry away from a browser that lives on
  (`browser-session.service.ts:170,428`): no timer closes it.

Checkpoints:
- A login writes `idle` (`facebook-login.service.ts:76`) before it asks for the
  browser, so a banned account is opened again, although
  `checkpoint-detector.util.ts:85` calls the ban hard. A soft checkpoint after a
  ban replaces it by suspicious and 24 hours.
- The runner's `ensureLoggedIn` does not look for checkpoints, and neither copy
  scans a page that counts as logged in. `simple-tasks.controller.ts:521-524`
  says the account was cooled down even when nothing matched;
  `browser-session.service.ts:395` says the browser is closed, but every caller
  passes `closeOnDetect: false`. The gate goes on when the row cannot be read.

Warm-up:
- Windows missed over midnight, or several in one outage, are not counted
  (`docs/自动养号系统说明.md:337`); the red threshold of six a day (line 338)
  cannot be reached with three windows.

Integrations: a misread "create PIN" dialog stores a wrong PIN; the cap of six
friend requests is per execution, though `facebook-social.service.ts:87` says
per day; a rejected `page.authenticate` leaves the tab it was for open
(`browser-session.service.ts:326-331`), and a rejected close is swallowed
(`facebook-chat.service.ts:117-118`).

Logins: two logins may pass `loginInProgress` together; a rejected UPDATE at
line 75 leaves the account in it; the delayed close closes whatever browser the
account has by then; a registration whose Facebook ID another row has ticks for
ever; a crash leaves `registering`; a cancel before the watcher starts leaves a
watcher and a browser behind.

Accounts: `save()` of a stale copy revives a soft-deleted row and re-inserts a
purged one; `create` purges the soft-deleted row of its e-mail and may then
fail, losing it; `facebookId` is unique across soft-deleted rows; a quota of 0
counts as 10. Other saves of `facebook-accounts.service.ts` write back the PIN
of the row they read, as `PinNotLost` says of executions.

Users and sessions: the user's status is not looked at by
`jwt-auth.guard.ts:32-35`, because `jwt.strategy.ts:31-37` always answers
"active"; an administrator's password reset revokes no session; a refresh token
dies with its access token; two logins in one second share a token string;
activation re-activates a suspended user and restores the license's password;
nothing calls `cleanupExpiredSessions`. `setDefault` of a removed proxy leaves no
default. `updatePreferences` with a `warmup` in its body replaces all the settings under
it, the API key among them (`users.service.ts:404-419`).

Chat scripts: a pack that repeats a `scriptNumber` stores copies
(`chat-scripts.service.ts:105-144` does not note what it has inserted), although
`import-script-pack.dto.ts:7` calls the number unique.

Inactive modules: the log of a manual recovery stays running for an hour; an
alert's severity is never raised and an acknowledged one may be saved active
again; `assignTaskToAccount` after `acquireAccount` always fails; busy rows are
not reset after a crash, nor after a release that the database rejected
(`account-manager.service.ts:134-137`); switching to a fallback account asks for
the failed account's own id, so it finds that account or nothing; a dialogue
whose result says it failed is logged as completed.

Pages: a stopped task is shown as failed where the server has cancelled
(`TasksPage.tsx:503-505`), a start that the server refused with `success: false` as
running (921-925); a registration's start, failure and cancel do not refresh the
accounts (`AccountsPage.tsx:1208-1215`); a stale answer for another account settles the
registration dialog; a late answer sets the log dialog back to running after its timers have
stopped (`TasksPage.tsx:437-483`), and the answer to its stop button may mark
another task's dialog cancelled; an import into the language already shown does
not refresh the list (`ChatScriptsPage.tsx:114-138`); lists of another tab or page
may arrive last; a deletion hides its row even when it failed
(`TasksPage.tsx:905-911`); a created row may be shown twice until the next refresh;
the registration dialog, closed while its start is under way, goes on polling,
may mark a reopened form as a success, and may leak a timer; its polls go on for
ever after errors (`RegistrationModal.tsx:62-83`).

## 5. Fairness

`TaskRunner`: cron fires for ever, and every await settles (database calls and
browser operations carry timeouts), so each tick and each execution goes on:
weak fairness of `TickStep` and `JobStep`; time passes. User requests, license
changes, crashes and failures carry none. `License`: the heartbeat cron, the
15-second timeout of axios (a request is answered or lost), the application of
replies and the clock; none for users, administrators, restarts. `Warmup`: the
cron tick and its statements. `Logins`: the watcher's interval and its
statements. `Executor`: the steps of a worker that executes a task; a worker
need not take one. `Pages`, `TaskLog`, `RegisterForm`: intervals fire and
requests are answered or fail; users need not click. In a run with a `part` the
fairness of the others asks for nothing, because what it speaks of is disabled
in them. The other modules state safety only.

## 6. Proofs

`TaskRunnerProofs` proves, for all sets `Task`, `Tick`, `Job` and all
`Events`, from `ConstantsAssumption` alone:

- `TypeCorrect`: `Spec => []TypeOK`. `TypeOK` carries, besides types, the shape
  of ticks and executions (a tick has a current task exactly between claim and
  release; a slot is free exactly when it is clean), which the rest needs.
- `ClaimsAreExclusive`, `ClaimsAreReleased`: neither is inductive without the
  other's context. The invariant is their conjunction: a new claim is
  exclusive because everything claimed is in `running` and `Held` looks there,
  and a released claim leaks nothing because the holder was the only one.
- `RunningRowsHaveWorkers`: inductive with `TypeOK`; the only writers of
  "running" are the two steps that make an execution enter its body.

`TaskRunnerProofs` also proves that `TaskRunner` implements `TaskClaims`
(`ClaimsImplementLocks`) from the same invariant: each lemma says which step of
the lock a change of ticks, executions and claim set amounts to, one lemma per
group of actions says that an action makes such a change, and stuttering is the
case in which nobody's claim changes. And it proves `GroupsTakeTurns`:
`BatchInTurn` for any number of tasks, groups, overlapping ticks and executions
and through requests, repeat cycles, crashes, failed database calls, removals
and an expired license, without an assumption about any of them. Its first form,
that no earlier task is pending or running while a later one is worked on, is
false as soon as two ticks overlap: a stale SELECT starts an earlier task again.
What is true is about the past: `InTurn` says that a batch is created in the
order of its groups (`RowsInTurn`), that a tick knows only tasks that were
created, and that a tick about to start a task has seen all of the earlier
groups in `ended` (`TickInTurn`); since `ended` only grows, what a tick has seen
stays true whatever is set back before it goes on.

`BrowserSessionProofs` proves `browser_safety`. The pool's part, for all sets
`Account`, `Call`, `Browser`, every `MaxSessions` and all `Events`, from
`PoolAssumption` alone:

- `PoolTypeCorrect`: `Spec => []TypeOK`; `TypeOK` also says that a map entry
  has a browser and that a caller has an account until it leaves.
- `LaunchesAreGuarded`: `LaunchGuard` is inductive with `TypeOK`. It names the
  one call behind each mark, so the mark that a launch removes was its own.
- `OneBrowser`: `OneBrowserPerProfile` is not inductive. `PoolInv` adds
  `MapKnowsBrowsers`: a live browser that nothing closes and nothing forgot is
  the one in its account's map entry, and an account being launched has no
  ready entry. Thus a launch never overwrites the entry of a browser that
  lives on, and two such browsers of one account would be the same map entry.
- `NothingIsForgotten`: `NoForgottenBrowser` starts from the browsers, not from the
  map, so it needs to know that a browser is in the map. `MapKeeps` says so of every
  live browser that is not `suspect` and not being closed. It rests on `Alone`: whoever
  is closing, asking or exiting for an account means the browser of the entry, unless
  that browser was launched beside another, which is what makes it suspect.
  `EntryHasCloser` then gives the timer: every way out of a call is `Leaves`, and
  `LeavesEffect` says what it leaves behind.

The cooldown's part, for any finite number of calls and any bound on failed reads
(`CallerAssumption`):

- `CooldownInvariant` and `CheckpointHolds`: `FewAfterCheckpoint` counts the browsers
  handed out since the checkpoint and says nothing of those that are to come.
  `GateHolds` adds the calls past the gate to them (`Past`: about to launch, asking the
  proxy, or starting Chrome), and that the row still bars; the call
  that made the record is not among them, hence "fewer". Who passes the gate afterwards
  does so because a read failed, which `faults` counts.

`LicenseProofs`, for any machines, keys, restarts and any `Grace` above 0, from
`LicenseAssumption`:

- `LicenseTypeCorrect`, and `FileAndMemory`: `FileFollowsMemory` is inductive with the
  types; what it takes is that every writer of the memory writes the file in the same
  step, and that the clock alone moves the one and not the other.
- `NothingResurrected`: the action property follows from it: a restart loads the file,
  and the file is valid beyond the memory only when the grace period is over.

And for any sessions, devices, settings and calls that overlap, from `UsersAssumption`:

- `SessionsTypeCorrect`: a call that is about to save carries a copy, of the kind
  it saves: a session for a refresh or a revocation, else the user.
- `RevocationKept` and `NothingUndone`, action properties: the actions are sorted by what
  they write, a saved copy, a mark that only revokes, or a row that is new or gone. Only
  the first can undo, and then by what its copy lacks or, for preferences, by the
  settings of the warm-up that their body replaces.

`ExecutorProofs`, for any accounts, workers, clerks and faults, and any script, from
`ExecutorAssumption`:

- `ExecutorTypeCorrect`, `PoolAgrees`, and from it `AtMostOneHolder` and
  `NoBusyWithoutHolder`. Neither property is inductive: a worker about to save its copy is
  not a holder yet, so the row must say idle while a copy that is not outdated waits to
  say busy. `Agrees` says this of every account outside `loose`, for all the
  saves under way; whoever saves first outdates the copies of the others. A release that
  is rejected takes the holder away and not the mark, which is what `left` records and
  the only such step beside a crash.

`LoginsProofs`, for any accounts, requests, overlapping ticks and faults, from
`LoginsAssumption`:

- `LoginsTypeCorrect`, and `GuardIsExact` by `Exact`: an account in the set has one
  working login, and then no second is about to join. The many actions are first
  sorted into the few kinds of change that the argument tells apart.
- `CancelledStaysQuiet` by `Quiet`, which says of a cancelled registration that neither its
  launch nor a tick will start a watcher again; `SuccessIsKept` by `Saved`, which says of
  an account that succeeded who may still write its columns, and what.
- `PagesInvariant` and `PagesAgree` (`Pages`), for any views, any bound on the lists in
  flight, and any failures, from `PagesAssumption`: `ShownAgrees` speaks of a page at
  rest. `LastAgrees` says the same of the list asked for last, from the moment the
  server has answered it, together with what handlers have since put into `claims` and
  `untold`: whatever arrives before only comes earlier, and whatever
  arrives after makes it late.

`AccountsProofs`, for any ids, e-mails, requests and quotas, from
`AccountsAssumption`:

- `SmallestFreeIsFree`: what `allocateAccountNumber` computes, for every table; that a
  free number exists at all is an argument by cardinality.
- `OneAccountPerEmail`: the property needs `Relies`, that what a creation has looked up
  still holds unless somebody has since made it unsure.
- `AccountsWithinQuota`: `WithinQuota` is not inductive, because a creation that has
  counted and a copy that is saved later both add rows. `Bounded` counts the rows that are
  live or held by a copy, and every creation past the count, as if all had been added.

Then the bounds of `Configs` and `Recovery`, for any number of proxies and overlapping
requests and any limits, from `RowsAssumption` and the finiteness of `Request`
(`RowsInvariant`). The names of alerts are twice the requests, which is enough: those
active and those held by a check are never more than the requests. Each bound counts
what is there together with what the calls under way are about to add:

- `DefaultsBounded`: the marked rows and the marked copies, as one set, and the calls that
  have cleared the marks and are to set one.
- `CopiesBounded`: the copies of a script and the items that calls are still to insert
  under its number (`Waiting`), a set of pairs of a call and a place in its pack.
- `AlertsBounded`: the alerts active or held and the checks that found none.
- `RecoveriesBounded`: each detection that passed the test counts for the two rows it may
  come to insert (`Main`, `Back`), a manual one for a third. What is
  counted drops only as rows are written, so the sum grows with manual requests alone.

They rest on a few lemmas about finite sets (`ImageFew`, `ApartFew`, `SmallerFew`,
`OneMore`, `OneLess`).

`IntegrationsProofs`, for any accounts, executions, jobs, PINs, limit, feed, midnights
and faults, from `IntegrationsAssumption`:

- `IntegrationsTypeCorrect`: `Fits` relates the counters of an execution to its stage.
- `ExecutionsWindDown`: every step of an execution lessens `Distance`, which `Fits` makes a
  natural number, so no loop goes on for ever, whatever the pages show. This is a proof of
  an action property; that each step is taken at all is left to the code.
- `NoTabLeftBehind` by `TabsGone`: every way out of an execution closes its tabs or has
  the close rejected; a tab half open was never among those it holds.
- `LimitHolds` by `Within`: the groups entered on a day are at most one ahead of the
  history, and an execution's allowance fits into the day with them; `Apart` says that
  accounts outside `shared` have one execution at a time.
- `CreatedPinsKept` by `Fresh`: the copies that an execution holds are what the database
  has. The attempt to prove it showed that a pair of an account with itself has to count
  as shared: one side then overwrites what the other has saved. `shared` says so now,
  and the run includes such a call.

`WarmupProofs`, for any accounts, parents, requests and faults, from
`WarmupAssumption`:

- `WarmupTypeCorrect`, with `Owned`: a row, and every copy of one that is under way,
  points to a parent of its own account.
- `ParentAndProgressAgree`: `ParentAgrees` is not inductive, because it excuses
  everything at an account where a request is under way. `Settles` excuses only the one
  parent that a request has yet to tell, or those of a reset that has deleted the row and
  not the tasks, and adds that no row points to a parent that is gone; without it a
  resumption would agree with nothing.

And `WarmupSchedule`, for any groups, positions and starts, any length of the package, any
end and any outage, from `ScheduleAssumption` (a group has its number among the groups,
and times are natural numbers):

- The arithmetic of `warmup-windows.util.ts` first: `Rotation` turns the test that may pass
  midnight into one on the minutes since the window opened, so `TurnIs` and `ActiveIs` say
  when a turn has come and a window is open; `OneOpen` says that two windows are never
  open at once, for any group and any spread; `OneTick` that a turn holds one tick a day.
- `ScheduleInvariant`: every turn that came since the start has fired or was cut
  (`TurnsTaken`), nothing is in the history whose turn is to come, and `lastFiredWindow`
  is the key of a tick in its turn. The last is what makes a new turn of the same window
  on the same day impossible, although the key changes at midnight inside a window.
- `WindowsServed` and `WindowsFireOnce` follow from it. The attempt to prove `Served`
  showed the window that opens in the minute of the start; TLC had not met it because
  its instance began between windows. `Over` now excludes it, and the run begins there too.

Layout: lemmas on what a write, a tick, an execution or a caller leaves behind,
then per invariant one lemma per group of actions and a PTL step.

Model-checked only: liveness (`DueServed`, `RecurringRearmed`,
`RevocationTakesEffect`, `PackageGoesOn`, `RegistrationSettles`, `TasksEnd`,
`PageCatchesUp`, `DialogsSettle`), which is out of the prover's reach. Every safety
property of a passing run is a theorem. `TaskLog` and `RegisterForm` have none: what
is asked of them is `DialogsSettle`.

## 7. Limits

Every component but the deployment is modelled in part; `PROJECT.json` says what
is left out of each. The most important: the log store and its caps, the task
quota, cloud-mode subscription checks, plan limits, reads and statistics, failed
writes of the cache file and a missing `.env` (the file's deletion is modelled),
a crash of the backend while Chromes run, several delayed or pending closes of
one browser at once (merged into one), page contents, forms and layout of the
frontend, a page that closes while a tick scans its cookies. Not modelled
because nothing in the program reaches them: the frontend's account-wizard,
login-status and VPN-association components and SetupAccountPage, which no route
imports, and `handleToggle` of `TasksPage.tsx:913-919`, which nothing calls.
AntiDetectionPage keeps its rows in memory only, and the Dashboard only reads.

Also left out: the exemption of administrators from the account quota
(`facebook-accounts.service.ts:118,122`), so `WithinQuota` speaks of users; a failing
read of the group count or of an account's position (`warmup.service.ts:444-478` fall
back to 3 groups and position 0), so `Served` and `FiresOnce` take these reads to
succeed; and the task list's limit of the 100 newest rows, so `PageCatchesUp` and
`ShownAgrees` speak of those.

What was not run: user edits of the PIN, a chat of an account with itself (a call is
run), and the cap of six friend requests at its full size.

## 8. Plan

1. `License` and `TaskRunner` composed over the cache file; `Integrations` and
   `BrowserSession` composed over the pool.
2. The log store and the task quota.
