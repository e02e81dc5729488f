# AUTO-BUAATOOLS: models, checks and proofs

The program keeps a student's attendance at a university: it signs the student
in to lessons on the iClass system, selects Boya (博雅) lectures, drives TD
physical-education check-ins and reports over WeChat.  It is one Python process
per user: a FastAPI server on one asyncio event loop, an attendance daemon as a
task on that loop, and threads for Boya, TD and WeChat.

What is hard in it is one thing, met again and again: a *write to a school
system that has no idempotency of its own*, asked for by several actors (a
button, a daemon, a second client object), over a network that loses answers,
in a process that dies at any moment.  A blind resend, a request after the
student withdrew it, a success noted without proof, a lesson silently given
up: these are what the models are about.

Paths below are relative to `src/`.

## 1. Inventory

| Part | State it keeps | Operations | Talks to |
|---|---|---|---|
| Operation ledger, `core/operations.py` | SQLite table `operations(key, state, attempts, updated)`, plus reservations, selection snapshots, exclusions | `claim`, `finish`, `failed_before_send`, `confirmed`, `settle_group`, `forget_*`, `reserve`, `observe_selected`, `prune` | every writer, from several threads; one transaction per method |
| Retry policy, `core/regular_policy.py`; windows, `core/domain.py` | none | pure functions | ledger's `claim`, daemon, sign-in client |
| Sign-in client, `core/iclass.py` | `_signin_lock`, `user_id`/`session_id`, `actual_sign_posts` | `perform_signin`, `get_classes`, `login_iclass` | ledger, school |
| Attendance daemon, `core/scheduler.py` | `enabled`, `generation`, tick lock; per account `signed_courses`, `failed_permanently`, `retry_counts`, `planned_targets` | `start`, `stop`, `_check_account`, `_check_course` | sign-in client, account handlers, course pauses |
| Course pauses, `core/regular_course_policy.py` | saved rows and an in-memory failsafe | `set_pause`, `allowed` | daemon |
| Account handlers, `server/app.py` | `AccountState`: `removed`, `maintenance`, `auth_epoch`, `auth_lock`, client | manual sign-in, connect, login, switch mode, dispose, automatic switches | all of the above |
| Boya write protocol, `core/boya_actions.py`, `boya_client.py` | ledger rows, daily quota, reservations, selected list | `perform_boya_action`, reconciliation, `observe_selected` | ledger, school, two threads |
| Boya daemon, `core/boya_scheduler.py`, `boya_auto_rules.py` | thread, network incidents, back-off | `start`, `stop`, `_tick`, recovery | Boya client |
| TD engine, `core/td_scheduler.py`, `td_store.py`, `td_client.py`, `td_policy.py` | one job per student and day in a SQLite file of a private directory, the loop of ticks | entry, exit within 420 s, recovery after restart, manual batch | TD server, licence |
| TD licence, `core/td_license.py`, `server/td_routes.py` | a signed licence with an end | activate, renew | TD engine |
| Registry of accounts, `server/app.py` | `accounts` by name, the configuration file, locks of loop and threads | login, connect, remove, Boya and regular switches, `sync_config`, `persist_switch` | Boya daemon, all handlers |
| WeChat, `core/wechat*.py`, `course_reminders.py`, `server/wechat.py` | bounded queues, reminders claimed on disk | bind, configure, unbind, poll, enqueue, send, claim a reminder | every reporter |
| Management sessions, `server/management.py`, `core/management_store.py` | sessions, first-run setup | log in, log out, set up | web interface |
| CAS, WebVPN, Boya cryptography | cookies | page parsing, encryption | school |
| Vault, profile, updates, rendering lifecycle, presentation, packaging, tools | files | I/O | operating system |

### How the parts of the core interact

* `asyncio` is cooperative: between two awaits nothing else of the event loop
  runs.  The clock, the network, the school and a crash are not bound by that.
* Three kinds of locks are taken around a sign-in: the daemon's tick lock, the
  account's `auth_lock`, the client's `_signin_lock`.  A removed-and-added or
  re-created account has a new client, hence a *new* sign-in lock: then only the
  ledger keeps two callers apart.
* Guards are evaluated at entry, after the reads and once more after the claim.
  They compare `generation` and `auth_epoch`, not just flags, since
  a flag may have gone down and up again in between.
* The daemon reconnects an account in the middle of a pass, by calling the same
  handler as the user; the pass then follows the account to its new client.
* A crash keeps the ledger, the saved pauses, the configuration file, the TD store and
  the file of WeChat bindings, and nothing else.
* The Boya worker is a thread. It holds the lock of an account over its network calls and in
  the middle of one asks the event loop for the ordinary timetable, waiting up to thirty
  seconds. Handlers take that lock in threads, and in two places on the loop itself.
* `remove_account` takes the account out of the registry before it waits for whoever
  still works for it; a login meanwhile builds a second object under the same name.
* A TD tick holds the account's TD lock over its requests; removal, a new login,
  the clock and the end of the process do not wait for it, its guards have to tell. The loop of
  ticks is begun at startup if the private directory exists, by a queue and by the switch, not by a manual
  phase (`server/td_routes.py:116-178`), and ended by the shutdown.
* The WeChat sender holds a gate from its last check to the provider's answer; the page's
  requests take the same gate, so that nothing is sent once they have been answered.

### What makes each part correct

* **Ledger and client**: at most `MAX_POSTS` requests really leave per lesson and
  day, in spaced groups, none while an earlier one is unresolved, over crashes and
  refunds; every caller returns.
* **Daemon**: what it remembers of a lesson (signed, given up) is true; its
  first attempt comes before the lesson begins; a stopped run never sends; a pass ends.
* **Pauses**: no request for a paused course, also if saving failed.
* **Account handlers**: nothing is sent by a call that began before a switch,
  removal or reconnection; nothing leaves from a closed client; no deadlock.
* **Boya**: the same at-most-once promise over all scopes of a lecture, with a budget
  charged along with the claim; no automatic selection of a lecture the student gave
  up, nor of one that overlaps a selection still undecided.
* **TD**: no more entries than the day's limit, nothing resent whose outcome is
  unknown, the exit within its minutes, nothing sent after it was called off, no pair left
  open for ever while its loop runs.
* **WeChat**: a reminder is sent at most once and only while it is wanted, is never lost to
  a notice that matters less, and what the page says of it is true.
* **Registry and Boya daemon**: an account removed or a switch stopped stays silent, a change
  that could not be saved is taken back without reviving a stop, an incident ends only by
  two good readings, and no request waits for ever over locks of loop and threads.

`PROJECT.json` lists the hazards one by one with their lines and the properties
that answer them; those without a property say why.

## 2. Modules

```
RegularPolicy   OperationLedger          pure operators
        \         /
       IclassSignin ----refines----> AtMostOnceWrite   (abstract promise)
        |        \
        |         IclassSignin_proofs    theorems
   SigninAccount                         button and handlers
        |
   SigninScheduler                       daemon, pauses, whole system
        |
   SigninScheduler_proofs                theorems, on top of IclassSignin_proofs

   OperationLedger ---- OperationLedger_proofs (rows), used by both proofs
        |
   BoyaSelection                         threads, lock, quota, reservations
        |
   BoyaSelection_proofs <- BoyaIntent_proofs   theorems

   BoyaDaemon                            thread, checks, incidents
        |
   AccountRegistry                       pages, registry, configuration file
        |
   AccountRegistry_proofs                theorems

   TDEngine                              pairs of requests in time
        |
   TDEngine_proofs                       theorems

   WechatDelivery                        queue, file, gate, reminders
        |
   WechatDelivery_proofs                 theorems
```

| Module | Models | Correspondence |
|---|---|---|
| `OperationLedger` | rows of `operations` and each method on a row | One operator per method, as each method is one transaction. `group` are the rows of the same group: empty for a sign-in. |
| `RegularPolicy` | `regular_policy.py`, `regular_allowed` | The program's 6, 3, 30 s, 60 s, 300 s are CONSTANTS of the same order. |
| `AtMostOnceWrite` | the promise | A permit per operation: acquire, deliver, withdraw, refuse, close. Not translated from code: the specification of it. |
| `IclassSignin` | `perform_signin` | One action per stretch between two awaits: `Call`, `Enter`, `LoginDone`, `ListDone`, `TimeDone` (where the claim is made), `Recheck`, `Transmit`/`ConnectFails`/`Response`/`ResponseLost`, `Return`, cancellation, `Crash`. `ledger`, `lock`, `session`, `call` are the code's state; `signed`, `stray` the school's; `sentAt`, `answered` history. |
| `SigninAccount` | `AccountState`, the button, connect/login/switch/dispose | Extends the above. A handler goes (leaving →) auth → sign → work. A client is never reused. |
| `SigninScheduler` | `scheduler.py`, `regular_course_policy.py` | Extends the above: `daemon`, `pass`, `memory`, `pause`. A pass goes queued → (reconnect) → list → courses → signing → … The passage `courses` has no await and excludes every other step of the event loop. |
| `BoyaSelection` | `perform_boya_action`, the write path of `boya_client.py`, `observe_selected` | Threads with a lock. One action per stretch between two points at which a thread may be suspended or the process die: each ledger transaction that matters by itself, each reading of the list, the POST. `rows`, `quota`, `excluded`, `snapshot`, `reserved` are the tables; `school` the enrolments and the list, which lags; `stray` requests nobody waits for; `history` what left, what is resolved, what the student gave up. |
| `TDEngine` | `td_scheduler.py`, `td_store.py`, `td_client.py`, `td_routes.py` | One transaction claims the next phase (`Tick`, `Manual`, both `Transaction`); the flight is then one action per guard, request and answer: `Begin`, `Connected`, `Leave`, `Accepted`, `PhotoAccepted`, `Commit`, `Fail`, `Rejected`, `FailUnsaved`. `jobs[d]` is the row of a day, `profile` the student's, `school` the history: where the student is by what was acknowledged, entries that left, exits acknowledged. |
| `WechatDelivery` | `wechat.py`, `course_reminders.py`, `server/wechat.py` | `memory` and `file` are the binding as the process has it and as the disk has it; `write` a save under way in its thread, `gate` and the store's lock as in the code; `at` where poller, sender, reminder loop and the page's request stand. |
| `BoyaDaemon` | `boya_scheduler.py`, and `perform_boya_action` as it calls it | `daemon` the thread's life, `check` the check of one account with its place and locals, `lock` and `loop` who holds the account's lock and the event loop, `incident` with readings and their age. |
| `AccountRegistry` | `server/app.py` around the registry | Extends the above: `page[p]` is a request, `listed` the object registered under the name, `file` what the disk holds, `said` the stops the pages were told are saved. |
| `MC…` | | instances for TLC |

Each module also holds, under "Faulty variant", plausible slips of the code next
to the definition they alter. They are no part of the specification: they serve to
confirm that every property fails when the code has that slip.

Abstractions that matter:

* The date in a ledger key is dropped: the window of a lesson lies in one day.
* A day is a handful of clock ticks; delays are 0 to 3 ticks, in the code's order.
* A school answer is *accepted*, *refused* (a definite "no") or *denied* (401/403,
  which also drops the session).  Everything else (timeout, broken connection,
  malformed or contradictory answer) is `ResponseLost`: the request may still
  be handled later (`stray`).
* The school's list may lag: a row for a signed lesson may still show it
  unsigned, never the reverse.
* The random first target is every value `_check_course` may draw.
* `actual_sign_posts` is represented by `pass.others`: the requests for *other*
  lessons the daemon's client sent during its call.
* Boya has no clock: windows, the pause of 60 s between selections, full lectures, a
  switched-off daemon and a passed epoch are refusals that may always occur, since
  no property of that module needs one to happen. A day is one life of `quota`.
* What makes a candidate unsuitable next to another (an overlap, a category already
  full) is the relation `Exclusive`; coordinates, paging, categories are left out.
* TD: a unit of time is about a minute; the counter is whether the target is reached; settings are
  how many entries a day they allow and on which days; photos are groups; the licence is its end.
* WeChat: back-off and waiting are steps not taken, so nothing is assumed of when things are
  sent; the ten minutes after which a notice is stale may pass at any time; a save may fail
  (`Faults`), the file may be unreadable once at a start.
* Registry: one student, hence one name and one object after another; cool-downs and the minute
  between readings pass at any time, but the order of failures and readings is kept
  (`age`, `calm`).  The wait for the sign-in lock is one step, as `SigninAccount` has it in full.
* The reconnection of the daemon is the handler `Reconnector`; whether it
  results in the same client, a new one, or no session is a choice, and so is whether the pass
  takes it for a success.  That it may end early, in a cool-down or when a password has to be typed, is one
  of its outcomes.
* `Listings` are the sets of lessons a list may show; the theorems hold for every choice of them.
* TD: `ticking` is whether the loop of ticks runs. At the closing transaction the tick holds either the row as
  claimed or the acknowledged one (`Local`); when that transaction fails, it is the one saved as uncertain.
* `WechatDelivery!Restart` is the start of a new process. A `start()` after a `stop()` in one process would keep
  `pending` (`core/wechat.py:118-133`), the codes on show; the lifecycle of the server starts it once.
* `BoyaSelection!ObserveSelected` compares with one snapshot. The code keeps one per range of dates asked for
  (`core/operations.py:156`, `core/boya_client.py:369`), a new range starting from an empty one, so that the
  disappearance of a lecture goes unnoticed when the range changes in between; the model is of one range.

## 3. Runs

`MaxPosts` etc. are reduced; what matters is that the cases occur: two groups,
a group boundary reached again after a refund, a group pause before and after the
start, a clock that moves inside every await.

| Run | Instance | Question |
|---|---|---|
| `signin_one_client` | button and daemon on one client, 4 requests in groups of 2, clock to 8, one tick of skew | Budget, spacing and no blind resend of *real* requests (not of rows), and refinement of `AtMostOnceWrite` |
| `daemon_control` | two lessons at once, button and daemon on one client, a budget of one, pauses saved or not, crashes | A lesson is given up only on a budget spent for good; a paused course gets no request |
| `account_handlers` | switch, removal, reconnection against button and daemon, two client objects | Nothing sent after authority was withdrawn nor from a replaced client, and nothing remembered as signed without proof |
| `account_handlers_live` | login, switch, removal, daemon with reconnection, stop and start, up to two generations | Nobody waits for ever over three kinds of locks, a pass cancelled at any await included; a call of a former run sends nothing |
| `daemon_quiet_day` | clock to 24, a lesson starting at 24, interval 5, margin 4 | The first call comes before the start, whatever the draw and the placement of wake-ups |
| `boya_selection` | one lecture, two scopes, budget 2, one claim per row; student, daemon and a page; crashes; the student may also drop elsewhere | Budget of selections and no blind write over all scopes; no lecture given up is taken again |
| `boya_rivals` | two overlapping lectures, one scope; the student also selects and drops elsewhere; the daemon also synchronises | The reservation keeps the daemon from the rival of a selection in force or undecided |
| `td` | one day of 10 units with a window of 8, pairs of 3, two rounds, a licence that ends at 6 or 10, one removal, one restart, the loop of ticks running or not | Nothing repeated, over budget or after it was called off; pairs can be and, while the loop runs, are ended |
| `wechat` | two reminders and ordinary notices, a queue of one, two bindings, a failure to save or read, restart | At most one delivery, only while wanted, true records, no reminder lost to less |
| `accounts` | two account objects, two pages, two requests, one fault or restart | What was removed or stopped stays silent; changes taken back; recovery; no deadlock of loop and threads |
| `wechat_disable` | one reminder, no faults | **Violated**: see below |
| `accounts_saved` | one object, two switch requests, no faults | **Violated**: see below |

Why the bounds suffice. Callers interact only through the ledger row, the lock and the
session, so a second caller, and a second client for the case of two locks,
already gives every pairwise interleaving; the proofs of section 5 remove the
bound for the budget and for blind resends. In the Boya runs the lock lets one
thread in at a time, so one thread of the student and the daemon's give every order;
one claim per row and two requests a day are the least with which a row can be exhausted
while the budget is not, a new scope opened, and a forgotten row claimed once more. `MaxEpoch` and `MaxGeneration`
allow one or two withdrawals of authority while one call is in flight, enough for
a call to see the value before, between and after. `Horizon` covers the window of
the lesson in every run in which time is what the property is about, and is 0
or 1 where it is not; delays are then 0, so that retries still happen. `daemon_control` therefore has no clock:
when retries fall is the question of `signin_one_client` and `daemon_quiet_day`. It has two lessons because a
request for one can be counted for the other, and a budget of one because a single miscount then gives a lesson up; the
excepted case does occur in it (`GivenUpSpent` without its exception is violated there). The run on two
clients, `account_handlers`, has no crash step; `NoFalseSuccess` with crashes is the theorem
`FalseSuccess`. In `signin_one_client` the pause
between groups during the lesson is longer by more than one tick than the one before it, so that the two can be told apart.

In `td` the day holds two rounds with their margins and ends before the licence in one case and after
it in the other; the pair is shorter than the margin, as 420 s is than 430 s, and `Wire` is the ten seconds a
request may take, so that a request can leave after the guard was true. One restart and one removal
suffice for a flight of before to be met after. In `wechat` a queue of one is full as soon as it holds
anything, so that a reminder does meet a full queue, is given up for a more urgent one, or drives out a notice; with a queue of
two (checked once, 6.2 million states) nothing else is found, and what needs longer queues, several reminders
withdrawn at once, is left to the proof. A second binding is what an entry of the first can be mistaken for. In `accounts` two
objects are the least for a removal to cross a login, two pages with two requests for two handlers to
cross each other and the worker.

In `boya_selection` the student's enrolments on the school's own pages are left out, in
`boya_rivals` the drops in the program and the page: all at once is beyond TLC in the time of a
run. `boya_selection` has each kind of interference that can bring a dropped lecture
back, `boya_rivals` each that can hide a rival.

`CHECK_DEADLOCK FALSE` is set where the system really stops. In the two configurations of the handlers a removed account has no handlers, no button and no daemon
pass that does anything once `MaxEpoch` is used up. In the quiet day the clock's bound is
the end of the run. In `td` it is the end of the last day, in `accounts` the number of requests, after which an
idle registry with its daemon stopped has nothing to do (that nobody hangs is `PagesAnswered`); in `wechat` a removed account whose
notices are spent. Where it is set, and where a crash is always possible, the check for deadlock says nothing of
who hangs. That handlers and passes end, those cancelled at any await included, is `HandlersFinish` and
`PassesFinish`: `account_handlers_live` has no crash, and `MaxGeneration` lets the daemon be stopped in
the middle of a pass and started again.

### Fairness

`FairLife` assumes strong fairness of coroutines that can be resumed
(otherwise than by a cancellation), of handlers and of passes, and nothing of the network, the school or the clock.
Each await is either an httpx request with a timeout, after which the
coroutine is resumed with an exception (`ResponseLost`, `ReadFails`,
`ConnectFails`), or an `asyncio.Lock`. Strong rather than weak fairness is needed
for the locks, which are enabled again and again rather than continuously, and
is justified since `asyncio.Lock` wakes its waiters in order and the
loop serves ready callbacks in order. New calls are not required to happen.

`TDEngine!LiveSpec` assumes that the clock and the steps of a flight go on, each network call having a deadline of its
own and `Fail` being always possible, and that ticks come round *while the loop runs*: `Tick` is possible only
then, every five seconds. The loop begins with `StartBatch` or the switch (`StartTicks`), or at a restart that finds
the private directory and can open it, and ends with `Close`. `PairEnds` claims nothing outside that. It is not assumed that
requests succeed or that the student acts. `AccountRegistry!LiveSpec` assumes weak fairness of the
worker thread, whose waits all have a timeout, and strong fairness of each page's request, which may wait for a
contended lock.

### What the violated runs show

* `wechat_disable`: `configure` records as "disabled" every entry it clears from the queue. The
  sender takes its entry out of the queue (`core/wechat.py:452`) before it waits for the gate. If the
  student switches the channel off in between, `configure` does not find the entry, and the sender, which
  then sees the channel off, drops it without a record (line 460). Nothing is sent, as it should be, but the
  reminder stays "queued" on the page for good.
* `accounts_saved`: `toggle_boya_auto` saves in a thread, the regular switch on the event loop.
  `sync_config` collects the accounts, then writes and replaces the file, with no lock around both. The
  thread's older snapshot may replace the file after the regular switch was stopped, saved and reported as
  such. The README of the program admits this only for a pause that was reported as unsaved.

### Expectations the code does not meet, not run

Each of these is a definition of the named module, stated so that a configuration can check it:

* `IclassSignin!SessionHeldToPost`: `perform_signin` ensures a session at `core/iclass.py:471`
  and builds the request at line 511, three awaits later. `get_classes`, called
  outside the sign-in lock by the schedule refresh and the daemon, sets
  `session_id = None` when the school refuses the session. The request then cannot be
  built, the handler at 534-536 records "uncertain" although nothing was sent,
  and the lesson is refused for the rest of the day, unless the list shows it signed.
* `BoyaSelection!PendingKeepsPlace`: the program's README promises that an undecided selection keeps its place among
  the conflicts after a restart. Its ledger row is written before the request, its
  reservation after it (`core/boya_actions.py:210-214`). If the process dies in
  between, the lecture itself is still not selected again, but the daemon may ask for one
  that overlaps it. `NoConflictingHold`, the same promise with the selections
  excepted that a crash cut off, holds.
* `TDEngine!RemovalStops`: "Removed flag is already set before this hook, so transport preflight cannot
  authorize another request while we wait for an in-flight one" (`core/td_scheduler.py:201-202`). The preflight asks for the
  account *of that name*; a login during the wait registers a new object under it, and the old flight goes on.

Behaviour met while modelling that nothing in the repository promises otherwise, and that the models contain
or leave out as said:

* The daemon may give a lesson up although its budget is not spent, in two ways, which `GivenUpSpent` names as its
  exception (`memory.misjudged`, `Open`) and beside which, as it shows, there is no third:
  * When a lesson has no row, `_check_course` counts an attempt if `actual_sign_posts` *of the whole client* went up
    during its call (`core/scheduler.py:215`). The button's request for one lesson is then charged to another.
    `daemon_control` contains this. With the program's budget of six it takes that many such coincidences to give a
    lesson up, each of which also delays its next attempt.
  * The attempts the daemon reads may contain one of a caller on a second client object, which its
    connection's failure then refunds. The daemon's last call has to return late from the lock of a replaced
    client for that, which the order in which `asyncio` wakes waiters makes unlikely and nothing excludes; the model allows it.
* A TD pair opened by a manual phase in a fresh profile, with neither queue nor switch used, has no loop of ticks
  (`server/td_routes.py:116-124, 151, 162, 175-178`), and `status()` does not look at its deadline: it
  stays "waiting for the exit" on the page past its seven minutes until the next start, queue or switch. The exit
  itself is refused then (`Fresh`). The same holds after a start that could not open the store.
* A login that waits at the sign-in lock registers and saves an account anew that was removed meanwhile
  (`server/app.py:871-886`); the check at line 951 looks at the new object.
* Reservations are read when an account object is built (`server/app.py:235`); one that the old object writes while it is
  being removed is unknown to the new one until the next restart.
* The event loop waits for an account's lock in two places (`server/app.py:624, 855`) while its holder may wait for
  the loop (382): all students' pages stand still for up to thirty seconds. It is no deadlock (`PagesAnswered`).
  The README promises of the WeChat channels alone that a student's failure does not hold up the others ("一个学生的通道故障不应阻塞其他学生",
  `README.md:167`).
* A check under way of a removed object leaves its incident under the name, for the next account to find.
* A switch whose saving failed was on for a moment; another request's save in that moment keeps it.

## 4. What each property protects

Each is stated in words above its definition. In short: `PostBudget`,
`GroupSpacing`, `NoBlindResend` speak of requests that left the machine, recorded
when they do, independently of what the ledger says; `ImplementsWrite` relates
the ledger to the abstract promise step by step; `NoFalseSuccess` and
`GivenUpSpent` relate the daemon's memory to the school and to rows that later refunds and crashes may change;
`RevokedNeverPosts` relates a request to a withdrawal that happened any
number of steps earlier (`revoked` is the set of calls in flight then);
`RetiredClientSilent` relates the wire to the account's present client;
`PauseHolds` relates a request to what the student last asked for;
`FirstAttemptBeforeStart` relates the draw, the wake-ups and the start;
`SelectBudget` and `NoBlindWrite` relate selections and drops that left to all rows of a
lecture; `NoRegrab` relates a request to an intent noted any number of restarts earlier;
`NoConflictingHold` relates it to the reservations and to what the school accepted;
`HandlersFinish` and `PassesFinish` are liveness.

`NoReplay` relates a TD request to what the school acknowledged of all earlier ones, over lost answers, lost records and restarts;
`EntryBudget` entries on the wire to the limit in force when they leave; `QuietStays` a request to the last time sending was called
off or asked for; `PairFits` an open pair to window, licence and settings as they are by then; `HonestTally` the local counts to
acknowledgements; `PairEnds` is liveness while the loop of ticks runs. `AtMostOnce` counts requests for a reminder over restarts and rebinding,
`MarkedBefore` relates the wire to the disk, `HonestRows` what memory and disk say to what was sent, `OnlyWhileWanted` a request to the
settings, binding and beginnings of that moment, `KeepsReminders` what leaves a full queue to what stays.
`RemovedIsSilent` and `StopIsSilent` relate the worker's place to what a page has been told; `StopHolds` a switch to the requests under
way; `DaemonFollows` the thread to all switches; `RecoveryIsReal` the end of an incident to the order of failures and readings;
`PagesAnswered` is liveness.

`SystemTypeOK` of `SigninScheduler` and `TypeOK` of `AccountRegistry` say what the variables range over; no run spends time on
them.

`ImplementsWrite` is claimed for one client object only. With two, a late answer
may overwrite what a list read by the other has confirmed: `finish` is an
unconditional UPDATE. The budget and `NoBlindResend` hold all the same.

## 5. Proofs

`IclassSignin_proofs` proves for every set of lessons, callers and clients, every
budget, delay, skew and clock, from `PolicyAssumption` and `SigninAssumption`:

* `TypeCorrect`: `Spec => []TypeOK`
* `Budget`: `Spec => []PostBudget`
* `Spacing`: `Spec => []GroupSpacing`
* `NoBlindResendHolds`: `Spec => NoBlindResend`
* `OneClientWrites`: `SingleClient => (Spec => ImplementsWrite)`, the refinement of `AtMostOnceWrite`
* `Invariance`: `Spec => []IInv`

`PostBudget` is not inductive: it says nothing of a caller that holds a claim and
has not sent yet. `IInv` adds

* `OneSender`: at most one caller is past the claim for a lesson — from *the
  ledger*, not from a lock, which is why it holds for any number of clients;
* `CallOK`: a caller past its claim finds its row pending, or confirmed by a list
  meanwhile, so that nobody else can be granted the lesson;
* `Counted`: requests sent never exceed attempts charged, and are strictly fewer while
  the charged one is unsent, so a refund never uncovers one that left;
* `AnswerKnown`: a row that may be claimed (none, failed) has no unresolved
  request, nor has a caller that has yet to send.

The step lemma (`InvStep`) has one step per action. Those that leave the ledger and
the history alone, most of them, follow from `QuietStep`; those in which a sender leaves
and writes its row from `SenderLeaves`; `TimeDone` (the claim) and
`Transmit` are done on their own. `IInv` refers to `Crash` in the essential way: a
crash forgets the callers but not the rows, so their rows stay unclaimable.

`GroupSpacing` is about any `Burst + 1` requests in a row; `SInv` speaks of any two (`Spaced`) and adds what the
ledger knows of the last one: every request that left has an attempt of its own (`Attempted`), and a claim that
has not sent yet was granted after the pause behind it (`Timed`). Proving it showed an earlier form of the property to be
false: it chose between the pauses before and during the lesson by the second of the requests, while the pause follows
the one that completes a group, wherever that stands among them (`GroupPause`).

`OneClientWrites` follows the abstract write step by step: a claim acquires the permit, a request delivers it, a
refund withdraws it, an outcome closes it. It needs `LockHeld` (whoever is inside holds the lock of its client) and, from it,
`ClaimPending` (a claimed row stays pending until its outcome), which is where a second client would interfere.

`SigninScheduler_proofs` proves of the whole sign-in system, with daemon, buttons, handlers, pauses and crashes, for any
number of lessons, buttons, handlers and clients:

* `SystemTypes`: `SystemSpec => []SystemTypeOK`
* `SystemBudget`, `SystemNoBlindResend`: `[](PostBudget /\ GroupSpacing)` and `NoBlindResend`
* `FalseSuccess`: `[]NoFalseSuccess`
* `RevokedStaySilent`, `RetiredStaySilent`, `PausesHold`: `RevokedNeverPosts`, `RetiredClientSilent`, `PauseHolds`
* `SystemInvariance`: `[](SysInv /\ SInv)`, which they rest on
* `GivenUpHolds`: `[]GivenUpSpent`
* `FirstAttemptInTime`: with one lesson and `Timely`, `QuietSpec => []FirstAttemptBeforeStart`

`SystemSteps` connects it to `IclassSignin`: every step of the system is one of the sign-in client's, leaves its
variables alone, or is a handler that takes or gives back a lock or a session (`Borrow`), which IInv does not speak of. So the
results above carry over. The other properties need to know who may act:

* `Linked`: the daemon's call is under way exactly while its pass is `signing`, and for that lesson.
* `LockHeld` and `Custody`: of the handlers, only the holder of `auth_lock` is at work, and it holds the sign-in lock of the
  account's present client. Hence `InsidePresent`, who is inside `perform_signin` is so on the present client, for
  `RetiredClientSilent`.
* `Truthful`, `Remembered`: a success in a row, in an answer or in the daemon's memory is a signature at the school.
* `PauseKept`: a pause the student counts on is saved or in the failsafe.
* `PassFresh` and `Barred`: epochs only grow, and a pass that reconnects takes its new epoch when no handler is at work on the
  account. A call withdrawn once therefore finds its guard closed ever after. `BuiltByOpenGuard`, that a request is built
  only where the guard was just seen open, then gives `RevokedNeverPosts` and `PauseHolds`.

`GivenUp` adds to this, for `GivenUpHolds`, without any assumption on how many lessons or clients there are: a lesson given
up and not misjudged has its attempts used up *and* nobody holds an unanswered claim for it (`Spent`), so that there is nothing left
to refund; and a count that reaches the limit while there is no row can only have come from other lessons, so that the lesson
is misjudged. `SpentStays` is the first half: with its attempts used up no new claim is granted, and without a claim
nothing is refunded, whatever is answered, confirmed, cancelled or crashes.

`FirstAttemptInTime` is about the day on which nothing fails. `Undisturbed` says that nothing does, `InTime` that
the next wake-up and the target drawn leave time for the call. `Timely` asks that the lesson's window opens
an interval and the margin before it begins; in the program 600 s against at most 60 s and 5 s
(`core/domain.py`, `core/scheduler.py`).

`BoyaSelection_proofs` and `BoyaIntent_proofs` prove for all lectures, exclusions
between them, scopes, threads, pages and limits, from `BoyaAssumption`:

* `BoyaTypeCorrect`: `Spec => []TypeOK`
* `BoyaBudget`: `Spec => []SelectBudget`
* `BoyaNoBlindWrite`: `Spec => NoBlindWrite`
* `BoyaNoRegrab`: `Spec => NoRegrab`
* `BoyaNoConflict`: `Spec => NoConflictingHold`
* `BoyaInvariance`: `Spec => []IInv`, which the others rest on

Here the lock, not the ledger, makes a thread the only writer (`CallOK`), and its claim
may be for a scope other than that of an earlier write. `AnswerKnown` therefore speaks of the
group: a write whose outcome is unknown has an open row in *some* scope, so
that a claim, which looks at the whole group, is refused. Every method that closes a row
must then know what became of the write: by an answer, by never having sent it
(`Informed`), or by the official list. `Counted` relates requests to the budget's row as
above; its refund is safe because the request of the one thread inside is the one
that did not leave. For `NoRegrab` the invariant `Intent` says that a
lecture given up is excluded or in the list last observed (from which it will be
excluded when it has gone), and that an automatic call for such a lecture, begun
before the exclusion, has not got past reading the list, where it ends in either case.

For `NoConflictingHold` the invariant `Kept` relates two lectures through the reservations and the official
list: a lecture whose row is open is reserved, or its own thread is still inside and will reserve it (`OpenReserved`); a selection in force
is in the list, or reserved, or about to be (`HeldShown`); what a thread read of the list covers what is in force and not reserved
(`SeenFine`); and the thread's own row is the only one of its group that is open (`OneRow`), so that a definite answer closes the group.
It follows that when the daemon has compared its candidate with the list read and the reservations, no other lecture
excluded by it is open or held (`Clear`), and since nobody else is inside, that stays so until the request leaves. A lecture
overlaps itself, as in `courses_time_overlap`, and its own row is open by then: the property speaks of the other lectures.

`BoyaAssumption` asks for a positive `QuotaLimit`: the program's is 9.

`TDEngine_proofs` proves for every set of days, windows, groups and settings, and every length of
pair, margin, gap and request, from `TDAssumption`:

* `TDTypeCorrect`: `Spec => []TypeOK`
* `TDEntryBudget`, `TDNoReplay`, `TDQuietStays`: `Spec => EntryBudget`, `NoReplay`, `QuietStays`
* `TDPairFits`, `TDHonestTally`, `TDPhotosKept`: `Spec => []PairFits`, `[]HonestTally`, `[]PhotosKept`
* `TDInvariance`: `Spec => []IInv`

`TDAssumption` has what the argument needs and no more: a window lies in one day, and `Margin` covers a pair
and its last request (`Pair + Wire <= Margin`; the program's are 420, 10 and 430 seconds). With
less the exit could meet the closing hour.

The seven properties speak of the past or of the school; `IInv` says what the program holds of it:

* `FlightOK`: the locals of a flight are the row of its day, and the school has the student where the
  phase expects. It holds although the account may be removed and built anew under a flight, because what
  changes rows needs the lock (`LockFree`) and a restart ends the flight.
* `OneOutstanding`: one phase at most is outstanding over *all* days, from `Blocked`, which looks at all of
  them. Without any the student is out. So doubt on one day stops the next one, which is the essence of `NoReplay`.
* `Charged`: what left is at most what is charged, and less while the entry has not left.
* `Placed`: an outstanding entry was claimed with its margin in one window and in the licence, and the
  settings still are those of its day. Settings stay because `configure()` refuses while a phase is
  outstanding; the licence only grows.
* `CalledOff`: after sending was called off, switch and queues are off, *or* a phase is in doubt. The second
  case is the failure whose record was lost on a full disk: the switch stays on, and only the phase
  that is still `sending` keeps the next tick from going on.

A transaction of `_tick` has a dozen exits. `Transacts` brings them to two, `SettleStep` and
`ClaimStep`; `RoundsKept` then serves every step that leaves the rounds where they are (settling, failing,
the student's requests, a restart), `InFlight` the five steps of a request, `Elapse` the clock and the registry.
Claim, commit and verification are done on their own.

`AccountRegistry_proofs` proves for every number of account objects, every set of requests, orders and
saved files, and every bound, from `RegistryAssumption`:

* `RegistryTypeCorrect`: `Spec => []TypeOK`
* `RegistryRemovedIsSilent`, `RegistryStopIsSilent`, `RegistryDaemonFollows`: `Spec => []RemovedIsSilent`,
  `[]StopIsSilent`, `[]DaemonFollows`
* `RegistryRecoveryIsReal`, `RegistryStopHolds`: `Spec => RecoveryIsReal`, `StopHolds`
* `RegistryInvariance`: `Spec => []IInv`

`RegistryAssumption` says that the objects are numbered in the order they are made, and that the form of a
page carries the switches of that page only: the Boya page cannot switch the regular sign-in, nor the
other way round, as the two handlers of `server/app.py` read it.

The properties speak of what a page has been told; `IInv` says who can still act against it:

* `Shut`: once its client is closed, a removed object has no session, the worker does not hold its lock, and
  neither can come back: a worker that takes the lock now finds the removal, and the Boya part of a login that
  ends now is dropped. `RemovedOnes` (what is listed is not removed) covers the objects whose client
  is still open. With `LocksHeld`, which ties the worker's place to the lock, this gives `RemovedIsSilent`.
* `SaidOff`: a switch said to be off is off in the listed object and no request under way asks for
  anything about it. `PostedOn`: a worker about to post for the listed object has the switch on. Together
  they are `StopIsSilent`: between the check of the switch and the POST nobody else has the account's lock.
* `Changed`: until it is saved, a change is what the switches show. Undoing a failed save therefore takes back
  its own change and nothing else, which is `StopHolds`.
* `Follows`: an account wants the daemon only if it runs, if its start was refused, or if a request that will
  decide is under way. The undoing of a failed save decides nothing, hence its second part: who would switch
  back on what was wanted before the save has not stopped the daemon.
* `CalmTrue`: the age of an incident's first complete reading is not over-estimated, for `RecoveryIsReal`.

`PlacesFit`, `Fresh`, `LoopHeld` and `Orderly` keep the kinds of request apart. Most steps of the daemon
change neither pages nor accounts and those of a page leave the check alone; each has its lemma for every part.

`WechatDelivery_proofs` proves for every set of lessons, every room of the queue, and any number of bindings, faults and
lessons that begin, from `WechatAssumption` (the queue has room for one; the bounds are numbers):

* `Types`: `Spec => []TypeOK`
* `SentOnce`, `Marked`, `Honest`, `OthersStay`: `[]AtMostOnce`, `[]MarkedBefore`, `[]HonestRows`, `[]OthersKept`
* `Wanted`, `RemindersKept`: `OnlyWhileWanted` and `KeepsReminders`
* `Invariant`: `Spec => []Inv`

`Inv` says where everybody is and what they have in hand:

* `Located`, `Apart`: a claimed reminder is in one place only, in the queue or in one coroutine's hands. Together with `SenderHolds` and
  `Untouched` (a reminder not begun has no record but "claimed") this is `AtMostOnce`.
* `Writing`: the write under way is one of six, and each says what the disk and memory become of it, whether it succeeds or
  fails. `TrueRows` has to survive both, for memory and for the disk: it gives `HonestRows`, and with `SenderHolds`
  `MarkedBefore`.
* `Drawn`: a binding whose QR code is on show is later than all there are; so an entry of an earlier binding is told
  apart from the present one whatever happens to the file.
* `Orderly`: the queue has its reminders first, the most urgent before the others. `Enqueued` says what a full queue gives up.
* `OthersSafe`: a process that could not read the file has no binding and shows no code, so it has nothing to write; it
  has to be able to read it before it binds anew.

Most steps move one coroutine (`Moves`) and begin a write (`Begins`), end one (`Ends`) or do neither (`Turns`); each kind is proved
once. Proving `KeepsReminders` showed that its first form was false: it compared a reminder refused by a full queue with the
queue at any later moment of its telling, and now does so when it is refused. What an unbinding leaves of a queue is written as the subsequence at an increasing list of
indices (`Withdrawn`), not by recursion, because nothing can be proved here of a recursive selection.

Only model-checked: liveness (`HandlersFinish`, `PassesFinish`, `PairEnds`,
`PagesAnswered`), which needs ENABLED and is beyond the prover. Induction over data and recursive definitions are
beyond it too. That a violation exists (`wechat_disable`, `accounts_saved`) is TLC's to show.

## 6. Not modelled, and why

* Parsing of pages, cryptography, WebVPN: pure functions over strings. Their
  outcome (a session or none, a list or a failure) is a choice in the models.
* Attendance of Boya lectures, pages of the course pool: planned below or data only.
* Several accounts: the daemon's `gather` gives each its own pass; they share only the
  limit of four at a time, represented by the await `queued`. The registry is modelled for one name.
* TD codes, signatures, machine binding; the official calendar; bytes of images.
* WeChat message texts, the provider's protocol, pruning of claims after seven days.
* Management sessions, vault, updates, presentation, packaging: I/O or small state of
  their own without effect on the school.

## 7. What is left

1. Attendance of Boya lectures, which makes the same claim as a selection without its budget.
2. `AtMostOnceWrite` with a group as its abstract side, for `BoyaSelection`; and with a reminder as its key, for
   `WechatDelivery`.
3. Two account objects in `BoyaSelection`, for the reservations the second has not read.
