-------------------------- MODULE SigninScheduler --------------------------
(***************************************************************************)
(* The attendance daemon (core/scheduler.py) and the per-course pause      *)
(* (core/regular_course_policy.py), composed with the account's handlers,  *)
(* the manual button and perform_signin.  One account; a pass of the       *)
(* daemon over it goes                                                     *)
(*                                                                         *)
(*   idle -> queued -> (reconnect) -> list -> courses -> signing -> ...    *)
(*                                                                         *)
(* "courses" runs without an await: nothing else of the event loop moves   *)
(* there.  The next pass waits for the tick lock, hence for this one, also *)
(* after stop() and start().                                               *)
(***************************************************************************)
EXTENDS SigninAccount

CONSTANTS
  DaemonOf,       \* DaemonOf[k]: the daemon's call of perform_signin on k
  Pausable,       \* lessons whose course the school has identified
  Listings,       \* the lessons a list of the school may tell the daemon of
  Reconnector,    \* the daemon's own use of connect_single_account
  Interval,       \* interval_seconds
  Margin,         \* first targets keep clear of the start by this (5 s)
  Backoff,        \* shortest wait after a failed call (30 s)
  MaxGeneration   \* bound on _generation

Daemons == {DaemonOf[k] : k \in Clients}

ASSUME SchedulerAssumption ==
  /\ DaemonOf \in [Clients -> Callers \ (Buttons \cup Admins)]
  /\ \A k \in Clients : ClientOf[DaemonOf[k]] = k
  /\ Reconnector \in Admins /\ Pausable \subseteq Courses
  /\ Listings \subseteq SUBSET Courses
  /\ Interval \in Nat /\ Margin \in Nat /\ Backoff \in Nat /\ MaxGeneration \in Nat

VARIABLES
  daemon,   \* [enabled, generation, wake]: the task and its next wake-up
  pass,     \* the pass in progress
  memory,   \* signed_courses, failed_permanently, retry_counts, planned_targets;
            \* history: lessons given up while the count was not final
  pause,    \* pause[c]: saved row and in-memory failsafe of the course's pause
  wanted    \* history: the student asked for a pause that still counts

schedulerVars == <<daemon, pass, memory, pause, wanted>>
allVars == <<vars, accountVars, schedulerVars>>

NoTarget == -1
NoPass == [pc |-> "idle", site |-> "none", generation |-> 0, epoch |-> 0,
           client |-> account.client, todo |-> {}, shown |-> {},
           course |-> NoCourse, others |-> 0, relisted |-> FALSE, cancelled |-> FALSE]
NoMemory == [signed |-> {}, failed |-> {}, retry |-> [c \in Courses |-> 0],
             planned |-> [c \in Courses |-> NoTarget], misjudged |-> {}]

SchedulerTypeOK ==
  /\ daemon \in [enabled : BOOLEAN, generation : Nat, wake : Nat]
  /\ pass \in [pc : {"idle", "queued", "reconnect", "list", "courses", "signing", "refresh"},
               site : {"none", "first", "again", "after"}, generation : Nat,
               epoch : Nat, client : Clients, todo : SUBSET Courses,
               shown : SUBSET Courses, course : Courses \cup {NoCourse},
               others : Int, relisted : BOOLEAN, cancelled : BOOLEAN]
  /\ memory \in [signed : SUBSET Courses, failed : SUBSET Courses,
                 retry : [Courses -> Nat], planned : [Courses -> Nat \cup {NoTarget}],
                 misjudged : SUBSET Courses]
  /\ pause \in [Courses -> [saved : BOOLEAN, failsafe : BOOLEAN]]
  /\ wanted \in [Courses -> BOOLEAN]

SystemTypeOK == TypeOK /\ AccountTypeOK /\ SchedulerTypeOK

SystemInit ==
  /\ Init /\ AccountInit
  /\ \E on \in BOOLEAN : daemon = [enabled |-> on, generation |-> 0, wake |-> 0]
  /\ pass = NoPass
  /\ memory = NoMemory
  /\ pause = [c \in Courses |-> [saved |-> FALSE, failsafe |-> FALSE]]
  /\ wanted = [c \in Courses |-> FALSE]
-----------------------------------------------------------------------------
(* Guards. *)

PassAt(place) == pass.pc = place
\* The event loop is in the pass: in its loop over the courses, or resuming
\* it right where reconnect_account returned.
Running ==
  PassAt("courses") \/ (PassAt("reconnect") /\ AdminAt(Reconnector, "idle"))
Caller == DaemonOf[pass.client]

\* allowed() of _check_account, and with the course's pause.
Allowed ==
  /\ daemon.enabled /\ pass.generation = daemon.generation
  /\ RequestGuard /\ account.epoch = pass.epoch /\ account.auto

CourseAllowed(c) == ~pause[c].failsafe /\ ~pause[c].saved

DaemonGuard == Allowed /\ CourseAllowed(pass.course)

Before(c) == now < Lesson[c].starts

\* The wait after a call that failed.
Later(c, attempts) ==
  LET delay == MinimumRetryDelay(attempts, Before(c))
  IN  now + (IF delay > Backoff THEN delay ELSE Backoff)

\* Faulty variant: anywhere before the start.
FirstTargetsAnywhere(c) ==
  LET slack == Lesson[c].starts - now
  IN  now .. (now + IF slack > 0 THEN slack ELSE 0)

\* First targets: random, but a pass later the lesson has not begun.
FirstTargets(c) ==
  LET slack == Lesson[c].starts - now - Interval - Margin
  IN  now .. (now + IF slack > 0 THEN slack ELSE 0)
-----------------------------------------------------------------------------
(* Control of the task: /api/auto_checkin. *)

Start ==
  /\ LoopFree /\ ~Running /\ ~daemon.enabled /\ daemon.generation < MaxGeneration
  /\ daemon' = [enabled |-> TRUE, generation |-> daemon.generation + 1, wake |-> now]
  /\ UNCHANGED <<vars, accountVars, pass, memory, pause, wanted>>

PassOver == [NoPass EXCEPT !.client = pass.client]

\* The task is cancelled: the await it is in raises CancelledError.
Stop ==
  /\ LoopFree /\ ~Running /\ daemon.enabled /\ daemon.generation < MaxGeneration
  /\ daemon' = [daemon EXCEPT !.enabled = FALSE, !.generation = @ + 1]
  /\ pass' = [pass EXCEPT !.cancelled = ~PassAt("idle")]
  /\ revoked' = revoked \cup (InFlight \cap Daemons)
  /\ UNCHANGED <<vars, account, authLock, admin, born, memory, pause, wanted>>

EndPass ==
  /\ pass' = PassOver
  /\ daemon' = [daemon EXCEPT !.wake = now + Interval]

\* CancelledError outside perform_signin.  A connection under way may have
\* replaced the client already.
PassCancelled ==
  /\ LoopFree /\ pass.cancelled /\ pass.pc \in {"queued", "list", "refresh", "reconnect"}
  /\ ~Running
  /\ pass' = PassOver
  /\ IF PassAt("reconnect") THEN Abandoned(Reconnector) \/ WorkDone(Reconnector)
     ELSE UNCHANGED <<vars, accountVars>>
  /\ UNCHANGED <<daemon, memory, pause, wanted>>
-----------------------------------------------------------------------------
(* One pass. *)

\* reconnect_account(account): p, the pass, waits until the handler is done.
Reconnect(p, site) ==
  /\ ~account.removed /\ AdminAt(Reconnector, "idle") /\ EpochRoom
  /\ pass' = [p EXCEPT !.pc = "reconnect", !.site = site]
  /\ admin' = [admin EXCEPT ![Reconnector] =
       [pc |-> "auth", kind |-> "connect", client |-> account.client]]

\* The tick lock is there: the accounts to check are listed with their clients.
PassBegins ==
  /\ LoopFree /\ PassAt("idle") /\ daemon.enabled /\ now >= daemon.wake
  /\ IF account.auto /\ ~account.removed
     THEN /\ pass' = [NoPass EXCEPT !.pc = "queued", !.generation = daemon.generation]
          /\ UNCHANGED daemon
     ELSE EndPass
  /\ UNCHANGED <<vars, accountVars, memory, pause, wanted>>

\* The account's turn, out of four at a time: its epoch is read.  The client
\* listed before may be closed by now, which is never authenticated.  A
\* reconnection may be refused at once (a cool-down, a password to be typed).
PassAdmitted ==
  LET mayRun == RequestGuard /\ account.auto /\ daemon.enabled
                  /\ pass.generation = daemon.generation
      here == [pass EXCEPT !.pc = "list", !.epoch = account.epoch]
      open == pass.client = account.client
  IN
  /\ LoopFree /\ PassAt("queued") /\ ~pass.cancelled
  /\ \/ mayRun /\ open /\ pass' = here /\ UNCHANGED <<admin, daemon>>
     \/ /\ mayRun /\ ~(open /\ session[pass.client])
        /\ Reconnect(here, "first") /\ UNCHANGED daemon
     \/ (mayRun /\ open => ~session[pass.client]) /\ EndPass /\ UNCHANGED admin
  /\ UNCHANGED <<vars, account, authLock, born, revoked, memory, pause, wanted>>

\* The reconnection is over; on success the pass follows the account.
Reconnected(ok) ==
  /\ LoopFree /\ PassAt("reconnect") /\ ~pass.cancelled /\ AdminAt(Reconnector, "idle")
  /\ ok => ~account.removed
  /\ IF pass.site = "after"
     THEN pass' = [pass EXCEPT !.pc = "courses", !.site = "none"] /\ UNCHANGED daemon
     ELSE IF ok
     THEN /\ pass' = [pass EXCEPT !.pc = "list", !.site = "none",
                        !.client = account.client, !.epoch = account.epoch,
                        !.relisted = @ \/ pass.site = "again"]
          /\ UNCHANGED daemon
     ELSE EndPass
  /\ UNCHANGED <<vars, accountVars, memory, pause, wanted>>

\* get_today_classes(): a list, an expired session, or another failure.  A
\* lesson that is missing or of unknown status is one the pass skips.
Listed ==
  /\ LoopFree /\ PassAt("list") /\ ~pass.cancelled
  /\ \E todo \in Listings : \E shown \in SUBSET todo :
       /\ \A c \in shown : signed[c]
       /\ pass' = [pass EXCEPT !.pc = "courses", !.todo = todo, !.shown = shown]
  /\ session' = [session EXCEPT ![pass.client] = @ \/ pass.client = account.client]
  /\ UNCHANGED <<WriteVars, lock, accountVars, daemon, memory, pause, wanted>>

ListExpired ==
  /\ LoopFree /\ PassAt("list") /\ ~pass.cancelled
  /\ session' = [session EXCEPT ![pass.client] = FALSE]
  /\ \/ EndPass /\ UNCHANGED admin
     \/ ~pass.relisted /\ Reconnect(pass, "again") /\ UNCHANGED daemon
  /\ UNCHANGED <<WriteVars, lock, account, authLock, born, revoked, memory, pause, wanted>>

ListFails ==
  /\ LoopFree /\ PassAt("list") /\ ~pass.cancelled
  /\ EndPass
  /\ UNCHANGED <<vars, accountVars, memory, pause, wanted>>

LoopEnds ==
  /\ LoopFree /\ PassAt("courses") /\ (pass.todo = {} \/ ~Allowed)
  /\ EndPass
  /\ UNCHANGED <<vars, accountVars, memory, pause, wanted>>
-----------------------------------------------------------------------------
(* One course of the pass: _check_course up to the call. *)

Skip(c) == pass' = [pass EXCEPT !.todo = @ \ {c}]

SkippedFor(c) ==
  \/ ~CourseAllowed(c) \/ c \in pass.shown \/ c \in memory.signed \/ c \in memory.failed
  \/ ~InWindow(Lesson[c], now)

\* Reasons to skip that need no look at the ledger, and what they remember.
SkipCourse(c) ==
  /\ LoopFree /\ PassAt("courses") /\ Allowed /\ c \in pass.todo /\ SkippedFor(c)
  /\ Skip(c)
  /\ memory' =
       IF ~CourseAllowed(c) THEN [memory EXCEPT !.planned[c] = NoTarget]
       ELSE IF c \in pass.shown THEN [memory EXCEPT !.signed = @ \cup {c}]
       ELSE memory
  /\ UNCHANGED <<vars, accountVars, daemon, pause, wanted>>

Considered(c) ==
  LoopFree /\ PassAt("courses") /\ Allowed /\ c \in pass.todo /\ ~SkippedFor(c)

\* The ledger's row settles the lesson for now.
SettledByRow(c) ==
  LET row == ledger[c]
      known == [memory EXCEPT !.retry[c] = row.attempts]
  IN
  /\ Considered(c) /\ row.state # "none"
  /\ \/ row.state = "success" /\ memory' = [known EXCEPT !.signed = @ \cup {c}]
     \/ row.state \in Unsettled /\ memory' = known
     \/ /\ row.state = "failed" /\ row.attempts >= MaxPosts
        /\ memory' = [known EXCEPT !.failed = @ \cup {c}]
  /\ Skip(c)
  /\ UNCHANGED <<vars, accountVars, daemon, pause, wanted>>

\* The target after looking at the row: a failure counted since the last look
\* replaces the target, an old one only pushes it back; none: a random one.
Targets(c) ==
  LET row == ledger[c]
      earliest == row.updated + MinimumRetryDelay(row.attempts, Before(c))
      target == IF memory.planned[c] = NoTarget THEN now ELSE memory.planned[c]
  IN  IF row.state = "failed"
      THEN {IF row.attempts > memory.retry[c] \/ earliest > target
            THEN earliest ELSE target}
      ELSE IF memory.planned[c] # NoTarget THEN {memory.planned[c]}
      ELSE FirstTargets(c)

Attempt(c) ==
  LET row == ledger[c] IN
  /\ Considered(c)
  /\ row.state = "none" \/ (row.state = "failed" /\ row.attempts < MaxPosts)
  /\ \E target \in Targets(c) :
       /\ memory' = [memory EXCEPT
            !.planned[c] = target,
            !.retry[c] = IF row.state = "none" THEN @ ELSE row.attempts]
       /\ IF now < target
          THEN Skip(c) /\ UNCHANGED vars
          ELSE /\ pass' = [pass EXCEPT !.pc = "signing", !.todo = @ \ {c}, !.course = c,
                                          !.others = 0]
               /\ Call(Caller, c)
  /\ UNCHANGED <<accountVars, daemon, pause, wanted>>
-----------------------------------------------------------------------------
(* The daemon's call of perform_signin, and what it makes of the answer. *)

\* Faulty variant: the call shielded from cancellation, its guard asked once.
DaemonStepsShielded ==
  LET x == Caller IN
  /\ PassAt("signing")
  /\ \/ Enter(x, DaemonGuard) \/ Recheck(x, TRUE) \/ LoginDone(x) \/ ListDone(x)
     \/ \E t \in 0 .. Horizon : TimeDone(x, TRUE, t)
     \/ ConnectFails(x) \/ Response(x)
     \/ ReadFails(x, "error") \/ ResponseLost(x, "error")
  /\ UNCHANGED <<accountVars, schedulerVars>>

DaemonSteps ==
  LET x == Caller IN
  /\ PassAt("signing")
  /\ IF pass.cancelled
     THEN CancelWait(x) \/ ReadFails(x, "cancelled") \/ ResponseLost(x, "cancelled")
     ELSE \/ Enter(x, DaemonGuard) \/ Recheck(x, DaemonGuard)
          \/ LoginDone(x) \/ ListDone(x)
          \/ \E t \in 0 .. Horizon : TimeDone(x, DaemonGuard, t)
          \/ ConnectFails(x) \/ Response(x)
          \/ ReadFails(x, "error") \/ ResponseLost(x, "error")
  /\ UNCHANGED <<accountVars, schedulerVars>>

Outcome == call[Caller].result

\* Faulty variant: every call that fails counts.
TriedPerCall(c) == memory.retry[c] + 1

\* How often the lesson was tried: the ledger's count or, when it has no row,
\* one more if the client's own counter of requests went up meanwhile, which
\* it also does for the requests of other lessons (pass.others).
TriedSoFar(c) ==
  IF ledger[c].state # "none" THEN ledger[c].attempts
  ELSE memory.retry[c] + (IF pass.others > 0 THEN 1 ELSE 0)

\* The count a lesson is given up on may not be final: it contains a request
\* for another lesson, or one that is still on its way from another client.
Open(c) ==
  \/ ledger[c].state = "none" /\ pass.others > 0
  \/ \E x \in Callers : Sending(x) /\ Course(x) = c

DaemonReturns ==
  LET c == pass.course
      row == ledger[c]
      counted == TriedSoFar(c)
      next == [pass EXCEPT !.pc = "courses", !.course = NoCourse, !.others = 0]
  IN
  /\ PassAt("signing") /\ At(Caller, "returned")
  /\ Return(Caller)
  /\ \/ /\ Outcome = "true"
        /\ memory' = [memory EXCEPT !.signed = @ \cup {c}]
        /\ pass' = [next EXCEPT !.pc = "refresh"]
        /\ UNCHANGED admin
     \/ /\ Outcome = "error" /\ pass' = next /\ UNCHANGED admin
        /\ memory' = IF row.state \in Unsettled THEN memory
                     ELSE [memory EXCEPT !.planned[c] = Later(c, memory.retry[c])]
     \/ /\ Outcome = "false"
        /\ memory' = [memory EXCEPT !.retry[c] = counted,
             !.failed = IF counted >= MaxPosts THEN @ \cup {c} ELSE @,
             !.planned[c] = IF counted >= MaxPosts THEN @ ELSE Later(c, counted),
             !.misjudged = IF counted >= MaxPosts /\ Open(c) THEN @ \cup {c} ELSE @]
        /\ \/ pass' = next /\ UNCHANGED admin
           \/ counted < MaxPosts /\ ~session[pass.client] /\ Reconnect(next, "after")
     \/ /\ Outcome = "cancelled" /\ pass' = PassOver /\ UNCHANGED <<memory, admin>>
  /\ revoked' = revoked \ {Caller}
  /\ UNCHANGED <<account, authLock, born, daemon, pause, wanted>>

\* The list read after a success, whatever came of it.
Refreshed ==
  /\ LoopFree /\ PassAt("refresh") /\ ~pass.cancelled
  /\ pass' = [pass EXCEPT !.pc = "courses"]
  /\ UNCHANGED session \/ DropSession(Caller)
  /\ UNCHANGED <<WriteVars, lock, accountVars, daemon, memory, pause, wanted>>
-----------------------------------------------------------------------------
(* Pausing one course: set_pause. *)

\* Faulty variant: the failsafe is cleared even when nothing was saved.
SetPauseForgets(c, on, stored) ==
  /\ LoopFree /\ ~Running
  /\ pause' = [pause EXCEPT ![c] =
       [saved |-> IF stored THEN on ELSE @.saved, failsafe |-> FALSE]]
  /\ wanted' = [wanted EXCEPT ![c] = on \/ (@ /\ ~stored)]
  /\ memory' = IF on /\ stored THEN [memory EXCEPT !.planned[c] = NoTarget] ELSE memory
  /\ UNCHANGED <<vars, accountVars, daemon, pass>>

\* A pause is in force before it is saved, and stays so if it cannot be; a
\* resumption that cannot be saved does not happen.
SetPause(c, on, stored) ==
  /\ LoopFree /\ ~Running
  /\ pause' = [pause EXCEPT ![c] =
       IF stored THEN [saved |-> on, failsafe |-> FALSE]
       ELSE [saved |-> @.saved, failsafe |-> @.failsafe \/ on]]
  /\ wanted' = [wanted EXCEPT ![c] = on \/ (@ /\ ~stored)]
  /\ memory' = IF on /\ stored THEN [memory EXCEPT !.planned[c] = NoTarget] ELSE memory
  /\ UNCHANGED <<vars, accountVars, daemon, pass>>
-----------------------------------------------------------------------------
(* The whole system. *)

\* dispose_account forgets what the daemon knew of the account.
Dispose(a) ==
  /\ Withdraw(a)
  /\ memory' = NoMemory
  /\ UNCHANGED <<daemon, pass, pause, wanted>>

\* A handler goes on, unless it runs in a pass that is being cancelled.
Handler(a) ==
  \/ ~Running /\ (a = Reconnector => ~pass.cancelled)
     /\ (AuthLocked(a) \/ SignLocked(a) \/ WorkDone(a))
     /\ UNCHANGED schedulerVars
  \/ ~Running /\ Dispose(a)

\* What x's step adds to the actual_sign_posts of its client.
PostsCounted(x) ==
  IF At(x, "claimed") /\ (call'[x].pc = "post" \/ call'[x].result = "error") THEN 1
  ELSE IF call[x].wire = "unsent" /\ call'[x].result = "false" THEN -1
  ELSE 0

Button(x) ==
  LET seen == PassAt("signing") /\ Client(x) = pass.client /\ Course(x) # pass.course IN
  /\ ~Running /\ (ButtonSteps(x) \/ ButtonReturns(x) \/ \E c \in Courses : Press(x, c))
  /\ pass' = [pass EXCEPT !.others = @ + IF seen THEN PostsCounted(x) ELSE 0]
  /\ UNCHANGED <<daemon, memory, pause, wanted>>

\* An answer or a refusal of the school; a coroutine that is being cancelled
\* writes nothing more to its connection.
World ==
  /\ \/ \E x \in Buttons \cup Daemons :
          \/ ~(pass.cancelled /\ x = Caller) /\ Transmit(x)
          \/ \E answer \in {"accepted", "refused", "denied"} : SchoolHandles(x, answer)
     \/ \E c \in Courses : StrayHandled(c) \/ SignedElsewhere(c)
     \/ ~Running /\ SessionRefreshed(account.client)
     \/ Tick
  /\ UNCHANGED <<accountVars, schedulerVars>>

Administration ==
  /\ \/ \E a \in Admins \ {Reconnector}, kind \in Kinds : ~Running /\ Begin(a, kind)
     \/ \E on \in BOOLEAN : ~Running /\ SetAuto(on)
  /\ UNCHANGED schedulerVars

\* Pauses that could be saved survive; the switch is read from the disk.
SystemCrash ==
  /\ AccountCrash
  /\ \E on \in BOOLEAN : daemon' = [enabled |-> on, generation |-> 0, wake |-> now]
  /\ pass' = NoPass
  /\ memory' = NoMemory
  /\ pause' = [c \in Courses |-> [saved |-> pause[c].saved, failsafe |-> FALSE]]
  /\ wanted' = [c \in Courses |-> wanted[c] /\ pause[c].saved]

Pass ==
  \/ PassBegins \/ PassAdmitted \/ PassCancelled \/ Listed \/ ListExpired \/ ListFails \/ LoopEnds
  \/ \E ok \in BOOLEAN : Reconnected(ok)
  \/ \E c \in Courses : SkipCourse(c) \/ SettledByRow(c) \/ Attempt(c)
  \/ DaemonSteps \/ DaemonReturns \/ Refreshed

\* One life of the process.
LifeNext ==
  \/ Pass \/ Start \/ Stop \/ World \/ Administration
  \/ \E x \in Buttons : Button(x)
  \/ \E a \in Admins : Handler(a)
  \/ \E c \in Pausable, on, stored \in BOOLEAN : SetPause(c, on, stored)

SystemNext == LifeNext \/ SystemCrash

LifeSpec == SystemInit /\ [][LifeNext]_allVars

\* A quiet day: the daemon runs from before the lesson's window opens, the
\* school lists the lesson each time, nobody interferes, and a pass lasts at
\* most half of the margin.  What follows the first call is left out.
QuietTick ==
  /\ now < daemon.wake + (IF PassAt("idle") THEN 0 ELSE Margin \div 2)
  /\ Tick
  /\ UNCHANGED <<accountVars, schedulerVars>>

QuietNext ==
  \/ QuietTick \/ PassBegins \/ PassAdmitted \/ LoopEnds
  \/ Listed /\ pass'.todo = Courses /\ pass'.shown = {}
  \/ \E c \in Courses : SkipCourse(c) \/ Attempt(c)

QuietInit == SystemInit /\ daemon.enabled /\ \A k \in Clients : session[k]

QuietSpec == QuietInit /\ [][QuietNext]_allVars

SystemSpec == SystemInit /\ [][SystemNext]_allVars
-----------------------------------------------------------------------------
(* Safety. *)

\* The daemon never takes a lesson for signed, and the ledger never closes it
\* for good, unless the school has the attendance: through every mix of
\* listings, answers, lost answers, crashes and the student's own sign-ins.
NoFalseSuccess ==
  \A c \in Courses :
    c \in memory.signed \/ ledger[c].state = "success" => signed[c]

\* A lesson that the daemon has given up for the day (failed_permanently) has
\* spent its whole budget for good, whatever the button, a reconnection, refunds
\* and crashes do before and after: unless _check_course counted a request for
\* another lesson in the place of a missing row, or one of another client that
\* had not been answered.  Those are the only two ways to give up too early.
GivenUpSpent ==
  \A c \in memory.failed \ memory.misjudged : ledger[c].attempts >= MaxPosts

\* A call whose daemon run was stopped, or whose account was reconnected,
\* switched or removed after it began, never goes on to send: not even when
\* the daemon is started again or maintenance has ended by then.
RevokedNeverPosts ==
  [][\A x \in revoked : At(x, "claimed") => call'[x].pc # "post"]_allVars

\* Requests leave from the account's present client only: a client is not
\* replaced or closed under a request that is on its way out.
RetiredClientSilent ==
  [][\A x \in Callers : call[x].wire = "unsent" /\ call'[x].wire = "sent"
       => account.client = Client(x)]_allVars

\* From the moment the student pauses a course, saved or not, until a
\* resumption is saved (or a crash loses a pause that could not be saved), the
\* daemon builds no request for it.
PauseHolds ==
  [][\A x \in Daemons : At(x, "claimed") /\ call'[x].pc = "post"
       => ~wanted[Course(x)]]_allVars

\* On a quiet day the random first target never makes the daemon miss the
\* start of the lesson, however its wake-ups fall (the interval and the five
\* seconds that _check_course subtracts).
FirstAttemptBeforeStart ==
  \A c \in Courses : now >= Lesson[c].starts => pass.course = c
-----------------------------------------------------------------------------
(* Liveness: asyncio runs every ready task and serves the waiters of a lock  *)
(* in order, and every request has a timeout.                               *)

\* Handlers that nobody cancels, and the daemon's calls and passes.
PassProgress == Pass /\ pass.pc # "idle"

FairLife ==
  /\ LifeSpec
  /\ SF_allVars(PassProgress)
  /\ \A x \in Buttons : SF_allVars(Button(x) /\ ~At(x, "idle"))
  /\ \A a \in Admins : SF_allVars(Handler(a))

\* Tick lock, auth_lock and sign-in locks are taken in an order that lets
\* everyone through: a handler that waits gets its locks and finishes, also
\* while the daemon is reconnecting and the button holds a client.
HandlersFinish ==
  \A a \in Admins : admin[a].pc # "idle" ~> admin[a].pc = "idle"

\* A pass of the daemon comes to its end, so that the next one can begin.
PassesFinish == pass.pc # "idle" ~> pass.pc = "idle"
=============================================================================
