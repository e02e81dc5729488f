------------------------------ MODULE TDEngine ------------------------------
(***************************************************************************)
(* The physical-exercise check-in engine of core/td_scheduler.py, with its *)
(* store (core/td_store.py), its transport (core/td_client.py) and the     *)
(* requests of server/td_routes.py, for one student.  A round is a pair:   *)
(* an entry, some minutes later an exit; each is a card check followed by  *)
(* a photo.  A tick claims the next phase in one transaction, then sends   *)
(*                                                                         *)
(*   ready -> connect -> guarded -> reply -> connect -> guarded -> reply   *)
(*     (check)                               (photo)          -> commit    *)
(*                                                                         *)
(* and a closing transaction records the answer.  The account's lock is    *)
(* held all along; the clock, the removal of the account, a new login and  *)
(* a restart are not held up by it.  Time is counted in units of about a   *)
(* minute.                                                                 *)
(***************************************************************************)
EXTENDS Naturals

CONSTANTS
  Days, Horizon,        \* the days, and the end of the last of them
  DayOf,                \* DayOf[t]: the day of a time before the horizon
  Windows,              \* opening hours [from, to] of all days, to not included
  Pair,                 \* an exit is sent less than this after its entry (420 s)
  Margin,               \* what must be left of a window before an entry (430 s)
  Gap,                  \* waiting times between the requests (180..240 s)
  Round,                \* time reserved for a round of a queue (480 s)
  ExitRound, LastExit,  \* the same for an exit, with and without rounds to follow
  Wire,                 \* a request ends after this long (10 s)
  HardLimit,            \* rounds a day whatever the settings say (3)
  Limit, OpenOn,        \* Limit[s], OpenOn[s]: of settings s, entries a day and open days
  Groups,               \* groups of photos
  None,                 \* no settings, no group
  Expiries,             \* ends a licence can be given
  Removals, Restarts    \* bounds on the removals of the account and the restarts

\* What validate_settings() admits; all that is told of settings is how many
\* entries a day they allow and, open_on_date(), on which days.
Settings == DOMAIN Limit
Times == 0..Horizon

ASSUME TDAssumption ==
  /\ Horizon \in Nat \ {0} /\ DayOf \in [Times -> Days]
  /\ Windows \subseteq [from : Times, to : Times]
  /\ \A w \in Windows : \A t \in w.from..(w.to - 1) : DayOf[t] = DayOf[w.from]
  /\ Pair \in Nat \ {0} /\ Margin \in Nat \ {0} /\ Wire \in Nat
  /\ Pair + Wire <= Margin
  /\ Gap \subseteq Nat
  /\ Round \in Nat /\ ExitRound \in Nat /\ LastExit \in Nat
  /\ HardLimit \in Nat
  /\ Limit \in [Settings -> Nat] /\ OpenOn \in [Settings -> SUBSET Days]
  /\ None \notin Settings /\ None \notin Groups
  /\ Expiries \subseteq Nat /\ Removals \in Nat /\ Restarts \in Nat

VARIABLES
  now,       \* the clock
  profile,   \* the student's row: settings, switch, counter, last group
  jobs,      \* jobs[d]: the row of day d
  groups,    \* the groups in the library
  expiry,    \* the end of the licence, 0 without one
  account,   \* [present, leaving, removals]: in the registry; the hook of a
             \* removal is due, or waits for a request under way
  stopping,  \* the engine is closing
  ticking,   \* the loop of ticks runs; a process that found no store to restore
             \* starts it when a daemon is switched or a queue begun
  flight,    \* the request under way, and the locals of its tick
  restarts,  \* restarts so far
  school     \* history: what left and what was acknowledged, see Init

vars == <<now, profile, jobs, groups, expiry, account, stopping, ticking, flight,
          restarts, school>>

\* Faulty variant: doubt does not hold the account up.
BusyUnsure == {"sending_entry", "sending_exit", "waiting_exit", "rejected"}

Busy == {"sending_entry", "sending_exit", "waiting_exit", "uncertain", "rejected"}
States == {"sending_entry", "sending_exit", "waiting_exit", "uncertain", "rejected",
           "idle", "resolved"}
Job == [state : States, attempted : Nat, completed : Nat, due : Nat, entry : Nat,
        group : Groups \cup {None}, rules : Settings \cup {None},
        sender : {"this", "earlier"},
        batch : {"none", "active", "ended"}, until : Nat]
NoJob == [state |-> "idle", attempted |-> 0, completed |-> 0, due |-> 0, entry |-> 0,
          group |-> None, rules |-> None, sender |-> "this",
          batch |-> "none", until |-> 0]

Profile == [rules : Settings \cup {None}, enabled : BOOLEAN, reached : BOOLEAN,
            last : Groups \cup {None}]
Flight == [pc : {"none", "ready", "connect", "guarded", "reply", "commit"},
           kind : {"check", "photo"}, phase : {"entry", "exit"}, day : Days,
           manual : BOOLEAN, batch : BOOLEAN, job : Job, stamp : Nat, since : Nat]
Grounded == [pc |-> "none", kind |-> "check", phase |-> "entry",
             day |-> CHOOSE d \in Days : TRUE,
             manual |-> FALSE, batch |-> FALSE, job |-> NoJob, stamp |-> 0, since |-> 0]

TypeOK ==
  /\ now \in Nat
  /\ profile \in Profile
  /\ jobs \in [Days -> Job]
  /\ groups \subseteq Groups
  /\ expiry \in Nat
  /\ account \in [present : BOOLEAN, leaving : {"no", "due", "waiting"}, removals : Nat]
  /\ stopping \in BOOLEAN /\ ticking \in BOOLEAN
  /\ flight \in Flight
  /\ restarts \in Nat
  /\ school \in [at : {"out", "in", "unknown"}, entered : Nat, quiet : BOOLEAN,
                 entries : [Days -> Nat], exits : [Days -> Nat]]

Init ==
  /\ now = 0
  /\ profile = [rules |-> None, enabled |-> FALSE, reached |-> FALSE, last |-> None]
  /\ jobs = [d \in Days |-> NoJob]
  /\ groups = {} /\ expiry = 0
  /\ account = [present |-> TRUE, leaving |-> "no", removals |-> 0]
  /\ stopping = FALSE
  /\ ticking \in BOOLEAN      \* restore(): a store is there, be it empty, or not
  /\ flight = Grounded
  /\ restarts = 0
  \* where the student is by the requests that left and were acknowledged; the
  \* stamp of the entry that was; whether sending was called off; entry checks
  \* that left and exits that were acknowledged, by day
  /\ school = [at |-> "out", entered |-> 0, quiet |-> TRUE,
               entries |-> [d \in Days |-> 0], exits |-> [d \in Days |-> 0]]
-----------------------------------------------------------------------------
Smaller(a, b) == IF a < b THEN a ELSE b
Lead(due) == IF due > now THEN due - now ELSE 0

Today == DayOf[now]
Open(t) == {w \in Windows : w.from <= t /\ t < w.to}
\* window_end(): when the window that contains the time ends; 0 outside of all.
WindowEnd(t) ==
  IF Open(t) = {} THEN 0
  ELSE (CHOOSE w \in Open(t) : TRUE).to

Licensed == now < expiry
DailyLimit(p) == Smaller(Limit[p.rules], HardLimit)

\* Faulty variant: one round too many.
RemainingOneMore(p, j) ==
  IF j.attempted <= DailyLimit(p) THEN DailyLimit(p) + 1 - j.attempted ELSE 0

Remaining(p, j) == IF j.attempted < DailyLimit(p) THEN DailyLimit(p) - j.attempted ELSE 0
Queued(j) == j.batch = "active"
Ended(j) == [j EXCEPT !.batch = "ended"]
Fresh(j) == j.entry <= now /\ now - j.entry < Pair

Outstanding == {d \in Days : jobs[d].state \in Busy}
Queues == {d \in Days : Queued(jobs[d])}
\* Only the pair begun a moment ago may be continued.
Blocked == \E d \in Outstanding : d # Today \/ jobs[d].state # "waiting_exit"

\* valid(): what must hold for anything to be sent, the pair's age apart.
Valid(p, manual) ==
  /\ Licensed /\ ~stopping
  /\ account.present
  /\ manual \/ p.enabled
  /\ p.rules # None /\ Today \in OpenOn[p.rules]
  /\ WindowEnd(now) # 0

\* batch_margin(): the time the rest of a queue takes.
QueueMargin(p, j) ==
  Lead(j.due) +
    IF j.state = "waiting_exit"
    THEN IF Remaining(p, j) > 0 THEN Round * Remaining(p, j) + ExitRound ELSE LastExit
    ELSE Margin + IF Remaining(p, j) > 1 THEN Round * (Remaining(p, j) - 1) ELSE 0

Available == Smaller(WindowEnd(now), expiry)

\* Faulty variant: the licence is not looked at.
TimeInWindow(amount) == now + amount <= WindowEnd(now)

TimeFor(amount) == now + amount <= Available

\* A lock held by a tick keeps every other operation of the account waiting.
LockFree == flight.pc = "none"
\* perform(): the request still speaks for the account of that name.
Admitted == LockFree /\ account.present
-----------------------------------------------------------------------------
(* The tick: one transaction that claims the next phase, or settles what may *)
(* not go on.                                                                *)

Orphans == {d \in Days : /\ jobs[d].state \in {"sending_entry", "sending_exit"}
                         /\ jobs[d].sender = "earlier"}

\* Faulty variant: an account whose daemon is off is not looked at.
LateWhileOn == {d \in Days : /\ jobs[d].state = "waiting_exit"
                             /\ d # Today \/ ~Fresh(jobs[d])
                             /\ profile.enabled \/ Queued(jobs[d])}

Late == {d \in Days : /\ jobs[d].state = "waiting_exit"
                      /\ d # Today \/ ~Fresh(jobs[d])}

\* What a process before this one sent, and pairs nobody finished, are in
\* doubt; queues of another day are over.
Swept == [d \in Days |->
  IF d \in Orphans \cup Late THEN [Ended(jobs[d]) EXCEPT !.state = "uncertain"]
  ELSE IF d # Today /\ Queued(jobs[d]) THEN Ended(jobs[d])
  ELSE jobs[d]]

Switched(p, on) == [p EXCEPT !.enabled = on]

\* The transaction commits with today's row and the profile, and sends nothing.
Settle(j, p) ==
  /\ jobs' = [Swept EXCEPT ![Today] = j]
  /\ profile' = p
  /\ UNCHANGED <<flight, school>>

\* An automatic queue is put on today's agenda, its first entry at random.
Scheduled(p, j) ==
  LET slack == IF TimeFor(QueueMargin(p, j)) THEN Available - now - QueueMargin(p, j) ELSE 0
      latest == IF j.state # "waiting_exit" /\ j.attempted = 0 THEN slack ELSE 0
  IN {[j EXCEPT !.batch = "active", !.until = WindowEnd(now),
                !.due = IF @ > now + initial THEN @ ELSE now + initial]
        : initial \in 0..latest}

Unscheduled(p, j) ==
  \/ j.batch = "ended"
  \/ j.state \notin {"idle", "resolved", "waiting_exit"}
  \/ j.state # "waiting_exit" /\ (Remaining(p, j) = 0 \/ p.reached)
  \/ ~TimeFor(QueueMargin(p, j))

Candidates(p) == IF groups \ {p.last} = {} THEN groups ELSE groups \ {p.last}

\* The row of a claimed phase; an entry is charged to the day's budget.
Claimed(p, j, phase) ==
  IF phase = "exit" THEN {[j EXCEPT !.state = "sending_exit", !.sender = "this"]}
  ELSE {[j EXCEPT !.state = "sending_entry", !.sender = "this",
                  !.attempted = @ + 1, !.entry = now, !.group = g, !.rules = p.rules]
          : g \in Candidates(p)}

Phase(j) == IF j.state = "waiting_exit" THEN "exit" ELSE "entry"

Claim(p, j, manual) == \E job \in Claimed(p, j, Phase(j)) :
  /\ jobs' = [Swept EXCEPT ![Today] = job]
  /\ profile' = p
  /\ flight' = [pc |-> "ready", kind |-> "check", phase |-> Phase(j), day |-> Today,
                manual |-> manual, batch |-> Queued(j), job |-> job,
                stamp |-> now, since |-> now]
  /\ school' = IF manual THEN [school EXCEPT !.quiet = FALSE] ELSE school

\* From the point where today's row is due or not.
Proceed(p, j, manual) ==
  IF j.due > now THEN Settle(j, p)
  ELSE IF Phase(j) = "exit" THEN Claim(p, j, manual)
  ELSE IF Remaining(p, j) = 0 \/ p.reached
       THEN Settle(IF Queued(j) THEN Ended(j) ELSE j, p)
  ELSE IF ~TimeFor(Margin) THEN Settle(j, p)
  ELSE IF groups = {} THEN Settle(j, Switched(p, FALSE))
  ELSE Claim(p, j, manual)

Transaction(manual) ==
  LET j == Swept[Today]
      p == Switched(profile, profile.enabled /\ Orphans \cup Late = {})
      over == IF Queued(j) THEN Ended(j) ELSE j
  IN IF Late # {} THEN Settle(j, p)
     ELSE IF Queued(j) /\ now >= j.until THEN Settle(Ended(j), p)
     ELSE IF ~p.enabled /\ ~Queued(j) /\ ~manual THEN Settle(j, p)
     ELSE IF ~Licensed THEN Settle(over, Switched(p, FALSE))
     ELSE IF ~Valid(p, manual \/ Queued(j)) THEN Settle(over, p)
     ELSE IF Blocked THEN Settle(j, p)
     ELSE IF p.enabled /\ ~manual /\ ~Queued(j)
          THEN IF Unscheduled(p, j) THEN Settle(j, p)
               ELSE \E queued \in Scheduled(p, j) : Proceed(p, queued, manual)
     ELSE Proceed(p, j, manual)

\* The loop's turn, run(): it does not wait for the lock, and asks only for the
\* accounts of the registry.
Tick ==
  /\ ticking /\ Admitted
  /\ Transaction(FALSE)
  /\ UNCHANGED <<now, groups, expiry, account, stopping, ticking, restarts>>

\* manual_availability() and manual(): the student asks for the next phase.
Manual ==
  LET j == jobs[Today] IN
  /\ Admitted
  /\ Licensed /\ ~profile.enabled /\ ~Queued(j)
  /\ Valid(profile, TRUE)
  /\ ~Blocked
  /\ j.due <= now
  /\ Phase(j) = "exit" => Fresh(j)
  /\ Phase(j) = "entry" => /\ Remaining(profile, j) > 0 /\ ~profile.reached
                           /\ TimeFor(Margin) /\ groups # {}
  /\ Transaction(TRUE)
  /\ UNCHANGED <<now, groups, expiry, account, stopping, ticking, restarts>>
-----------------------------------------------------------------------------
(* The flight.                                                             *)

\* guard(): evaluated before the photo is read, before connecting and right
\* before the request is written.
Guard ==
  LET f == flight IN
  /\ Valid(profile, f.manual \/ f.batch)
  /\ Fresh(f.job)
  /\ f.batch => Queued(jobs[f.day]) /\ now < jobs[f.day].until
  /\ profile.rules = f.job.rules

AtRequest(place) == flight.pc = place
Advance(place) == flight' = [flight EXCEPT !.pc = place]
InTime == now - flight.since <= Wire

OnlyFlight ==
  UNCHANGED <<now, profile, jobs, groups, expiry, account, stopping, ticking, restarts>>

\* Photo read and permission given: the first request begins.
Begin ==
  /\ AtRequest("ready") /\ Guard /\ flight.job.group \in groups
  /\ flight' = [flight EXCEPT !.pc = "connect", !.since = now]
  /\ OnlyFlight /\ UNCHANGED school

Connected ==
  /\ AtRequest("connect") /\ Guard
  /\ Advance("guarded")
  /\ OnlyFlight /\ UNCHANGED school

\* The request leaves.  Time may have passed since the guard.
Leave ==
  /\ AtRequest("guarded") /\ InTime
  /\ Advance("reply")
  /\ school' = IF flight.kind = "photo" THEN school
       ELSE [school EXCEPT !.at = "unknown",
               !.entries[flight.day] = IF flight.phase = "entry" THEN @ + 1 ELSE @]
  /\ OnlyFlight

\* Faulty variant: the card check alone makes the phase.
AcceptedAsDone ==
  /\ AtRequest("reply") /\ flight.kind = "check" /\ InTime
  /\ Advance("commit")
  /\ OnlyFlight /\ UNCHANGED school

\* check(): the reply is the one affirmative sentence; it may tell the counter.
\* The photo's request begins with a guard of its own.
Accepted ==
  /\ AtRequest("reply") /\ flight.kind = "check" /\ InTime /\ Guard
  /\ flight' = [flight EXCEPT !.pc = "connect", !.kind = "photo", !.since = now]
  /\ OnlyFlight /\ UNCHANGED school

\* photo(): both parts of the phase are acknowledged.
PhotoAccepted ==
  /\ AtRequest("reply") /\ flight.kind = "photo" /\ InTime
  /\ Advance("commit")
  /\ school' = [school EXCEPT
       !.at = IF flight.phase = "entry" THEN "in" ELSE "out",
       !.entered = IF flight.phase = "entry" THEN flight.stamp ELSE @,
       !.exits[flight.day] = IF flight.phase = "exit" THEN @ + 1 ELSE @]
  /\ OnlyFlight

\* The row of a phase whose two parts were acknowledged.
Acknowledged(pause) ==
  IF flight.phase = "entry"
  THEN [flight.job EXCEPT !.state = "waiting_exit", !.due = flight.stamp + pause]
  ELSE [flight.job EXCEPT !.state = "idle", !.completed = @ + 1, !.due = now + pause]

\* The closing transaction of such a phase.
Commit == \E reached \in {profile.reached, TRUE, FALSE}, pause \in Gap :
  LET j == Acknowledged(pause)
      over == flight.batch /\ (Remaining(profile, j) = 0 \/ reached)
  IN
  /\ AtRequest("commit")
  /\ IF flight.phase = "entry"
     THEN /\ jobs' = [jobs EXCEPT ![flight.day] = j]
          /\ profile' = [profile EXCEPT !.reached = reached]
     ELSE /\ jobs' = [jobs EXCEPT ![flight.day] = IF over THEN Ended(j) ELSE j]
          /\ profile' = [profile EXCEPT !.reached = reached, !.last = j.group]
  /\ flight' = Grounded
  /\ UNCHANGED <<now, groups, expiry, account, stopping, ticking, restarts, school>>

\* Faulty variant: a state that the store does not count as outstanding.
FailStateUnlisted(job, state) ==
  /\ jobs' = [jobs EXCEPT ![flight.day] = [Ended(job) EXCEPT !.state = "failed"]]
  /\ profile' = Switched(profile, FALSE)

\* The row the tick holds when something goes wrong: when it is the closing
\* transaction that fails, perhaps already the acknowledged one.
Local == {flight.job} \cup
  {j \in {Acknowledged(pause) : pause \in Gap} : flight.pc = "commit"}

\* Whatever goes wrong ends the phase in doubt, or rejected when the school
\* said no, and ends queue and daemon; nothing is repeated.
FailState(job, state) ==
  /\ jobs' = [jobs EXCEPT ![flight.day] = [Ended(job) EXCEPT !.state = state]]
  /\ profile' = Switched(profile, FALSE)

Fail == \E job \in Local :
  /\ flight.pc # "none"
  /\ FailState(job, "uncertain")
  /\ flight' = Grounded /\ school' = [school EXCEPT !.quiet = TRUE]
  /\ UNCHANGED <<now, groups, expiry, account, stopping, ticking, restarts>>

Rejected ==
  /\ AtRequest("reply") /\ flight.kind = "check" /\ InTime
  /\ FailState(flight.job, "rejected")
  /\ flight' = Grounded /\ school' = [school EXCEPT !.quiet = TRUE]
  /\ UNCHANGED <<now, groups, expiry, account, stopping, ticking, restarts>>

\* The disk is full: even the record of the failure is lost.
FailUnsaved ==
  /\ flight.pc # "none"
  /\ flight' = Grounded /\ school' = [school EXCEPT !.quiet = TRUE]
  /\ OnlyFlight
-----------------------------------------------------------------------------
(* The student's requests, each under the account's lock.                  *)

Rest == <<now, groups, expiry, account, stopping, flight, restarts>>

\* start(): what the requests for a queue and for the switch end with, and the
\* manual phase does not.
StartTicks == ticking' = TRUE

\* batch_availability() and start_batch().
StartBatch ==
  LET j == jobs[Today] IN
  /\ Admitted
  /\ ~Queued(j) /\ ~profile.enabled
  /\ Valid(profile, TRUE)
  /\ ~Blocked
  /\ j.state = "waiting_exit" => Fresh(j)
  /\ j.state # "waiting_exit" => Remaining(profile, j) > 0 /\ ~profile.reached
  /\ groups # {}
  /\ TimeFor(QueueMargin(profile, j))
  /\ jobs' = [jobs EXCEPT ![Today].batch = "active", ![Today].until = WindowEnd(now)]
  /\ school' = [school EXCEPT !.quiet = FALSE]
  /\ StartTicks
  /\ UNCHANGED profile /\ UNCHANGED Rest

EnableGuard ==
  /\ Admitted
  /\ Queues = {} /\ Licensed
  /\ profile.rules # None
  /\ groups # {}
  /\ ~Blocked /\ \A d \in Outstanding : Fresh(jobs[d])
  /\ jobs' = [jobs EXCEPT ![Today].batch = "none"]
  /\ profile' = Switched(profile, TRUE)
  /\ school' = [school EXCEPT !.quiet = FALSE]
  /\ StartTicks
  /\ UNCHANGED Rest

\* Faulty variant: the switch is off, a queue goes on.
CallOffSwitchOnly ==
  /\ profile' = Switched(profile, FALSE)
  /\ school' = [school EXCEPT !.quiet = TRUE]
  /\ UNCHANGED jobs

\* toggle(False), also what the removal of an account ends with.
CallOff ==
  /\ jobs' = [d \in Days |-> IF Queued(jobs[d]) THEN Ended(jobs[d]) ELSE jobs[d]]
  /\ profile' = Switched(profile, FALSE)
  /\ school' = [school EXCEPT !.quiet = TRUE]

DisableGuard == Admitted /\ CallOff /\ StartTicks /\ UNCHANGED Rest

\* resolve(): the student has looked the outstanding phases up.
Resolve ==
  /\ Admitted
  /\ \A d \in Outstanding : now > jobs[d].entry + Margin
  /\ jobs' = [d \in Days |->
       LET j == IF Queued(jobs[d]) THEN Ended(jobs[d]) ELSE jobs[d]
       IN IF d \in Outstanding THEN [j EXCEPT !.state = "resolved"] ELSE j]
  /\ profile' = Switched(profile, FALSE)
  /\ school' = [school EXCEPT !.at = "out", !.quiet = TRUE]
  /\ UNCHANGED ticking /\ UNCHANGED Rest

\* store.configure(): rules change only while nothing is outstanding.
Configure == \E rules \in Settings, reached \in BOOLEAN :
  /\ Admitted
  /\ Queues = {}
  /\ rules # profile.rules => Outstanding = {}
  /\ rules = profile.rules => reached = profile.reached
  /\ profile' = [profile EXCEPT !.rules = rules, !.enabled = FALSE, !.reached = reached]
  /\ school' = [school EXCEPT !.quiet = TRUE]
  /\ UNCHANGED <<jobs, ticking>> /\ UNCHANGED Rest

RecordCount == \E reached \in BOOLEAN :
  /\ Admitted
  /\ profile.rules # None
  /\ profile' = [profile EXCEPT !.reached = reached]
  /\ UNCHANGED <<jobs, ticking, school>> /\ UNCHANGED Rest

CreateGroup == \E g \in Groups :
  /\ Admitted
  /\ groups' = groups \cup {g}
  /\ UNCHANGED <<now, profile, jobs, expiry, account, stopping, ticking, flight, restarts,
                 school>>

\* Faulty variant: only a phase on the wire protects its photos.
DeleteGroupWaiting == \E g \in groups :
  /\ Admitted
  /\ \A d \in Outstanding : jobs[d].state = "waiting_exit" \/ jobs[d].group # g
  /\ groups' = groups \ {g}
  /\ UNCHANGED <<now, profile, jobs, expiry, account, stopping, ticking, flight, restarts,
                 school>>

\* delete_groups(): not the group of a phase that is outstanding.
DeleteGroup == \E g \in groups :
  /\ Admitted
  /\ \A d \in Outstanding : jobs[d].group # g
  /\ groups' = groups \ {g}
  /\ UNCHANGED <<now, profile, jobs, expiry, account, stopping, ticking, flight, restarts,
                 school>>

\* A code of the issuer starts the licence or continues it.
Activate == \E e \in Expiries :
  /\ Admitted
  /\ e > now /\ e > expiry
  /\ expiry' = e
  /\ UNCHANGED <<now, profile, jobs, groups, account, stopping, ticking, flight, restarts,
                 school>>
-----------------------------------------------------------------------------
(* What no lock holds up.                                                  *)

\* dispose_account(): the account is out of the registry at once; the TD hook
\* then waits for the lock.
Remove ==
  /\ account.present /\ account.leaving = "no" /\ account.removals < Removals
  /\ account' = [present |-> FALSE, leaving |-> IF LockFree THEN "due" ELSE "waiting",
                 removals |-> account.removals + 1]
  /\ UNCHANGED <<now, profile, jobs, groups, expiry, stopping, ticking, flight, restarts,
                 school>>

RemoveHook ==
  /\ account.leaving # "no" /\ LockFree
  /\ CallOff
  /\ account' = [account EXCEPT !.leaving = "no"]
  /\ UNCHANGED <<now, groups, expiry, stopping, ticking, flight, restarts>>

\* A login builds a new account object under the same name.
Login ==
  /\ ~account.present
  /\ account' = [account EXCEPT !.present = TRUE]
  /\ UNCHANGED <<now, profile, jobs, groups, expiry, stopping, ticking, flight, restarts,
                 school>>

\* shutdown(): permissions are refused from now on, and the loop is cancelled; a
\* request under way goes on in its thread.
Close ==
  /\ ~stopping /\ restarts < Restarts
  /\ stopping' = TRUE /\ ticking' = FALSE
  /\ UNCHANGED <<now, profile, jobs, groups, expiry, account, flight, restarts, school>>

\* The process ends, in order or not, and another one starts; restore() starts
\* the loop, unless it cannot open the store.
Restart ==
  /\ restarts < Restarts
  /\ restarts' = restarts + 1
  /\ jobs' = [d \in Days |-> [jobs[d] EXCEPT !.sender = "earlier"]]
  /\ flight' = Grounded /\ stopping' = FALSE /\ ticking' \in BOOLEAN
  /\ account' = [account EXCEPT !.leaving = "no"]
  /\ UNCHANGED <<now, profile, groups, expiry, school>>

Clock ==
  /\ now + 1 < Horizon
  /\ now' = now + 1
  /\ UNCHANGED <<profile, jobs, groups, expiry, account, stopping, ticking, flight, restarts,
                 school>>

Send == Begin \/ Connected \/ Leave \/ Accepted \/ PhotoAccepted \/ Commit
          \/ Fail \/ Rejected \/ FailUnsaved
Ask == Manual \/ StartBatch \/ EnableGuard \/ DisableGuard \/ Resolve \/ Configure
         \/ RecordCount \/ CreateGroup \/ DeleteGroup \/ Activate
Environment == Remove \/ RemoveHook \/ Login \/ Close \/ Restart \/ Clock

Next == Tick \/ Send \/ Ask \/ Environment

Spec == Init /\ [][Next]_vars
-----------------------------------------------------------------------------
\* Time passes; the loop, once it runs, comes round every five seconds; and a
\* request under way ends.
LiveSpec == Spec /\ WF_vars(Clock) /\ WF_vars(Tick) /\ WF_vars(Send)

EntryLeaves == \E d \in Days : school'.entries[d] > school.entries[d]
CheckLeaves == /\ flight.pc = "guarded" /\ flight'.pc = "reply"
               /\ flight.kind = "check"
RequestLeaves == flight.pc = "guarded" /\ flight'.pc = "reply"

\* No day sees more entries on the wire than the limit of the settings, nor
\* more than three whatever they say: an entry is charged before it is sent and
\* neither doubt, a restart nor a new queue refunds it (core/td_scheduler.py,
\* _tick: attempted).
EntryBudget ==
  [][EntryLeaves => school.entries[flight.day] < DailyLimit(profile)]_vars

\* Requests alternate: an entry leaves only when every earlier round has been
\* acknowledged to its end or looked up by the student, an exit only after its
\* own entry has been acknowledged with its photo, on the same day and in the
\* seven minutes.  So nothing whose outcome is unknown is ever repeated, over
\* lost replies, full disks and restarts.
NoReplay ==
  [][CheckLeaves =>
       IF flight.phase = "entry" THEN school.at = "out"
       ELSE /\ school.at = "in"
            /\ school.entered = flight.job.entry
            /\ Today = flight.day
            /\ now < school.entered + Pair + Wire]_vars

\* What called sending off stays called off: after a pause, a failure, a
\* verification, a change of settings or the removal of the account nothing
\* leaves until the student asks for it again.
QuietStays == [][RequestLeaves => ~school.quiet]_vars

\* A pair once begun can be finished: as long as it is young enough for its exit,
\* neither the end of the opening hours nor that of the licence stands in the
\* way, whatever was decided meanwhile.
PairFits == \A d \in Days :
  jobs[d].state = "waiting_exit" /\ Fresh(jobs[d]) =>
    Today = d /\ Licensed /\ WindowEnd(now) # 0 /\ Today \in OpenOn[profile.rules]

\* The local tally never claims more than was acknowledged: a round counts as
\* completed after its exit's photo was, and a pair waits for its exit only
\* after its entry's was.
HonestTally ==
  /\ \A d \in Days : jobs[d].completed <= school.exits[d]
  /\ \A d \in Days : jobs[d].state = "waiting_exit" =>
       school.at = "in" /\ school.entered = jobs[d].entry

\* The photos of a phase that is under way or waits stay in the library.
PhotosKept == \A d \in Outstanding : jobs[d].group \in groups

\* While the loop of ticks runs, a pair that waits for its exit does not wait for
\* ever, be the student's switch on or off and the queue over or not: the exit is
\* sent, or the pair is put in doubt for the student to see.
PairEnds == \A d \in Days :
  jobs[d].state = "waiting_exit" /\ ticking
    ~> (jobs[d].state # "waiting_exit" \/ ~account.present \/ ~ticking)

\* "Removed flag is already set before this hook, so transport preflight cannot
\* authorize another request while we wait for an in-flight one" (the comment
\* of remove_account, core/td_scheduler.py).
RemovalStops ==
  [][account.leaving = "waiting" =>
       flight' = flight \/ flight'.pc \notin {"connect", "guarded"}]_vars
=============================================================================
