----------------------------- MODULE BoyaDaemon -----------------------------
(***************************************************************************)
(* The Boya daemon of core/boya_scheduler.py for one student: its thread,  *)
(* the check of the student's account that a tick hands to a worker, and   *)
(* the network incident kept under the student's name.  A check goes       *)
(*                                                                         *)
(*   queued -> lock (-> renew) -> read .. read -> select -> sign -> end    *)
(*                                                                         *)
(* and each selection or attendance goes through perform_boya_action:      *)
(*                                                                         *)
(*   preflight (-> ordinary) -> submit -> posted                           *)
(*                                                                         *)
(* The account's lock is held from "renew" to the last "read", and during  *)
(* each action.  Before an automatic selection is submitted the worker     *)
(* asks the server's event loop for the ordinary timetable ("ordinary")    *)
(* and waits for the answer, lock in hand.  What is selected, and the      *)
(* ledger, are in BoyaSelection; here an action only runs and ends.  An    *)
(* account object is not used again once it is removed: a new login        *)
(* makes another one.  Ages tell whether a minute has passed.              *)
(***************************************************************************)
EXTENDS Naturals

CONSTANTS
  Objects,   \* account objects of the student, 1 .. the number there can be
  Worker,    \* the daemon's worker, as a holder of locks
  Nobody,    \* the holder of a free lock
  None       \* no account object

VARIABLES
  account,   \* account[o]: the object's flags, token and switches
  listed,    \* accounts[username]: an object, or None
  lock,      \* lock[o]: who holds account_lock
  loop,      \* the request that blocks the event loop, or Nobody
  daemon,    \* [running, alive, event]: the switch, the thread, its stop event
  check,     \* the check under way, and its locals
  incident,  \* _network: whether one is open, and its record
  age,       \* age[l]: how long ago list l was read (last_sync_times)
  calm       \* history: age of the first complete reading since a failure

daemonVars == <<account, listed, lock, loop, daemon, check, incident, age, calm>>

Ages == {"never", "fresh", "old"}
Lists == {"selected", "pool"}
Switches == {"regular", "select", "sign"}
Actions == {"select", "sign"}

Account == [removed : BOOLEAN, gone : BOOLEAN, maintenance : BOOLEAN, input : BOOLEAN,
            token : BOOLEAN, on : [Switches -> BOOLEAN]]
Check == [pc : {"idle", "queued", "lock", "renew", "read", "preflight",
                "ordinary", "submit", "posted", "end"} \cup Actions,
          of : Objects, action : Actions, known : BOOLEAN,
          due : SUBSET Lists, got : SUBSET Lists]
Incident == [open : BOOLEAN, stable : 0..1, age : Ages, cooling : BOOLEAN]

NewAccount(on) ==
  [removed |-> FALSE, gone |-> FALSE, maintenance |-> FALSE, input |-> FALSE,
   token |-> FALSE, on |-> on]
NoCheck == [pc |-> "idle", of |-> 1, action |-> "select", known |-> FALSE,
            due |-> {}, got |-> {}]
NoIncident == [open |-> FALSE, stable |-> 0, age |-> "never", cooling |-> FALSE]

Aged(a) == IF a = "fresh" THEN "old" ELSE a
-----------------------------------------------------------------------------
At(place) == check.pc = place
Mine == account[check.of]
Goto(place) == check' = [check EXCEPT !.pc = place]
EndCheck == check' = NoCheck
TakeLock == lock[check.of] = Nobody /\ lock' = [lock EXCEPT ![check.of] = Worker]
FreeLock == lock' = [lock EXCEPT ![check.of] = Nobody]

\* active() of a check.
Active == ~Mine.removed /\ ~Mine.maintenance /\ daemon.running /\ ~daemon.event

\* _network_failure().
Failure ==
  /\ incident' = [open |-> TRUE, stable |-> 0, age |-> "never", cooling |-> TRUE]
  /\ calm' = "never"

\* Faulty variant: readings in quick succession count.
RecoveredAtOnce ==
  incident' = IF ~incident.open THEN incident
              ELSE IF incident.stable = 1 THEN NoIncident
              ELSE [incident EXCEPT !.stable = 1, !.age = "fresh"]

\* _network_recovered(): the second of two readings a minute apart closes.
Recovered ==
  incident' = IF ~incident.open \/ incident.age = "fresh" THEN incident
              ELSE IF incident.stable = 1 THEN NoIncident
              ELSE [incident EXCEPT !.stable = 1, !.age = "fresh"]
-----------------------------------------------------------------------------
(* The thread. *)

Loops == daemon.alive /\ daemon.running /\ ~daemon.event

\* tick(): the student's check is handed to a worker; the next tick waits for it.
Tick ==
  /\ Loops /\ At("idle")
  /\ listed # None /\ ~account[listed].removed
  /\ account[listed].on["select"] \/ account[listed].on["sign"]
  /\ check' = [NoCheck EXCEPT !.pc = "queued", !.of = listed]
  /\ UNCHANGED <<account, listed, lock, loop, daemon, incident, age, calm>>

ThreadEnds ==
  /\ daemon.alive /\ ~Loops /\ At("idle")
  /\ daemon' = [daemon EXCEPT !.alive = FALSE]
  /\ UNCHANGED <<account, listed, lock, loop, check, incident, age, calm>>

\* A cool-down ends; a minute has passed.
CoolDownEnds ==
  /\ incident.open /\ incident.cooling
  /\ incident' = [incident EXCEPT !.cooling = FALSE]
  /\ UNCHANGED <<account, listed, lock, loop, daemon, check, age, calm>>

Minute ==
  /\ incident' = [incident EXCEPT !.age = Aged(@)]
  /\ age' = [l \in Lists |-> Aged(age[l])]
  /\ calm' = Aged(calm)
  /\ UNCHANGED <<account, listed, lock, loop, daemon, check>>
-----------------------------------------------------------------------------
(* _check_account(): the readings. *)

CheckStarts ==
  /\ At("queued")
  /\ IF Active /\ ~(incident.open /\ incident.cooling)
     THEN check' = [check EXCEPT !.pc = "lock", !.known = incident.open]
     ELSE EndCheck
  /\ UNCHANGED <<account, listed, lock, loop, daemon, incident, age, calm>>

\* The lists to read now; an incident is probed by reading both.  The record
\* of an incident that a removal has dropped since is still in hand.
ToReadings ==
  \E probe \in {check.known /\ incident.age # "fresh"}
               \cup IF check.known /\ ~incident.open THEN BOOLEAN ELSE {} :
    LET due == IF probe THEN Lists ELSE {l \in Lists : age[l] # "fresh"} IN
      IF due = {} THEN FreeLock /\ check' = [check EXCEPT !.pc = "select", !.known = FALSE]
      ELSE /\ lock' = [lock EXCEPT ![check.of] = Worker]
           /\ check' = [check EXCEPT !.pc = "read", !.due = due, !.known = FALSE]

\* Faulty variant: a session is renewed for whatever account it is.
RenewalRefusedNever == FALSE

\* _renew_session_locked(): accounts that must not be authenticated again.
RenewalRefused == Mine.removed \/ Mine.maintenance \/ Mine.input

LockTaken ==
  /\ At("lock") /\ lock[check.of] = Nobody
  /\ IF Mine.token THEN ToReadings
     ELSE \/ ~RenewalRefused /\ TakeLock /\ Goto("renew")
          \/ EndCheck /\ UNCHANGED lock   \* refused, or tried a minute ago
  /\ UNCHANGED <<account, listed, loop, daemon, incident, age, calm>>

Renewed ==
  /\ At("renew")
  /\ \/ /\ account' = [account EXCEPT ![check.of].token = TRUE]
        /\ ToReadings
     \/ /\ \E input \in BOOLEAN :
             account' = [account EXCEPT ![check.of].input = @ \/ input]
        /\ FreeLock /\ EndCheck
  /\ UNCHANGED <<listed, loop, daemon, incident, age, calm>>

ListRead ==
  /\ At("read")
  /\ LET l == IF "selected" \in check.due THEN "selected" ELSE "pool"
         left == check.due \ {l}
     IN /\ age' = [age EXCEPT ![l] = "fresh"]
        /\ check' = [check EXCEPT !.due = left, !.got = @ \cup {l},
                                  !.pc = IF left = {} THEN "select" ELSE "read"]
        /\ IF left = {} THEN FreeLock ELSE UNCHANGED lock
  /\ UNCHANGED <<account, listed, loop, daemon, incident, calm>>

ReadFails ==
  /\ At("read") /\ FreeLock /\ EndCheck
  /\ \/ Failure /\ UNCHANGED account
     \/ /\ \E token \in BOOLEAN :   \* refused with a 401, or not readable
             account' = [account EXCEPT ![check.of].token = token]
        /\ UNCHANGED <<incident, calm>>
  /\ UNCHANGED <<listed, loop, daemon, age>>
-----------------------------------------------------------------------------
(* _check_auto_select() and _check_auto_sign(). *)

ToNext(a) == check' = [check EXCEPT !.pc = IF a = "select" THEN "sign" ELSE "end",
                                    !.action = "select"]

\* guard of perform_boya_action.
Permits(a) == Active /\ Mine.on[a]

ActionBegins(a) ==
  /\ At(a) /\ Permits(a) /\ TakeLock
  /\ check' = [check EXCEPT !.pc = "preflight", !.action = a]
  /\ UNCHANGED <<account, listed, loop, daemon, incident, age, calm>>

\* No lecture (any more) is worth an action.
NoneLeft(a) ==
  /\ At(a) /\ ToNext(a)
  /\ UNCHANGED <<account, listed, lock, loop, daemon, incident, age, calm>>

\* Refused or failed for this lecture only: the next one may be tried.
ActionRefused ==
  /\ check.pc \in {"preflight", "submit", "posted"} /\ FreeLock
  /\ check' = [check EXCEPT !.pc = check.action, !.action = "select"]
  /\ UNCHANGED <<account, listed, loop, daemon, incident, age, calm>>

\* A failed request ends the pass: during a cool-down nothing follows.
ActionFails ==
  /\ check.pc \in {"preflight", "posted"} /\ FreeLock /\ EndCheck /\ Failure
  /\ UNCHANGED <<account, listed, loop, daemon, age>>

PreflightReplies ==
  /\ At("preflight")
  /\ Goto(IF check.action = "select" THEN "ordinary" ELSE "submit")
  /\ UNCHANGED <<account, listed, lock, loop, daemon, incident, age, calm>>

\* normal_ranges_from_worker(): a coroutine of the event loop reads the timetable.
OrdinaryReplies ==
  /\ At("ordinary") /\ loop = Nobody /\ Goto("submit")
  /\ UNCHANGED <<account, listed, lock, loop, daemon, incident, age, calm>>

\* Faulty variant: the worker waits for as long as it takes.
OrdinaryFailsOnReply ==
  /\ At("ordinary") /\ loop = Nobody /\ FreeLock /\ Goto("select")
  /\ UNCHANGED <<account, listed, loop, daemon, incident, age, calm>>

\* ... or does not, within 30 seconds; the wait is given up.
OrdinaryFails ==
  /\ At("ordinary") /\ FreeLock /\ Goto("select")
  /\ UNCHANGED <<account, listed, loop, daemon, incident, age, calm>>

\* The guard is evaluated again before the request leaves.
Submit ==
  /\ At("submit") /\ Permits(check.action) /\ Goto("posted")
  /\ UNCHANGED <<account, listed, lock, loop, daemon, incident, age, calm>>

\* An outcome still to be confirmed ends the series.
PostPending ==
  /\ At("posted") /\ FreeLock /\ ToNext(check.action)
  /\ UNCHANGED <<account, listed, loop, daemon, incident, age, calm>>

CheckEnds ==
  /\ At("end") /\ EndCheck
  /\ IF check.got = Lists
     THEN Recovered /\ calm' = IF calm = "never" THEN "fresh" ELSE calm
     ELSE UNCHANGED <<incident, calm>>
  /\ UNCHANGED <<account, listed, lock, loop, daemon, age>>

WorkerSteps ==
  \/ CheckStarts \/ LockTaken \/ Renewed \/ ListRead \/ ReadFails
  \/ \E a \in Actions : ActionBegins(a) \/ NoneLeft(a)
  \/ ActionRefused \/ ActionFails \/ PreflightReplies
  \/ OrdinaryReplies \/ OrdinaryFails \/ Submit \/ PostPending \/ CheckEnds

DaemonNext == Tick \/ ThreadEnds \/ CoolDownEnds \/ Minute \/ WorkerSteps
-----------------------------------------------------------------------------
(* What the server does to the daemon. *)

\* start(): refused while the thread of an earlier start is still busy.
CanStart == ~daemon.alive
Started == [running |-> TRUE, alive |-> TRUE, event |-> FALSE]

\* stop(): the thread is waited for, but no longer than two seconds.
Stopped == [daemon EXCEPT !.running = FALSE, !.event = TRUE]

\* remove_account(): the daemon forgets the student.
Forget ==
  /\ incident' = NoIncident
  /\ age' = [l \in Lists |-> "never"]
  /\ calm' = "never"

DaemonTypeOK ==
  /\ account \in [Objects -> Account] /\ listed \in Objects \cup {None}
  /\ daemon \in [running : BOOLEAN, alive : BOOLEAN, event : BOOLEAN]
  /\ check \in Check /\ incident \in Incident
  /\ age \in [Lists -> Ages] /\ calm \in Ages

DaemonInit ==
  /\ lock = [o \in Objects |-> Nobody]
  /\ loop = Nobody
  /\ check = NoCheck
  /\ incident = NoIncident
  /\ age = [l \in Lists |-> "never"]
  /\ calm = "never"
=============================================================================
