---------------------------- MODULE IclassSignin ----------------------------
(***************************************************************************)
(* IclassClient.perform_signin of core/iclass.py for one student account   *)
(* and one day.  Every caller (the manual button, the daemon) that wants   *)
(* to sign a lesson runs the coroutine below; it is cut at its awaits:     *)
(*                                                                         *)
(*   lock -> (login) -> list -> time -> claimed -> post -> returned        *)
(*                                                                         *)
(* "claimed" (between the ledger's claim and the last recheck) and         *)
(* "returned" (the result is in the caller's hands) are places where the   *)
(* event loop is not released: only the clock, the network and a crash can *)
(* move there.  A client is one IclassClient object, with a lock and a     *)
(* session of its own; the account has a second one after it was removed   *)
(* and added again.  The date in the ledger key is left out: a lesson's    *)
(* window lies inside one day and regular_window refuses any other day.    *)
(***************************************************************************)
EXTENDS OperationLedger, RegularPolicy, Sequences, FiniteSets

CONSTANTS
  Courses,    \* lesson identifiers (courseSchedId)
  NoCourse,   \* not a lesson: an idle caller's target
  Lesson,     \* Lesson[c]: when the window opens, the lesson starts and ends
  Callers,    \* coroutines that call perform_signin or hold its lock
  Clients,    \* IclassClient objects of the account
  Nobody,     \* not a caller: the holder of a free lock
  ClientOf,   \* ClientOf[x]: the object whose perform_signin x calls
  MaxSkew,    \* tolerated difference between device and school clock (30 s)
  Horizon     \* bound on the clock

ASSUME SigninAssumption ==
  /\ NoCourse \notin Courses /\ Nobody \notin Callers
  /\ Lesson \in [Courses -> [opens : Nat, starts : Nat, ends : Nat]]
  /\ ClientOf \in [Callers -> Clients]
  /\ MaxSkew \in Nat /\ Horizon \in Nat

VARIABLES
  ledger,   \* ledger[c]: the row of the key (account, iclass-sign, c, today)
  signed,   \* signed[c]: the school has recorded the attendance
  lock,     \* lock[k]: who is inside k._signin_lock
  session,  \* session[k]: k holds user_id and session_id
  call,     \* call[x]: where x is in perform_signin, and its local variables
  stray,    \* stray[c]: a request whose sender gave up may still be handled
  now,      \* the device clock
  sentAt,   \* history: when requests for c left the machine
  answered  \* history: the last request sent for c got a definite answer

vars == <<ledger, signed, lock, session, call, stray, now, sentAt, answered>>
history == <<sentAt, answered>>

Places == {"idle", "lock", "login", "list", "time", "claimed", "post", "returned"}
Inside == {"login", "list", "time", "claimed", "post"}
Wires == {"none", "unsent", "sent", "accepted", "refused", "denied"}
Results == {"none", "true", "false", "error", "cancelled"}

Idle == [pc |-> "idle", course |-> NoCourse, schoolNow |-> 0,
         wire |-> "none", result |-> "none"]

CallType == [pc : Places, course : Courses \cup {NoCourse}, schoolNow : Nat,
             wire : Wires, result : Results]

TypeOK ==
  /\ ledger \in [Courses -> Row]
  /\ signed \in [Courses -> BOOLEAN]
  /\ lock \in [Clients -> Callers \cup {Nobody}]
  /\ session \in [Clients -> BOOLEAN]
  /\ call \in [Callers -> CallType]
  /\ stray \in [Courses -> BOOLEAN]
  /\ now \in Nat
  /\ sentAt \in [Courses -> Seq(Nat)]
  /\ answered \in [Courses -> BOOLEAN]

Init ==
  /\ ledger = [c \in Courses |-> NoRow]
  /\ signed = [c \in Courses |-> FALSE]
  /\ lock = [k \in Clients |-> Nobody]
  /\ session \in [Clients -> BOOLEAN]
  /\ call = [x \in Callers |-> Idle]
  /\ stray = [c \in Courses |-> FALSE]
  /\ now = 0
  /\ sentAt = [c \in Courses |-> <<>>]
  /\ answered = [c \in Courses |-> TRUE]
-----------------------------------------------------------------------------
Client(x) == ClientOf[x]
Course(x) == call[x].course
At(x, place) == call[x].pc = place

\* No coroutine is between two awaits: the event loop may run any of them.
LoopFree == \A x \in Callers : call[x].pc \notin {"claimed", "returned"}

Goto(x, place) == call' = [call EXCEPT ![x].pc = place]

Returned(x, outcome) ==
  [pc |-> "returned", course |-> Course(x), schoolNow |-> 0,
   wire |-> "none", result |-> outcome]

\* Faulty variant: a path that leaves the block without releasing the lock.
LeaveLocked(x, outcome) ==
  /\ call' = [call EXCEPT ![x] = Returned(x, outcome)]
  /\ UNCHANGED lock

\* return or raise inside the async-with block: the lock is released.
Leave(x, outcome) ==
  /\ call' = [call EXCEPT ![x] = Returned(x, outcome)]
  /\ lock' = [lock EXCEPT ![Client(x)] = Nobody]

SetRow(c, row) == ledger' = [ledger EXCEPT ![c] = row]
DropSession(x) == session' = [session EXCEPT ![Client(x)] = FALSE]
-----------------------------------------------------------------------------
(* The coroutine, one action per stretch between two awaits. *)

Call(x, c) ==
  /\ LoopFree /\ At(x, "idle")
  /\ call' = [call EXCEPT ![x].pc = "lock", ![x].course = c]
  /\ UNCHANGED <<ledger, signed, lock, session, stray, now, history>>

\* Lock acquired; ok is what request_guard and the caller's guard answer.
Enter(x, ok) ==
  /\ LoopFree /\ At(x, "lock") /\ lock[Client(x)] = Nobody
  /\ IF ok
     THEN /\ lock' = [lock EXCEPT ![Client(x)] = x]
          /\ Goto(x, IF session[Client(x)] THEN "list" ELSE "login")
     ELSE Leave(x, "false")
  /\ UNCHANGED <<ledger, signed, session, stray, now, history>>

\* ensure_iclass_session() -> login_iclass(), which catches its own errors.
LoginDone(x) ==
  /\ LoopFree /\ At(x, "login")
  /\ \/ /\ session' = [session EXCEPT ![Client(x)] = TRUE]
        /\ Goto(x, "list") /\ UNCHANGED lock
     \/ /\ Leave(x, "false") /\ UNCHANGED session
  /\ UNCHANGED <<ledger, signed, stray, now, history>>

\* get_today_classes() returned.  Its row for the lesson may be missing, show
\* an unknown status, or lag behind what the school has recorded; a recorded
\* attendance is confirmed in the ledger.
ListDone(x) ==
  /\ LoopFree /\ At(x, "list")
  /\ \/ /\ signed[Course(x)]
        /\ SetRow(Course(x), Confirmed(ledger[Course(x)], now))
        /\ Leave(x, "true")
     \/ /\ InWindow(Lesson[Course(x)], now)
        /\ Goto(x, "time") /\ UNCHANGED <<ledger, lock>>
     \/ /\ Leave(x, "false") /\ UNCHANGED ledger
  /\ UNCHANGED <<signed, session, stray, now, history>>

\* A read raised (the list read also drops a session the school refused), or
\* the task was cancelled while it waited.
ReadFails(x, outcome) ==
  /\ LoopFree /\ call[x].pc \in {"login", "list", "time"}
  /\ outcome = "error" => ~At(x, "login")
  /\ Leave(x, outcome)
  /\ \/ UNCHANGED session
     \/ At(x, "list") /\ outcome = "error" /\ DropSession(x)
  /\ UNCHANGED <<ledger, signed, stray, now, history>>

CancelWait(x) ==
  /\ LoopFree /\ At(x, "lock")
  /\ call' = [call EXCEPT ![x].pc = "returned", ![x].result = "cancelled"]
  /\ UNCHANGED <<ledger, signed, lock, session, stray, now, history>>

\* The school's time arrived: skew check, rechecks and the durable claim.
BeforeStart(x, schoolTime) ==
  LET start == Lesson[Course(x)].starts IN now < start /\ schoolTime < start

SigninVerdict(x, schoolTime) ==
  LET row == ledger[Course(x)] IN
  ClaimVerdict(row, {}, FALSE, MaxPosts,
               MinimumRetryDelay(row.attempts, BeforeStart(x, schoolTime)), now)

Permitted(x, ok, schoolTime) ==
  /\ ok
  /\ schoolTime - now <= MaxSkew /\ now - schoolTime <= MaxSkew
  /\ InWindow(Lesson[Course(x)], schoolTime) /\ InWindow(Lesson[Course(x)], now)

TimeDone(x, ok, schoolTime) ==
  /\ LoopFree /\ At(x, "time")
  /\ \/ /\ Permitted(x, ok, schoolTime) /\ SigninVerdict(x, schoolTime) = "granted"
        /\ SetRow(Course(x), Claimed(ledger[Course(x)], now))
        /\ call' = [call EXCEPT ![x].pc = "claimed", ![x].schoolNow = schoolTime]
        /\ UNCHANGED lock
     \/ /\ Permitted(x, ok, schoolTime) /\ SigninVerdict(x, schoolTime) = "accepted"
        /\ Leave(x, "true") /\ UNCHANGED ledger
     \/ /\ Permitted(x, ok, schoolTime) => SigninVerdict(x, schoolTime) = "busy"
        /\ Leave(x, "false") /\ UNCHANGED ledger
  /\ UNCHANGED <<signed, session, stray, now, history>>

\* Recheck after the claim, which may have waited for another writer; then
\* the request is built.  Without a session there is no header value for it:
\* building it raises, nothing is sent, and the handler records "uncertain".
Recheck(x, ok) ==
  /\ At(x, "claimed")
  /\ LET going == ok /\ InWindow(Lesson[Course(x)], now) IN
     \/ /\ going /\ session[Client(x)]
        /\ call' = [call EXCEPT ![x].pc = "post", ![x].wire = "unsent"]
        /\ UNCHANGED <<ledger, lock>>
     \/ /\ going /\ ~session[Client(x)]
        /\ SetRow(Course(x), Finished(ledger[Course(x)], "uncertain", now))
        /\ Leave(x, "error")
     \/ /\ ~going
        /\ SetRow(Course(x), FailedBeforeSend(ledger[Course(x)], now))
        /\ Leave(x, "false")
  /\ UNCHANGED <<signed, session, stray, now, history>>

\* ConnectError, ConnectTimeout, PoolTimeout: no request left the machine.
ConnectFails(x) ==
  /\ LoopFree /\ At(x, "post") /\ call[x].wire = "unsent"
  /\ SetRow(Course(x), FailedBeforeSend(ledger[Course(x)], now))
  /\ Leave(x, "false")
  /\ UNCHANGED <<signed, session, stray, now, history>>

\* Faulty variant: the school's word is stored in place of the ledger's.
ResponseRaw(x) ==
  /\ LoopFree /\ At(x, "post") /\ call[x].wire \in {"accepted", "refused", "denied"}
  /\ SetRow(Course(x), Finished(ledger[Course(x)], call[x].wire, now))
  /\ Leave(x, IF call[x].wire = "accepted" THEN "true" ELSE "false")
  /\ answered' = [answered EXCEPT ![Course(x)] = TRUE]
  /\ UNCHANGED <<signed, session, stray, now, sentAt>>

\* The response is read: 401/403, or a well-formed answer.
Response(x) ==
  /\ LoopFree /\ At(x, "post")
  /\ \/ /\ call[x].wire = "accepted"
        /\ SetRow(Course(x), Finished(ledger[Course(x)], "success", now))
        /\ Leave(x, "true") /\ UNCHANGED session
     \/ /\ call[x].wire = "refused"
        /\ SetRow(Course(x), Finished(ledger[Course(x)], "failed", now))
        /\ Leave(x, "false") /\ (UNCHANGED session \/ DropSession(x))
     \/ /\ call[x].wire = "denied"
        /\ SetRow(Course(x), Finished(ledger[Course(x)], "failed", now))
        /\ Leave(x, "false") /\ DropSession(x)
  /\ answered' = [answered EXCEPT ![Course(x)] = TRUE]
  /\ UNCHANGED <<signed, stray, now, sentAt>>

\* Faulty variant: every transport error treated as one before the request.
ResponseLostRefunds(x, outcome) ==
  /\ LoopFree /\ At(x, "post")
  /\ SetRow(Course(x), FailedBeforeSend(ledger[Course(x)], now))
  /\ Leave(x, outcome)
  /\ stray' = [stray EXCEPT ![Course(x)] = @ \/ call[x].wire = "sent"]
  /\ UNCHANGED <<signed, session, now, history>>

\* Timeout, broken connection, malformed or contradictory answer, or
\* cancellation: whether the school acted is unknown, and it still may.
ResponseLost(x, outcome) ==
  /\ LoopFree /\ At(x, "post")
  /\ SetRow(Course(x), Finished(ledger[Course(x)], "uncertain", now))
  /\ Leave(x, outcome)
  /\ stray' = [stray EXCEPT ![Course(x)] = @ \/ call[x].wire = "sent"]
  /\ UNCHANGED <<signed, session, now, history>>

Return(x) ==
  /\ At(x, "returned")
  /\ call' = [call EXCEPT ![x] = Idle]
  /\ UNCHANGED <<ledger, signed, lock, session, stray, now, history>>
-----------------------------------------------------------------------------
(* The network, the school, the clock, other readers of the session. *)

Transmit(x) ==
  /\ At(x, "post") /\ call[x].wire = "unsent"
  /\ call' = [call EXCEPT ![x].wire = "sent"]
  /\ sentAt' = [sentAt EXCEPT ![Course(x)] = Append(@, now)]
  /\ answered' = [answered EXCEPT ![Course(x)] = FALSE]
  /\ UNCHANGED <<ledger, signed, lock, session, stray, now>>

SchoolHandles(x, answer) ==
  /\ At(x, "post") /\ call[x].wire = "sent"
  /\ call' = [call EXCEPT ![x].wire = answer]
  /\ signed' = [signed EXCEPT ![Course(x)] = @ \/ answer = "accepted"]
  /\ UNCHANGED <<ledger, lock, session, stray, now, history>>

\* A request nobody waits for any more is handled, or is lost.
StrayHandled(c) ==
  /\ stray[c]
  /\ stray' = [stray EXCEPT ![c] = FALSE]
  /\ \/ signed' = [signed EXCEPT ![c] = TRUE]
     \/ UNCHANGED signed
  /\ UNCHANGED <<ledger, lock, session, call, now, history>>

\* The student signs by other means.
SignedElsewhere(c) ==
  /\ ~signed[c]
  /\ signed' = [signed EXCEPT ![c] = TRUE]
  /\ UNCHANGED <<ledger, lock, session, call, stray, now, history>>

\* get_classes() called outside the sign-in lock (schedule refresh, daemon)
\* drops a session the school refuses, or obtains one.
SessionRefreshed(k) ==
  /\ LoopFree
  /\ session' = [session EXCEPT ![k] = ~session[k]]
  /\ UNCHANGED <<ledger, signed, lock, call, stray, now, history>>

Tick ==
  /\ now < Horizon
  /\ now' = now + 1
  /\ UNCHANGED <<ledger, signed, lock, session, call, stray, history>>

\* The process dies and starts again: only the ledger survives.
Crash ==
  /\ call' = [x \in Callers |-> Idle]
  /\ lock' = [k \in Clients |-> Nobody]
  /\ session' = [k \in Clients |-> FALSE]
  /\ stray' = [c \in Courses |->
       stray[c] \/ \E x \in Callers : Course(x) = c /\ call[x].wire = "sent"]
  /\ UNCHANGED <<ledger, signed, now, history>>

Coroutine(x) ==
  \/ \E c \in Courses : Call(x, c)
  \/ \E ok \in BOOLEAN : Enter(x, ok) \/ Recheck(x, ok)
  \/ LoginDone(x) \/ ListDone(x)
  \/ \E ok \in BOOLEAN, t \in 0 .. Horizon : TimeDone(x, ok, t)
  \/ ConnectFails(x) \/ Response(x) \/ CancelWait(x) \/ Return(x)
  \/ \E outcome \in {"error", "cancelled"} :
       ReadFails(x, outcome) \/ ResponseLost(x, outcome)

Network(x) ==
  \/ Transmit(x)
  \/ \E answer \in {"accepted", "refused", "denied"} : SchoolHandles(x, answer)

Next ==
  \/ \E x \in Callers : Coroutine(x) \/ Network(x)
  \/ \E c \in Courses : StrayHandled(c) \/ SignedElsewhere(c)
  \/ \E k \in Clients : SessionRefreshed(k)
  \/ Tick \/ Crash

Spec == Init /\ [][Next]_vars
-----------------------------------------------------------------------------
(* Safety. *)

\* No interleaving of callers and clients, and no sequence of crashes,
\* connection failures and refunds, makes more than MaxPosts requests for one
\* lesson leave the machine (the claim's limit in OperationLedger.claim).
PostBudget == \A c \in Courses : Len(sentAt[c]) <= MaxPosts

\* Requests that really left come in groups: of Burst + 1 in a row the first
\* and the last are at least a group pause and the in-group spacings apart.
\* The pause lies between two of them, j and the next, and is the in-class one
\* if j was sent after the start (minimum_retry_delay as claim applies it, over
\* restarts and refunds).
GroupPause(c, j) ==
  IF sentAt[c][j] >= Lesson[c].starts THEN InclassDelay ELSE PreclassDelay

GroupSpacing ==
  \A c \in Courses : \A i \in 1 .. Len(sentAt[c]) - Burst :
    \A j \in i .. i + Burst - 1 : j % Burst = 0 =>
      sentAt[c][i + Burst] - sentAt[c][i] >= GroupPause(c, j) + (Burst - 1) * ShortDelay

\* A request leaves only when the previous one for the same lesson got a
\* definite answer: never after a timeout, a cancellation or a crash during
\* the POST, whoever asks and however often (the "uncertain" branch of
\* perform_signin, and "pending" rows surviving a restart).
NoBlindResend ==
  [][\A c \in Courses : sentAt'[c] # sentAt[c] => answered[c]]_vars

\* ensure_iclass_session "makes sure a usable userId and sessionId are held":
\* they still are when the POST, which carries them, is about to be built.
SessionHeldToPost ==
  \A x \in Callers : At(x, "claimed") => session[Client(x)]

\* The inductive invariant behind PostBudget and NoBlindResend.
Sending(x) == call[x].pc \in {"claimed", "post"}
Unsent(x) == Sending(x) /\ call[x].wire \in {"none", "unsent"}

OneSender ==
  \A x, y \in Callers :
    Sending(x) /\ Sending(y) /\ Course(x) = Course(y) => x = y

CallOK ==
  \A x \in Callers :
    /\ ~At(x, "idle") => Course(x) \in Courses
    /\ At(x, "post") <=> call[x].wire # "none"
    /\ Sending(x) => ledger[Course(x)].state \in {"pending", "success"}

Counted ==
  /\ \A c \in Courses :
       /\ ledger[c].attempts <= MaxPosts
       /\ ledger[c].state = "none" => ledger[c].attempts = 0
       /\ Len(sentAt[c]) <= ledger[c].attempts
  /\ \A x \in Callers :
       Unsent(x) => Len(sentAt[Course(x)]) < ledger[Course(x)].attempts

AnswerKnown ==
  /\ \A c \in Courses : ledger[c].state \in {"none", "failed"} => answered[c]
  /\ \A x \in Callers : Unsent(x) => answered[Course(x)]

IInv == TypeOK /\ OneSender /\ CallOK /\ Counted /\ AnswerKnown

\* One client object: perform_signin implements the abstract write.
Permit(row) ==
  CASE row.state = "success" -> "closed"
    [] row.state \in Unsettled -> "held"
    [] OTHER -> "free"

Write == INSTANCE AtMostOnceWrite WITH
  Keys <- Courses, Limit <- MaxPosts,
  permit <- [c \in Courses |-> Permit(ledger[c])],
  used <- [c \in Courses |-> ledger[c].attempts],
  delivered <- [c \in Courses |-> Len(sentAt[c])]

ImplementsWrite == Write!WSpec
=============================================================================
