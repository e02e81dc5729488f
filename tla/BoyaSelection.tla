--------------------------- MODULE BoyaSelection ---------------------------
(***************************************************************************)
(* perform_boya_action of core/boya_actions.py and the write path of       *)
(* core/boya_client.py for one student account and one day: the student's  *)
(* buttons and the Boya daemon, each in a thread of its own, select and    *)
(* drop lectures under the account's lock:                                 *)
(*                                                                         *)
(*   lock -> list -> observe -> (pool) -> submit -> (quota) -> post        *)
(*        -> (reserve) -> verify -> verified                               *)
(*                                                                         *)
(* The lock is held from "list" on.  Pages that only read the official     *)
(* list take no lock.  An operation has one ledger row per scope (a number *)
(* of free seats, an enrolment); the rows of one action on one lecture     *)
(* form a group.  There is no clock here: a window that opens or closes, a *)
(* cool-down, a full lecture, a daemon switched off and an account whose   *)
(* epoch has passed are refusals that may always occur.  There is one      *)
(* object for the account, whose copy of the reservations is loaded from   *)
(* the ledger at start and changes along with it.                          *)
(***************************************************************************)
EXTENDS OperationLedger, FiniteSets

CONSTANTS
  Courses,     \* lectures
  Exclusive,   \* Exclusive[c]: lectures that overlap c or fill the same target;
               \* one overlaps itself
  Scopes,      \* values of operation_scope
  Asked,       \* Asked[x]: the <<action, lecture>> pairs thread x asks for
  Elsewhere,   \* the pairs the student also does on the school's own pages
  Buttons,     \* threads of the student's requests
  Worker,      \* the daemon's thread for this account
  Readers,     \* threads of pages that read the official list
  Nobody,      \* not a thread: the holder of a free lock
  KeyLimit,    \* claims per row (3)
  QuotaLimit   \* selection requests per lecture and day (9)

Callers == Buttons \cup {Worker}
Writes == {"select", "drop"}

ASSUME BoyaAssumption ==
  /\ Exclusive \in [Courses -> SUBSET Courses]
  /\ Asked \in [Callers -> SUBSET ((Writes \cup {"sync"}) \X Courses)]
  /\ \A ask \in Asked[Worker] : ask[1] # "drop"
  /\ \A x \in Buttons : \A ask \in Asked[x] : ask[1] # "sync"
  /\ Elsewhere \subseteq Writes \X Courses
  /\ Nobody \notin Callers /\ Worker \notin Buttons
  /\ Scopes # {} /\ Courses # {}
  /\ KeyLimit \in Nat /\ QuotaLimit \in Nat \ {0}

VARIABLES
  rows,      \* rows[a][c][s]: ledger rows of the writes
  quota,     \* quota[c]: the row of today's selection budget
  excluded,  \* boya_auto_exclusions: lectures never selected automatically
  snapshot,  \* boya_selected_snapshots: the official list last observed
  reserved,  \* reservations: selections that await official confirmation
  school,    \* [enrolled, listed]: the truth, and what the official list shows
  stray,     \* stray[a]: lectures a request is still under way for, unheard
  holder,    \* who holds the account's lock
  call,      \* call[x]: where x is in perform_boya_action, and its locals
  reader,    \* reader[r]: a page between its reading and observe_selected
  history    \* [posted, resolved, declined, held, lost], see Init

vars == <<rows, quota, excluded, snapshot, reserved, school, stray, holder,
          call, reader, history>>

durable == <<rows, quota, excluded, snapshot, reserved>>

Places == {"idle", "lock", "list", "observe", "pool", "submit", "quota", "post",
           "reserve", "verify", "verified"}
Inside == Places \ {"idle", "lock"}
Wires == {"none", "unsent", "sent", "accepted", "refused", "already", "lost"}

CallType == [pc : Places, action : Writes \cup {"sync"}, course : Courses,
             scope : Scopes, seen : SUBSET Courses, wire : Wires,
             late : BOOLEAN]

\* The lectures whose selections in force are worth remembering.
Contested == UNION {Exclusive[c] \ {c} : c \in Courses}

TypeOK ==
  /\ rows \in [Writes -> [Courses -> [Scopes -> Row]]]
  /\ quota \in [Courses -> Row]
  /\ excluded \subseteq Courses /\ snapshot \subseteq Courses /\ reserved \subseteq Courses
  /\ school \in [enrolled : SUBSET Courses, listed : SUBSET Courses]
  /\ stray \in [Writes -> SUBSET Courses]
  /\ holder \in Callers \cup {Nobody}
  /\ call \in [Callers -> CallType]
  /\ reader \in [Readers -> [reading : BOOLEAN, seen : SUBSET Courses]]
  /\ history \in [posted : [Courses -> Nat], resolved : [Writes -> [Courses -> BOOLEAN]],
                  declined : SUBSET Courses, held : SUBSET Courses, lost : SUBSET Courses]

\* An idle thread's locals mean nothing: they are those of no call at all.
Idle == [pc |-> "idle", action |-> "sync", course |-> CHOOSE c \in Courses : TRUE,
         scope |-> CHOOSE s \in Scopes : TRUE, seen |-> {}, wire |-> "none",
         late |-> FALSE]

Init ==
  /\ rows = [a \in Writes |-> [c \in Courses |-> [s \in Scopes |-> NoRow]]]
  /\ quota = [c \in Courses |-> NoRow]
  /\ excluded = {} /\ snapshot = {} /\ reserved = {}
  /\ school = [enrolled |-> {}, listed |-> {}]
  /\ stray = [a \in Writes |-> {}]
  /\ holder = Nobody
  /\ call = [x \in Callers |-> Idle]
  /\ reader = [r \in Readers |-> [reading |-> FALSE, seen |-> {}]]
  \* selection requests that left; whether the last request of a write got a
  \* definite answer or shows in the list; lectures the student gave up;
  \* accepted selections in force; selections a crash interrupted
  /\ history = [posted |-> [c \in Courses |-> 0],
                resolved |-> [a \in Writes |-> [c \in Courses |-> TRUE]],
                declined |-> {}, held |-> {}, lost |-> {}]
-----------------------------------------------------------------------------
At(x, place) == call[x].pc = place
Action(x) == call[x].action
Course(x) == call[x].course
Key(x) == rows[Action(x)][Course(x)][call[x].scope]
Automatic(x) == x = Worker /\ Action(x) = "select"

Goto(x, place) == call' = [call EXCEPT ![x].pc = place] /\ UNCHANGED holder

\* The list is not looked at again; the scope is that of the lecture as it is.
ToSubmit(x) ==
  /\ \E s \in Scopes :
       call' = [call EXCEPT ![x].pc = "submit", ![x].scope = s, ![x].seen = {}]
  /\ UNCHANGED holder

\* The answer has been dealt with; what follows asks only for the lecture.
ToVerify(x) ==
  /\ call' = [call EXCEPT ![x] = [Idle EXCEPT
       !.pc = "verify", !.action = Action(x), !.course = Course(x)]]
  /\ UNCHANGED holder

\* Leaving the block that holds the lock, by return or exception.
Leave(x) ==
  /\ call' = [call EXCEPT ![x] = Idle]
  /\ holder' = IF holder = x THEN Nobody ELSE holder

SetKey(x, row) == rows' = [rows EXCEPT ![Action(x)][Course(x)][call[x].scope] = row]

Group(a, c) == {rows[a][c][s].state : s \in Scopes}

\* Ledger tables with the groups of some lectures settled, or forgotten.
SettledFor(table, cs) ==
  [c \in Courses |-> [s \in Scopes |->
     IF c \in cs THEN Settled(table[c][s], 0) ELSE table[c][s]]]
ForgottenFor(table, cs) ==
  [c \in Courses |-> [s \in Scopes |->
     IF c \in cs THEN Forgotten(table[c][s]) ELSE table[c][s]]]

\* observe_selected(): what was in the last list and is gone is not to be
\* selected automatically any more.
ObserveSelected(seen) ==
  /\ excluded' = excluded \cup (snapshot \ seen)
  /\ snapshot' = seen
-----------------------------------------------------------------------------
(* Before the write. *)

\* A thread asks for the account's lock; "sync" is the daemon's own reading.
Ask(x, a, c) ==
  /\ At(x, "idle")
  /\ call' = [call EXCEPT ![x] = [Idle EXCEPT
       !.pc = "lock", !.action = a, !.course = c]]
  /\ UNCHANGED <<durable, school, stray, holder, reader, history>>

\* Faulty variant: the intent to drop is not noted before the request.
EnterNoIntent(x) ==
  /\ At(x, "lock") /\ holder = Nobody
  /\ history' = [history EXCEPT
       !.declined = @ \cup IF Action(x) = "drop" THEN {Course(x)} ELSE {}]
  /\ \/ /\ ~(Automatic(x) /\ Course(x) \in excluded)
        /\ holder' = x
        /\ call' = [call EXCEPT ![x].pc = "list",
             ![x].late = Automatic(x) /\ Course(x) \in history.declined]
     \/ Leave(x)
  /\ UNCHANGED <<durable, school, stray, reader>>

\* The lock is free.  The intent to drop is noted for good before anything
\* else; a lecture excluded is not selected automatically; a session that
\* cannot be renewed ends the call.
Enter(x) ==
  LET dropped == IF Action(x) = "drop" THEN {Course(x)} ELSE {} IN
  /\ At(x, "lock") /\ holder = Nobody
  /\ excluded' = excluded \cup dropped
  /\ history' = [history EXCEPT !.declined = @ \cup dropped]
  /\ \/ /\ ~(Automatic(x) /\ Course(x) \in excluded)
        /\ holder' = x
        /\ call' = [call EXCEPT ![x].pc = "list",
             ![x].late = Automatic(x) /\ Course(x) \in history.declined]
     \/ Leave(x)
  /\ UNCHANGED <<rows, quota, snapshot, reserved, school, stray, reader>>

\* query_chosen_courses(), and the thread may be suspended with its answer.
ListReplies(x) ==
  /\ call[x].pc \in {"list", "verify"}
  /\ call' = [call EXCEPT ![x].seen = school.listed,
       ![x].pc = IF At(x, "list") THEN "observe" ELSE "verified"]
  /\ UNCHANGED <<durable, school, stray, holder, reader, history>>

\* On entry the account's epoch has passed, the daemon has been switched off
\* or the session cannot be renewed; or a read raised.
Abandoned(x) ==
  /\ call[x].pc \in {"lock", "list", "pool", "verify"}
  /\ At(x, "lock") => holder = Nobody
  /\ Leave(x)
  /\ UNCHANGED <<durable, school, stray, reader, history>>

\* The list is observed and reconcile_official() settles what it confirms;
\* then the call goes on, or the list itself answers it.
Observed(x) ==
  LET seen == call[x].seen
      gone == excluded \cup (snapshot \ seen)
      settled == SettledFor(rows["select"], seen)
      again == x \in Buttons /\ Action(x) = "select" /\ Course(x) \in gone \ seen
  IN
  /\ At(x, "observe")
  /\ ObserveSelected(seen)
  /\ reserved' = reserved \ seen
  /\ rows' = [rows EXCEPT !["select"] =
       IF again THEN ForgottenFor(settled, {Course(x)}) ELSE settled]
  /\ history' = [history EXCEPT !.resolved["select"] =
       [c \in Courses |-> @[c] \/ c \in seen]]
  /\ \/ /\ Action(x) = "select" /\ Course(x) \notin seen
        /\ ~(Automatic(x) /\ Course(x) \in gone)
        /\ Goto(x, "pool")
     \/ /\ Action(x) = "drop" /\ Course(x) \in seen
        /\ ToSubmit(x)
     \/ /\ \/ Action(x) # "select" \/ Course(x) \in seen
           \/ Automatic(x) /\ Course(x) \in gone
        /\ Leave(x)
  /\ UNCHANGED <<quota, school, stray, reader>>

\* Faulty variant: a candidate compared with the official list only.
PoolRepliesListOnly(x) ==
  /\ At(x, "pool")
  /\ \/ /\ Automatic(x) => Exclusive[Course(x)] \cap call[x].seen = {}
        /\ ToSubmit(x)
     \/ Leave(x)
  /\ UNCHANGED <<durable, school, stray, reader, history>>

\* query_courses(): a full lecture, a closed window, an unsuitable candidate
\* and, for the daemon, one that conflicts with what is selected or reserved.
PoolReplies(x) ==
  /\ At(x, "pool")
  /\ \/ /\ Automatic(x) => Exclusive[Course(x)] \cap (call[x].seen \cup reserved) = {}
        /\ ToSubmit(x)
     \/ Leave(x)
  /\ UNCHANGED <<durable, school, stray, reader, history>>
-----------------------------------------------------------------------------
(* The write. *)

\* Faulty variant: the claim looks at its own row only.
VerdictOwnRow(x) == ClaimVerdict(Key(x), {}, FALSE, KeyLimit, 0, 0)

Verdict(x) ==
  ClaimVerdict(Key(x), Group(Action(x), Course(x)), Action(x) = "select", KeyLimit, 0, 0)

Permitted(x) == ~(Automatic(x) /\ Course(x) \in excluded)

\* Whatever ends the block: a selection still open stays reserved.
KeepReserved(x) ==
  reserved' = reserved \cup
    IF Action(x) = "select" /\ Key(x).state \in Unsettled THEN {Course(x)} ELSE {}

\* final_guard(), the pause between selections, and the claim.  What fails
\* there, and a verdict of "busy", is Refused, which is possible anyway.
Claim(x) ==
  /\ At(x, "submit") /\ Permitted(x) /\ Verdict(x) = "granted"
  /\ SetKey(x, Claimed(Key(x), 0))
  /\ call' = IF Action(x) = "select" THEN [call EXCEPT ![x].pc = "quota"]
             ELSE [call EXCEPT ![x].pc = "post", ![x].wire = "unsent"]
  /\ UNCHANGED <<quota, excluded, snapshot, reserved, school, stray, holder,
                 reader, history>>

\* The claim says that the school has accepted the write before.
AlreadyAccepted(x) ==
  /\ At(x, "submit") /\ Permitted(x) /\ Verdict(x) = "accepted"
  /\ IF Action(x) = "select" THEN Goto(x, "reserve") ELSE ToVerify(x)
  /\ UNCHANGED <<durable, school, stray, reader, history>>

Refused(x) ==
  /\ At(x, "submit")
  /\ KeepReserved(x) /\ Leave(x)
  /\ UNCHANGED <<rows, quota, excluded, snapshot, school, stray, reader, history>>

\* The selection budget is charged in a transaction of its own; without it
\* the operation's claim is closed again, its attempt lost.  (Its claim and
\* finish are taken together: a crash in between only refuses more.)
ClaimQuota(x) ==
  LET granted == ClaimVerdict(quota[Course(x)], {}, FALSE, QuotaLimit, 0, 0) = "granted" IN
  /\ At(x, "quota")
  /\ \/ /\ granted
        /\ quota' = [quota EXCEPT ![Course(x)] = Finished(Claimed(@, 0), "failed", 0)]
        /\ call' = [call EXCEPT ![x].pc = "post", ![x].wire = "unsent"]
        /\ UNCHANGED <<rows, holder>>
     \/ /\ ~granted
        /\ SetKey(x, Finished(Key(x), "failed", 0))
        /\ Leave(x) /\ UNCHANGED quota
  /\ UNCHANGED <<excluded, snapshot, reserved, school, stray, reader, history>>

\* ConnectError, ConnectTimeout, PoolTimeout.
ConnectFails(x) ==
  /\ At(x, "post") /\ call[x].wire = "unsent"
  /\ SetKey(x, FailedBeforeSend(Key(x), 0))
  /\ quota' = IF Action(x) = "select"
              THEN [quota EXCEPT ![Course(x)] = FailedBeforeSend(@, 0)] ELSE quota
  /\ Leave(x)
  /\ UNCHANGED <<excluded, snapshot, reserved, school, stray, reader, history>>

Transmit(x) ==
  /\ At(x, "post") /\ call[x].wire = "unsent"
  /\ call' = [call EXCEPT ![x].wire = "sent"]
  /\ history' = [history EXCEPT
       !.posted[Course(x)] = @ + IF Action(x) = "select" THEN 1 ELSE 0,
       !.resolved[Action(x)][Course(x)] = FALSE]
  /\ UNCHANGED <<durable, school, stray, holder, reader>>

\* What the school makes of a write it accepts.
Applied(a, c) ==
  CASE a = "select" -> [school EXCEPT !.enrolled = @ \cup {c}]
    [] a = "drop"   -> [school EXCEPT !.enrolled = @ \ {c}]

HeldAfter(a, c) ==
  CASE a = "select" -> history.held \cup ({c} \cap Contested)
    [] a = "drop"   -> history.held \ {c}

SchoolHandles(x, answer) ==
  LET enrolled == Course(x) \in school.enrolled
      applied == answer = "accepted"
  IN
  /\ At(x, "post") /\ call[x].wire = "sent"
  /\ answer = "already" => Action(x) = "select" /\ enrolled
  /\ applied => enrolled = (Action(x) # "select")
  /\ call' = [call EXCEPT ![x].wire = answer]
  /\ school' = IF applied THEN Applied(Action(x), Course(x)) ELSE school
  /\ history' = IF applied THEN [history EXCEPT !.held = HeldAfter(Action(x), Course(x))]
                ELSE history
  /\ UNCHANGED <<durable, stray, holder, reader>>

\* Faulty variant: the ledger is given the school's word.
ReplyRaw(x) ==
  /\ At(x, "post") /\ call[x].wire \in {"accepted", "refused", "already"}
  /\ SetKey(x, Finished(Key(x), call[x].wire, 0))
  /\ Leave(x)
  /\ history' = [history EXCEPT !.resolved[Action(x)][Course(x)] = TRUE]
  /\ UNCHANGED <<quota, excluded, snapshot, reserved, school, stray, reader>>

\* Faulty variant: a refused selection is not counted.
ReplyRefunds(x) ==
  /\ At(x, "post") /\ call[x].wire = "refused"
  /\ SetKey(x, FailedBeforeSend(Key(x), 0))
  /\ quota' = [quota EXCEPT ![Course(x)] = FailedBeforeSend(@, 0)]
  /\ Leave(x)
  /\ history' = [history EXCEPT !.resolved[Action(x)][Course(x)] = TRUE]
  /\ UNCHANGED <<excluded, snapshot, reserved, school, stray, reader>>

\* A definite answer: accepted; refused, which includes an expired session;
\* or a refusal that says the lecture is selected already.
Reply(x) ==
  /\ At(x, "post")
  /\ \/ /\ call[x].wire = "accepted"
        /\ SetKey(x, Finished(Key(x), "success", 0))
        /\ IF Action(x) = "select" THEN Goto(x, "reserve") ELSE ToVerify(x)
     \/ /\ call[x].wire = "already"
        /\ SetKey(x, Finished(Key(x), "failed", 0))
        /\ Goto(x, "reserve")
     \/ /\ call[x].wire = "refused"
        /\ SetKey(x, Finished(Key(x), "failed", 0))
        /\ Leave(x)
  /\ history' = [history EXCEPT !.resolved[Action(x)][Course(x)] = TRUE]
  /\ UNCHANGED <<quota, excluded, snapshot, reserved, school, stray, reader>>

\* Timeout, broken connection, HTTP error, an answer that cannot be read.
ReplyLost(x) ==
  /\ At(x, "post")
  /\ SetKey(x, Finished(Key(x), "uncertain", 0))
  /\ stray' = [stray EXCEPT ![Action(x)] =
       @ \cup IF call[x].wire = "sent" THEN {Course(x)} ELSE {}]
  /\ IF Action(x) = "select"
     THEN call' = [call EXCEPT ![x].pc = "reserve", ![x].wire = "lost"] /\ UNCHANGED holder
     ELSE Leave(x)
  /\ UNCHANGED <<quota, excluded, snapshot, reserved, school, reader, history>>

\* The refusal that says so confirms the selection after all.
Confirm(x) ==
  /\ At(x, "reserve") /\ call[x].wire = "already"
  /\ SetKey(x, Confirmed(Key(x), 0))
  /\ call' = [call EXCEPT ![x].wire = "accepted"]
  /\ UNCHANGED <<quota, excluded, snapshot, reserved, school, stray, holder, reader,
                 history>>

\* The reservation, after the answer and in a transaction of its own.
Reserve(x) ==
  /\ At(x, "reserve") /\ call[x].wire # "already"
  /\ reserved' = reserved \cup {Course(x)}
  /\ IF call[x].wire = "lost" THEN Leave(x) ELSE ToVerify(x)
  /\ UNCHANGED <<rows, quota, excluded, snapshot, school, stray, reader, history>>

\* The list read after the write, and what it says about the write.
Verified(x) ==
  LET a == Action(x)
      c == Course(x)
      seen == call[x].seen
      selected == a = "select" /\ c \in seen
      dropped == a = "drop" /\ c \notin seen
  IN
  /\ At(x, "verified")
  /\ ObserveSelected(seen)
  /\ reserved' = IF selected THEN reserved \ {c} ELSE reserved
  /\ rows' = CASE selected -> [rows EXCEPT !["select"] = SettledFor(@, {c}),
                                          !["drop"] = ForgottenFor(@, {c})]
               [] dropped  -> [rows EXCEPT !["drop"] = SettledFor(@, {c}),
                                          !["select"] = ForgottenFor(@, {c})]
               [] OTHER    -> rows
  /\ history' = IF selected THEN [history EXCEPT !.resolved["select"][c] = TRUE] ELSE history
  /\ Leave(x)
  /\ UNCHANGED <<quota, school, stray, reader>>
-----------------------------------------------------------------------------
(* Pages, the school, a crash. *)

\* A page reads the list; requests of one client go one after the other.
PageReads(r) ==
  /\ ~reader[r].reading
  /\ \A x \in Callers : call[x].pc \notin {"quota", "post"}
  /\ reader' = [reader EXCEPT ![r] = [reading |-> TRUE, seen |-> school.listed]]
  /\ UNCHANGED <<durable, school, stray, holder, call, history>>

PageObserves(r) ==
  /\ reader[r].reading
  /\ ObserveSelected(reader[r].seen)
  /\ reader' = [reader EXCEPT ![r] = [reading |-> FALSE, seen |-> {}]]
  /\ UNCHANGED <<rows, quota, reserved, school, stray, holder, call, history>>

\* The official list catches up with the truth.
Published ==
  /\ school.listed # school.enrolled
  /\ school' = [school EXCEPT !.listed = school.enrolled]
  /\ UNCHANGED <<durable, stray, holder, call, reader, history>>

\* The student acts on the school's own pages.
EnrolElsewhere(c) ==
  /\ <<"select", c>> \in Elsewhere /\ c \notin school.enrolled
  /\ school' = [school EXCEPT !.enrolled = @ \cup {c}]
  /\ UNCHANGED <<durable, stray, holder, call, reader, history>>

DropElsewhere(c) ==
  /\ <<"drop", c>> \in Elsewhere /\ c \in school.enrolled
  /\ school' = [school EXCEPT !.enrolled = @ \ {c}]
  /\ history' = [history EXCEPT
       !.held = @ \ {c}, !.declined = @ \cup (snapshot \cap {c})]
  /\ UNCHANGED <<durable, stray, holder, call, reader>>

\* A request nobody waits for any more is handled, or is lost.
StrayHandled(a, c) ==
  /\ c \in stray[a]
  /\ stray' = [stray EXCEPT ![a] = @ \ {c}]
  /\ \/ /\ school' = Applied(a, c)
        /\ history' = [history EXCEPT !.held = IF a = "drop" THEN @ \ {c} ELSE @]
     \/ UNCHANGED <<school, history>>
  /\ UNCHANGED <<durable, holder, call, reader>>

\* The process dies and starts again with what the ledger holds.  A selection
\* cut off between its claim and its reservation is noted.
Crash ==
  LET cut == {x \in Callers : call[x].pc \in {"quota", "post", "reserve"}} IN
  /\ call' = [x \in Callers |-> Idle]
  /\ holder' = Nobody
  /\ reader' = [r \in Readers |-> [reading |-> FALSE, seen |-> {}]]
  /\ stray' = [a \in Writes |-> stray[a] \cup
       {Course(x) : x \in {y \in cut : Action(y) = a /\ call[y].wire = "sent"}}]
  /\ history' = [history EXCEPT !.lost = @ \cup
       (Contested \cap {Course(x) : x \in {y \in cut : Action(y) = "select"}})]
  /\ UNCHANGED <<durable, school>>

Thread(x) ==
  \/ \E ask \in Asked[x] : Ask(x, ask[1], ask[2])
  \/ Enter(x) \/ ListReplies(x) \/ Abandoned(x) \/ Observed(x) \/ PoolReplies(x)
  \/ Claim(x) \/ AlreadyAccepted(x) \/ Refused(x) \/ ClaimQuota(x)
  \/ ConnectFails(x) \/ Reply(x) \/ ReplyLost(x) \/ Confirm(x) \/ Reserve(x) \/ Verified(x)

Network(x) ==
  \/ Transmit(x)
  \/ \E answer \in {"accepted", "refused", "already"} : SchoolHandles(x, answer)

Next ==
  \/ \E x \in Callers : Thread(x) \/ Network(x)
  \/ \E r \in Readers : PageReads(r) \/ PageObserves(r)
  \/ \E c \in Courses : EnrolElsewhere(c) \/ DropElsewhere(c)
  \/ \E a \in Writes, c \in Courses : StrayHandled(a, c)
  \/ Published \/ Crash

Spec == Init /\ [][Next]_vars
-----------------------------------------------------------------------------
(* Safety. *)

\* Over all scopes of a lecture (a new number of free seats opens a row of its
\* own), all refunds and crashes, no more selection requests leave in a day
\* than the budget allows.
SelectBudget == \A c \in Courses : history.posted[c] <= QuotaLimit

\* A write leaves only when the last one of its action on its lecture got a
\* definite answer or shows in the official list: a change of scope, a crash
\* or another thread does not open the way for a second one.
NoBlindWrite ==
  [][\A x \in Callers : At(x, "post") /\ call'[x].wire = "sent" /\ call[x].wire = "unsent"
       => history.resolved[Action(x)][Course(x)]]_vars

\* A lecture the student gave up, in the program or elsewhere once the program
\* had seen it selected, is never again selected by the daemon, over lost
\* answers, lagging lists, restarts and the student's own later selections.
NoRegrab ==
  [][\A x \in Callers : call[x].wire = "unsent" /\ call'[x].wire = "sent" /\ Automatic(x)
       => ~call[x].late]_vars

\* The daemon asks for no lecture that excludes another one whose selection the
\* program has made or cannot rule out (unless a crash cut that one off).
Open(c) == "pending" \in Group("select", c) \/ "uncertain" \in Group("select", c)

NoConflictingHold ==
  [][\A x \in Callers : call[x].wire = "unsent" /\ call'[x].wire = "sent" /\ Automatic(x)
       => \A c \in Exclusive[Course(x)] \ {Course(x)} :
            c \notin history.lost => ~Open(c) /\ c \notin history.held]_vars

\* "A selection to be confirmed keeps occupying its place among the conflicts,
\* and after a restart too" (README.md), without that exception and only where
\* the school has accepted the selection.
PendingKeepsPlace ==
  [][\A x \in Callers : call[x].wire = "unsent" /\ call'[x].wire = "sent" /\ Automatic(x)
       => \A c \in Exclusive[Course(x)] \ {Course(x)} : ~(Open(c) /\ c \in history.held)]_vars
=============================================================================
