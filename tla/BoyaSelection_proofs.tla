------------------------ MODULE BoyaSelection_proofs ------------------------
(***************************************************************************)
(* Proofs about BoyaSelection for any lectures, scopes, threads and        *)
(* limits: its type invariant, the budget of selection requests, and that  *)
(* no write follows one whose outcome is unknown.                          *)
(***************************************************************************)
EXTENDS BoyaSelection, OperationLedger_proofs

\* x has a claim and its request has not left.
Unsent(x) == At(x, "quota") \/ (At(x, "post") /\ call[x].wire = "unsent")

\* x knows what became of the last write of its action on its lecture.
Informed(x) ==
  \/ Unsent(x)
  \/ At(x, "reserve") /\ call[x].wire # "lost"
  \/ At(x, "verify") \/ At(x, "verified")

\* A thread inside the lock holds it; from "submit" on it has a write to make
\* or to look after, and its claim, while it has one, is an open row.
CallFine(x) ==
  /\ call[x].pc \in Inside => holder = x
  /\ call[x].pc \in {"pool", "quota"} => Action(x) = "select"
  /\ call[x].pc \in Inside \ {"list", "observe"} => Action(x) \in Writes
  /\ call[x].pc \in {"quota", "post"} => Key(x).state = "pending"
  /\ Informed(x) => history.resolved[Action(x)][Course(x)]
  /\ At(x, "post") /\ call[x].wire = "unsent" /\ Action(x) = "select"
       => history.posted[Course(x)] < quota[Course(x)].attempts

CallOK == \A x \in Callers : CallFine(x)

\* A write whose outcome is unknown has an open row.
AnswerKnown ==
  \A a \in Writes, c \in Courses :
    ~history.resolved[a][c] => \E s \in Scopes : rows[a][c][s].state \in Unsettled

\* The budget's row is never left open, and what left was charged to it.
Counted ==
  \A c \in Courses :
    /\ quota[c].state = "none" => quota[c].attempts = 0
    /\ history.posted[c] <= quota[c].attempts
    /\ quota[c].attempts <= QuotaLimit

IInv == TypeOK /\ CallOK /\ AnswerKnown /\ Counted
-----------------------------------------------------------------------------
(* Types. *)

LEMMA IdleType == Idle \in CallType
<1>1. (CHOOSE c \in Courses : TRUE) \in Courses
  BY BoyaAssumption
<1>2. (CHOOSE s \in Scopes : TRUE) \in Scopes
  BY BoyaAssumption
<1>3. QED BY <1>1, <1>2 DEF Idle, CallType, Places, Wires, Writes

LEMMA RecordTypes ==
  ASSUME TypeOK, NEW x \in Callers
  PROVE  /\ call[x] \in CallType
         /\ Course(x) \in Courses /\ call[x].scope \in Scopes /\ call[x].seen \subseteq Courses
         /\ Action(x) \in Writes => Key(x) \in Row
         /\ quota[Course(x)] \in Row
BY DEF TypeOK, CallType, Course, Action, Key

LEMMA LeaveStep ==
  ASSUME TypeOK, NEW x \in Callers, Leave(x)
  PROVE  /\ call' \in [Callers -> CallType]
         /\ holder' \in Callers \cup {Nobody}
         /\ call'[x] = Idle
         /\ call'[x].pc = "idle" /\ ~call'[x].late
         /\ \A y \in Callers \ {x} : call'[y] = call[y]
<1>1. /\ call' \in [Callers -> CallType]
      /\ holder' \in Callers \cup {Nobody}
      /\ call'[x] = Idle
      /\ \A y \in Callers \ {x} : call'[y] = call[y]
  BY IdleType DEF TypeOK, Leave
<1>2. Idle.pc = "idle" /\ ~Idle.late
  BY DEF Idle
<1>3. QED BY <1>1, <1>2

\* What a step that changes the place or the wire of x leaves as it was.
Same(x) ==
  /\ Action(x)' = Action(x) /\ Course(x)' = Course(x)
  /\ call'[x].scope = call[x].scope /\ call'[x].late = call[x].late
  /\ \A y \in Callers \ {x} : call'[y] = call[y]

LEMMA PlaceStep ==
  ASSUME TypeOK, NEW x \in Callers, NEW p \in Places,
         call' = [call EXCEPT ![x].pc = p]
  PROVE  /\ call' \in [Callers -> CallType]
         /\ call'[x].pc = p /\ call'[x].wire = call[x].wire
         /\ Same(x)
<1> DEFINE r == [call[x] EXCEPT !.pc = p]
<1>1. call[x] \in CallType
  BY RecordTypes
<1>2. /\ r \in CallType
      /\ r.pc = p /\ r.wire = call[x].wire
      /\ r.action = Action(x) /\ r.course = Course(x)
      /\ r.scope = call[x].scope /\ r.late = call[x].late
  BY <1>1 DEF CallType, Action, Course
<1>3. call' = [call EXCEPT ![x] = r]
  BY DEF TypeOK
<1> HIDE DEF r
<1>4. QED BY <1>2, <1>3 DEF TypeOK, Same, Action, Course

LEMMA GotoStep ==
  ASSUME TypeOK, NEW x \in Callers, NEW p \in Places, Goto(x, p)
  PROVE  /\ call' \in [Callers -> CallType]
         /\ holder' \in Callers \cup {Nobody}
         /\ call'[x].pc = p /\ call'[x].wire = call[x].wire /\ holder' = holder
         /\ Same(x)
BY PlaceStep DEF TypeOK, Goto

LEMMA MoveStep ==
  ASSUME TypeOK, NEW x \in Callers, NEW p \in Places, NEW w \in Wires,
         call' = [call EXCEPT ![x].pc = p, ![x].wire = w]
  PROVE  /\ call' \in [Callers -> CallType]
         /\ call'[x].pc = p /\ call'[x].wire = w
         /\ Same(x)
<1> DEFINE r == [call[x] EXCEPT !.pc = p, !.wire = w]
<1>1. call[x] \in CallType
  BY RecordTypes
<1>2. /\ r \in CallType
      /\ r.pc = p /\ r.wire = w
      /\ r.action = Action(x) /\ r.course = Course(x)
      /\ r.scope = call[x].scope /\ r.late = call[x].late
  BY <1>1 DEF CallType, Action, Course
<1>3. call' = [call EXCEPT ![x] = r]
  BY DEF TypeOK
<1> HIDE DEF r
<1>4. QED BY <1>2, <1>3 DEF TypeOK, Same, Action, Course

LEMMA WireStep ==
  ASSUME TypeOK, NEW x \in Callers, NEW w \in Wires,
         call' = [call EXCEPT ![x].wire = w]
  PROVE  /\ call' \in [Callers -> CallType]
         /\ call'[x].pc = call[x].pc /\ call'[x].wire = w
         /\ Same(x)
<1> DEFINE r == [call[x] EXCEPT !.wire = w]
<1>1. call[x] \in CallType
  BY RecordTypes
<1>2. /\ r \in CallType
      /\ r.pc = call[x].pc /\ r.wire = w
      /\ r.action = Action(x) /\ r.course = Course(x)
      /\ r.scope = call[x].scope /\ r.late = call[x].late
  BY <1>1 DEF CallType, Action, Course
<1>3. call' = [call EXCEPT ![x] = r]
  BY DEF TypeOK
<1> HIDE DEF r
<1>4. QED BY <1>2, <1>3 DEF TypeOK, Same, Action, Course

LEMMA ToSubmitStep ==
  ASSUME TypeOK, NEW x \in Callers, ToSubmit(x)
  PROVE  /\ call' \in [Callers -> CallType]
         /\ holder' \in Callers \cup {Nobody}
         /\ At(x, "submit")' /\ Action(x)' = Action(x) /\ holder' = holder
         /\ call'[x].late = call[x].late
         /\ \A y \in Callers \ {x} : call'[y] = call[y]
<1>1. PICK s \in Scopes :
        call' = [call EXCEPT ![x].pc = "submit", ![x].scope = s, ![x].seen = {}]
  BY DEF ToSubmit
<1> DEFINE r == [call[x] EXCEPT !.pc = "submit", !.scope = s, !.seen = {}]
<1>2. call[x] \in CallType
  BY RecordTypes
<1>3. r \in CallType /\ r.pc = "submit" /\ r.action = Action(x) /\ r.late = call[x].late
  BY <1>2 DEF CallType, Places, Action
<1>4. call' = [call EXCEPT ![x] = r]
  BY <1>1 DEF TypeOK
<1> HIDE DEF r
<1>5. QED BY <1>3, <1>4 DEF TypeOK, ToSubmit, At, Action

LEMMA ToVerifyStep ==
  ASSUME TypeOK, NEW x \in Callers, ToVerify(x)
  PROVE  /\ call' \in [Callers -> CallType]
         /\ holder' \in Callers \cup {Nobody}
         /\ At(x, "verify")' /\ Action(x)' = Action(x) /\ Course(x)' = Course(x)
         /\ holder' = holder /\ ~call'[x].late
         /\ \A y \in Callers \ {x} : call'[y] = call[y]
<1>1. call[x] \in CallType
  BY RecordTypes
<1> DEFINE r == [Idle EXCEPT !.pc = "verify", !.action = Action(x), !.course = Course(x)]
<1>2. /\ r \in CallType
      /\ r.pc = "verify" /\ r.action = Action(x) /\ r.course = Course(x)
      /\ ~r.late
  BY <1>1, IdleType DEF CallType, Places, Action, Course, Idle
<1>3. call' = [call EXCEPT ![x] = r] /\ holder' = holder
  BY DEF ToVerify
<1> HIDE DEF r
<1>4. QED BY <1>2, <1>3 DEF TypeOK, At, Action, Course

\* Writing a row of the ledger leaves every other one.
LEMMA SetKeyStep ==
  ASSUME TypeOK, NEW x \in Callers, Action(x) \in Writes,
         NEW row \in Row, SetKey(x, row)
  PROVE  /\ rows' \in [Writes -> [Courses -> [Scopes -> Row]]]
         /\ rows'[Action(x)][Course(x)][call[x].scope] = row
         /\ \A a \in Writes, c \in Courses, s \in Scopes :
              rows'[a][c][s] = rows[a][c][s]
              \/ (a = Action(x) /\ c = Course(x) /\ s = call[x].scope)
<1> DEFINE a0 == Action(x)
           c0 == Course(x)
           s0 == call[x].scope
<1>1. a0 \in Writes /\ c0 \in Courses /\ s0 \in Scopes
  BY RecordTypes
<1>2. rows' = [rows EXCEPT ![a0][c0][s0] = row]
  BY DEF SetKey
<1> HIDE DEF a0, c0, s0
<1>3. /\ rows' \in [Writes -> [Courses -> [Scopes -> Row]]]
      /\ rows'[a0][c0][s0] = row
      /\ \A a \in Writes, c \in Courses, s \in Scopes :
           rows'[a][c][s] = rows[a][c][s] \/ (a = a0 /\ c = c0 /\ s = s0)
  BY <1>1, <1>2 DEF TypeOK
<1>4. QED BY <1>3 DEF a0, c0, s0

\* Setting one cell of a table leaves every other one.
LEMMA CellStep ==
  ASSUME NEW S, NEW f \in [Writes -> [Courses -> S]],
         NEW a0 \in Writes, NEW c0 \in Courses, NEW v \in S, NEW g,
         g = [f EXCEPT ![a0] = [f[a0] EXCEPT ![c0] = v]]
  PROVE  /\ g[a0][c0] = v
         /\ \A a \in Writes, c \in Courses : (a = a0 /\ c = c0) \/ g[a][c] = f[a][c]
OBVIOUS

\* Noting whether the outcome of one write is known.
LEMMA ResolvedStep ==
  ASSUME TypeOK, NEW a0 \in Writes, NEW c0 \in Courses, NEW v \in BOOLEAN,
         history'.resolved =
           [history.resolved EXCEPT ![a0] = [history.resolved[a0] EXCEPT ![c0] = v]]
  PROVE  /\ history'.resolved[a0][c0] = v
         /\ \A a \in Writes, c \in Courses :
              (a = a0 /\ c = c0) \/ history'.resolved[a][c] = history.resolved[a][c]
<1> DEFINE S == BOOLEAN
           f == history.resolved
           g == history'.resolved
<1>1. f \in [Writes -> [Courses -> S]] /\ v \in S
  BY DEF TypeOK
<1>2. g = [f EXCEPT ![a0] = [f[a0] EXCEPT ![c0] = v]]
  OBVIOUS
<1> HIDE DEF S, f, g
<1>3. /\ g[a0][c0] = v
      /\ \A a \in Writes, c \in Courses : (a = a0 /\ c = c0) \/ g[a][c] = f[a][c]
  BY <1>1, <1>2, CellStep
<1>4. QED BY <1>3 DEF f, g

\* Settling or forgetting the groups of some lectures.
LEMMA TableTypes ==
  ASSUME NEW table \in [Courses -> [Scopes -> Row]], NEW cs
  PROVE  /\ SettledFor(table, cs) \in [Courses -> [Scopes -> Row]]
         /\ ForgottenFor(table, cs) \in [Courses -> [Scopes -> Row]]
BY RowTypes DEF SettledFor, ForgottenFor

LEMMA TypeInit == Init => TypeOK
<1> SUFFICES ASSUME Init PROVE TypeOK
  OBVIOUS
<1>1. NoRow \in Row
  BY DEF NoRow, Row, OpStates
<1>2. QED BY <1>1, IdleType DEF Init, TypeOK

LEMMA TypeStep == TypeOK /\ CallOK /\ [Next]_vars => TypeOK'
<1> SUFFICES ASSUME TypeOK, CallOK, [Next]_vars PROVE TypeOK'
  OBVIOUS
<1>a. ASSUME NEW x \in Callers, NEW p \in Places \ {"idle", "lock", "list", "observe"}, At(x, p)
      PROVE  Action(x) \in Writes /\ Key(x) \in Row
  BY <1>a, RecordTypes DEF CallOK, CallFine, At, Inside
<1>1. ASSUME NEW x \in Callers, NEW ask \in Asked[x], Ask(x, ask[1], ask[2]) PROVE TypeOK'
  <2> DEFINE r == [Idle EXCEPT !.pc = "lock", !.action = ask[1], !.course = ask[2]]
  <2>1. ask[1] \in Writes \cup {"sync"} /\ ask[2] \in Courses
    BY BoyaAssumption
  <2>2. r \in CallType
    BY <2>1, IdleType DEF CallType, Places
  <2>3. QED BY <1>1, <2>2 DEF Ask, TypeOK, durable
<1>2. ASSUME NEW x \in Callers, Enter(x) PROVE TypeOK'
  <2>1. /\ call' \in [Callers -> CallType]
        /\ holder' \in Callers \cup {Nobody}
    <3>1. CASE Leave(x)
      BY <3>1, LeaveStep
    <3>2. CASE /\ holder' = x
               /\ call' = [call EXCEPT ![x].pc = "list",
                    ![x].late = Automatic(x) /\ Course(x) \in history.declined]
      <4> DEFINE r == [call[x] EXCEPT !.pc = "list",
                          !.late = Automatic(x) /\ Course(x) \in history.declined]
      <4>1. call[x] \in CallType
        BY RecordTypes
      <4>2. r \in CallType
        BY <4>1 DEF CallType, Places, Automatic
      <4>3. call' = [call EXCEPT ![x] = r]
        BY <3>2 DEF TypeOK
      <4> HIDE DEF r
      <4>4. QED BY <3>2, <4>2, <4>3 DEF TypeOK
    <3>3. QED BY <1>2, <3>1, <3>2 DEF Enter
  <2>2. Course(x) \in Courses
    BY RecordTypes
  <2>3. QED BY <1>2, <2>1, <2>2 DEF Enter, TypeOK
<1>3. ASSUME NEW x \in Callers, ListReplies(x) PROVE TypeOK'
  BY <1>3 DEF ListReplies, TypeOK, CallType, Places, durable
<1>4. ASSUME NEW x \in Callers, Abandoned(x) PROVE TypeOK'
  BY <1>4, LeaveStep DEF Abandoned, TypeOK, durable
<1>5. ASSUME NEW x \in Callers, Observed(x) PROVE TypeOK'
  <2>1. /\ call' \in [Callers -> CallType]
        /\ holder' \in Callers \cup {Nobody}
    <3>1. Goto(x, "pool") \/ ToSubmit(x) \/ Leave(x)
      BY <1>5 DEF Observed
    <3>2. QED BY <3>1, GotoStep, ToSubmitStep, LeaveStep DEF Places
  <2>2. call[x].seen \subseteq Courses
    BY RecordTypes
  <2>3. rows' \in [Writes -> [Courses -> [Scopes -> Row]]]
    <3> DEFINE settled == SettledFor(rows["select"], call[x].seen)
    <3>1. rows["select"] \in [Courses -> [Scopes -> Row]]
      BY DEF TypeOK, Writes
    <3>2. settled \in [Courses -> [Scopes -> Row]]
      BY <3>1, TableTypes
    <3>3. ForgottenFor(settled, {Course(x)}) \in [Courses -> [Scopes -> Row]]
      BY <3>2, TableTypes
    <3> HIDE DEF settled
    <3>4. \/ rows' = [rows EXCEPT !["select"] = settled]
          \/ rows' = [rows EXCEPT !["select"] = ForgottenFor(settled, {Course(x)})]
      BY <1>5 DEF Observed, settled
    <3>5. QED BY <3>2, <3>3, <3>4 DEF TypeOK
  <2>4. history' \in [posted : [Courses -> Nat], resolved : [Writes -> [Courses -> BOOLEAN]],
          declined : SUBSET Courses, held : SUBSET Courses, lost : SUBSET Courses]
    BY <1>5 DEF Observed, TypeOK, Writes
  <2>5. QED BY <1>5, <2>1, <2>2, <2>3, <2>4 DEF Observed, ObserveSelected, TypeOK
<1>6. ASSUME NEW x \in Callers, PoolReplies(x) PROVE TypeOK'
  BY <1>6, ToSubmitStep, LeaveStep DEF PoolReplies, TypeOK, durable
<1>7. ASSUME NEW x \in Callers, Claim(x) PROVE TypeOK'
  <2>1. Action(x) \in Writes /\ Claimed(Key(x), 0) \in Row
    BY <1>7, <1>a, RowTypes DEF Claim, Places
  <2>2. rows' \in [Writes -> [Courses -> [Scopes -> Row]]]
    BY <1>7, <2>1, SetKeyStep DEF Claim
  <2>3. call' \in [Callers -> CallType]
    <3>1. CASE call' = [call EXCEPT ![x].pc = "quota"]
      BY <3>1, PlaceStep DEF Places
    <3>2. CASE call' = [call EXCEPT ![x].pc = "post", ![x].wire = "unsent"]
      BY <3>2, MoveStep DEF Places, Wires
    <3>3. QED BY <1>7, <3>1, <3>2 DEF Claim
  <2>4. QED BY <1>7, <2>2, <2>3 DEF Claim, TypeOK
<1>8. ASSUME NEW x \in Callers, AlreadyAccepted(x) PROVE TypeOK'
  BY <1>8, GotoStep, ToVerifyStep DEF AlreadyAccepted, TypeOK, durable, Places
<1>9. ASSUME NEW x \in Callers, Refused(x) PROVE TypeOK'
  BY <1>9, LeaveStep, RecordTypes DEF Refused, KeepReserved, TypeOK
<1>10. ASSUME NEW x \in Callers, ClaimQuota(x) PROVE TypeOK'
  <2>1. Action(x) \in Writes /\ Finished(Key(x), "failed", 0) \in Row
    BY <1>10, <1>a, RowTypes DEF ClaimQuota, Places
  <2>2. Finished(Claimed(quota[Course(x)], 0), "failed", 0) \in Row
    BY RecordTypes, RowTypes
  <2>3. CASE /\ quota' = [quota EXCEPT ![Course(x)] = Finished(Claimed(@, 0), "failed", 0)]
             /\ call' = [call EXCEPT ![x].pc = "post", ![x].wire = "unsent"]
             /\ UNCHANGED <<rows, holder>>
    <3>1. call' \in [Callers -> CallType]
      BY <2>3, MoveStep DEF Places, Wires
    <3>2. quota' \in [Courses -> Row]
      BY <2>2, <2>3, RecordTypes DEF TypeOK
    <3>3. QED BY <1>10, <2>3, <3>1, <3>2 DEF ClaimQuota, TypeOK
  <2>4. CASE SetKey(x, Finished(Key(x), "failed", 0)) /\ Leave(x) /\ UNCHANGED quota
    BY <1>10, <2>1, <2>4, SetKeyStep, LeaveStep DEF ClaimQuota, TypeOK
  <2>5. QED BY <1>10, <2>3, <2>4 DEF ClaimQuota
<1>11. ASSUME NEW x \in Callers, ConnectFails(x) PROVE TypeOK'
  <2>1. Action(x) \in Writes /\ FailedBeforeSend(Key(x), 0) \in Row
    BY <1>11, <1>a, RowTypes DEF ConnectFails, Places
  <2>2. FailedBeforeSend(quota[Course(x)], 0) \in Row
    BY RecordTypes, RowTypes
  <2>3. quota' \in [Courses -> Row]
    BY <1>11, <2>2, RecordTypes DEF ConnectFails, TypeOK
  <2>4. QED BY <1>11, <2>1, <2>3, SetKeyStep, LeaveStep DEF ConnectFails, TypeOK
<1>12. ASSUME NEW x \in Callers, Transmit(x) PROVE TypeOK'
  <2>1. call' \in [Callers -> CallType]
    BY <1>12, WireStep DEF Transmit, Wires
  <2>2. history' \in [posted : [Courses -> Nat], resolved : [Writes -> [Courses -> BOOLEAN]],
          declined : SUBSET Courses, held : SUBSET Courses, lost : SUBSET Courses]
    <3> DEFINE n == IF Action(x) = "select" THEN 1 ELSE 0
    <3>1. Action(x) \in Writes /\ Course(x) \in Courses /\ n \in Nat
      BY <1>12, <1>a, RecordTypes DEF Transmit, Places
    <3>2. history' = [history EXCEPT !.posted[Course(x)] = @ + n,
                                     !.resolved[Action(x)][Course(x)] = FALSE]
      BY <1>12 DEF Transmit
    <3> HIDE DEF n
    <3> DEFINE a0 == Action(x)
               c0 == Course(x)
    <3>3. history' = [history EXCEPT
            !.posted = [history.posted EXCEPT ![c0] = @ + n],
            !.resolved = [history.resolved EXCEPT ![a0] =
                            [history.resolved[a0] EXCEPT ![c0] = FALSE]]]
      BY <3>1, <3>2 DEF TypeOK
    <3>4. [history.posted EXCEPT ![c0] = @ + n] \in [Courses -> Nat]
      BY <3>1 DEF TypeOK
    <3>5. [history.resolved EXCEPT ![a0] = [history.resolved[a0] EXCEPT ![c0] = FALSE]]
            \in [Writes -> [Courses -> BOOLEAN]]
      <4>1. [history.resolved[a0] EXCEPT ![c0] = FALSE] \in [Courses -> BOOLEAN]
        BY <3>1 DEF TypeOK
      <4>2. QED BY <3>1, <4>1 DEF TypeOK
    <3> HIDE DEF a0, c0
    <3>6. QED BY <3>3, <3>4, <3>5 DEF TypeOK
  <2>3. QED BY <1>12, <2>1, <2>2 DEF Transmit, TypeOK, durable
<1>13. ASSUME NEW x \in Callers, NEW answer \in {"accepted", "refused", "already"},
              SchoolHandles(x, answer)
       PROVE TypeOK'
  <2>1. call' \in [Callers -> CallType]
    BY <1>13, WireStep DEF SchoolHandles, Wires
  <2>2. Action(x) \in Writes /\ Course(x) \in Courses
    BY <1>13, <1>a, RecordTypes DEF SchoolHandles, Places
  <2>3. school' \in [enrolled : SUBSET Courses, listed : SUBSET Courses]
    BY <1>13, <2>2 DEF SchoolHandles, Applied, TypeOK, Writes
  <2>4. history' \in [posted : [Courses -> Nat], resolved : [Writes -> [Courses -> BOOLEAN]],
          declined : SUBSET Courses, held : SUBSET Courses, lost : SUBSET Courses]
    BY <1>13, <2>2 DEF SchoolHandles, HeldAfter, TypeOK, Writes
  <2>5. QED BY <1>13, <2>1, <2>3, <2>4 DEF SchoolHandles, TypeOK, durable
<1>14. ASSUME NEW x \in Callers, Reply(x) PROVE TypeOK'
  <2>1. /\ Action(x) \in Writes
        /\ Finished(Key(x), "success", 0) \in Row /\ Finished(Key(x), "failed", 0) \in Row
    BY <1>14, <1>a, RowTypes DEF Reply, Places
  <2>2. rows' \in [Writes -> [Courses -> [Scopes -> Row]]]
    BY <1>14, <2>1, SetKeyStep DEF Reply
  <2>3. /\ call' \in [Callers -> CallType]
        /\ holder' \in Callers \cup {Nobody}
    <3>1. Goto(x, "reserve") \/ ToVerify(x) \/ Leave(x)
      BY <1>14 DEF Reply
    <3>2. QED BY <3>1, GotoStep, ToVerifyStep, LeaveStep DEF Places
  <2>4. history' \in [posted : [Courses -> Nat], resolved : [Writes -> [Courses -> BOOLEAN]],
          declined : SUBSET Courses, held : SUBSET Courses, lost : SUBSET Courses]
    BY <1>14 DEF Reply, TypeOK
  <2>5. QED BY <1>14, <2>2, <2>3, <2>4 DEF Reply, TypeOK
<1>15. ASSUME NEW x \in Callers, ReplyLost(x) PROVE TypeOK'
  <2>1. Action(x) \in Writes /\ Finished(Key(x), "uncertain", 0) \in Row
    BY <1>15, <1>a, RowTypes DEF ReplyLost, Places
  <2>2. rows' \in [Writes -> [Courses -> [Scopes -> Row]]]
    BY <1>15, <2>1, SetKeyStep DEF ReplyLost
  <2>3. /\ call' \in [Callers -> CallType]
        /\ holder' \in Callers \cup {Nobody}
    <3>1. CASE Leave(x)
      BY <3>1, LeaveStep
    <3>2. CASE /\ call' = [call EXCEPT ![x].pc = "reserve", ![x].wire = "lost"]
               /\ UNCHANGED holder
      BY <3>2, MoveStep DEF TypeOK, Places, Wires
    <3>3. QED BY <1>15, <3>1, <3>2 DEF ReplyLost
  <2>4. stray' \in [Writes -> SUBSET Courses]
    BY <1>15, RecordTypes DEF ReplyLost, TypeOK
  <2>5. QED BY <1>15, <2>2, <2>3, <2>4 DEF ReplyLost, TypeOK
<1>16. ASSUME NEW x \in Callers, Confirm(x) PROVE TypeOK'
  <2>1. Action(x) \in Writes /\ Confirmed(Key(x), 0) \in Row
    BY <1>16, <1>a, RowTypes DEF Confirm, Places
  <2>2. rows' \in [Writes -> [Courses -> [Scopes -> Row]]]
    BY <1>16, <2>1, SetKeyStep DEF Confirm
  <2>3. call' \in [Callers -> CallType]
    BY <1>16, WireStep DEF Confirm, Wires
  <2>4. QED BY <1>16, <2>2, <2>3 DEF Confirm, TypeOK
<1>17. ASSUME NEW x \in Callers, Reserve(x) PROVE TypeOK'
  <2>1. /\ call' \in [Callers -> CallType]
        /\ holder' \in Callers \cup {Nobody}
    BY <1>17, LeaveStep, ToVerifyStep DEF Reserve
  <2>2. Course(x) \in Courses
    BY RecordTypes
  <2>3. QED BY <1>17, <2>1, <2>2 DEF Reserve, TypeOK
<1>18. ASSUME NEW x \in Callers, Verified(x) PROVE TypeOK'
  <2> DEFINE Table == [Courses -> [Scopes -> Row]]
             cs == {Course(x)}
  <2>1. \A a \in Writes : SettledFor(rows[a], cs) \in Table /\ ForgottenFor(rows[a], cs) \in Table
    BY TableTypes DEF TypeOK
  <2>2. rows' \in [Writes -> Table]
    <3>1. CASE rows' = rows
      BY <3>1 DEF TypeOK
    <3>2. CASE rows' = [rows EXCEPT !["select"] = SettledFor(@, cs),
                                    !["drop"] = ForgottenFor(@, cs)]
      BY <2>1, <3>2 DEF TypeOK, Writes
    <3>3. CASE rows' = [rows EXCEPT !["drop"] = SettledFor(@, cs),
                                    !["select"] = ForgottenFor(@, cs)]
      BY <2>1, <3>3 DEF TypeOK, Writes
    <3>4. QED BY <1>18, <3>1, <3>2, <3>3 DEF Verified
  <2>3. /\ call' \in [Callers -> CallType]
        /\ holder' \in Callers \cup {Nobody}
    BY <1>18, LeaveStep DEF Verified
  <2>4. history' \in [posted : [Courses -> Nat], resolved : [Writes -> [Courses -> BOOLEAN]],
          declined : SUBSET Courses, held : SUBSET Courses, lost : SUBSET Courses]
    BY <1>18 DEF Verified, TypeOK
  <2>5. call[x].seen \subseteq Courses
    BY RecordTypes
  <2>6. QED BY <1>18, <2>2, <2>3, <2>4, <2>5 DEF Verified, ObserveSelected, TypeOK
<1>19. ASSUME NEW r \in Readers, PageReads(r) \/ PageObserves(r) PROVE TypeOK'
  <2>1. CASE PageReads(r)
    BY <2>1 DEF PageReads, TypeOK, durable
  <2>2. CASE PageObserves(r)
    BY <2>2 DEF PageObserves, ObserveSelected, TypeOK
  <2>3. QED BY <1>19, <2>1, <2>2
<1>20. ASSUME NEW c \in Courses, EnrolElsewhere(c) \/ DropElsewhere(c) PROVE TypeOK'
  <2>1. CASE EnrolElsewhere(c)
    BY <2>1 DEF EnrolElsewhere, TypeOK, durable
  <2>2. CASE DropElsewhere(c)
    BY <2>2 DEF DropElsewhere, TypeOK, durable
  <2>3. QED BY <1>20, <2>1, <2>2
<1>21. ASSUME NEW a \in Writes, NEW c \in Courses, StrayHandled(a, c) PROVE TypeOK'
  <2>1. school' \in [enrolled : SUBSET Courses, listed : SUBSET Courses]
    <3>1. a = "select" \/ a = "drop"
      BY DEF Writes
    <3>2. CASE school' = Applied(a, c)
      BY <3>1, <3>2 DEF Applied, TypeOK
    <3>3. CASE UNCHANGED school
      BY <3>3 DEF TypeOK
    <3>4. QED BY <1>21, <3>2, <3>3 DEF StrayHandled
  <2>2. history' \in [posted : [Courses -> Nat], resolved : [Writes -> [Courses -> BOOLEAN]],
          declined : SUBSET Courses, held : SUBSET Courses, lost : SUBSET Courses]
    BY <1>21 DEF StrayHandled, TypeOK
  <2>3. QED BY <1>21, <2>1, <2>2 DEF StrayHandled, TypeOK, durable
<1>22. CASE Published
  BY <1>22 DEF Published, TypeOK, durable
<1>23. CASE Crash
  <2>1. \A y \in Callers : Course(y) \in Courses
    BY RecordTypes
  <2>2. stray' \in [Writes -> SUBSET Courses]
    <3> DEFINE cut == {x \in Callers : call[x].pc \in {"quota", "post", "reserve"}}
               was(a) == {Course(x) : x \in {y \in cut : Action(y) = a /\ call[y].wire = "sent"}}
    <3>1. stray' = [a \in Writes |-> stray[a] \cup was(a)]
      BY <1>23 DEF Crash
    <3>2. \A a \in Writes : was(a) \subseteq Courses
      BY <2>1
    <3> HIDE DEF was
    <3>3. QED BY <3>1, <3>2 DEF TypeOK
  <2>3. history' \in [posted : [Courses -> Nat], resolved : [Writes -> [Courses -> BOOLEAN]],
          declined : SUBSET Courses, held : SUBSET Courses, lost : SUBSET Courses]
    <3> DEFINE cut == {x \in Callers : call[x].pc \in {"quota", "post", "reserve"}}
               gone == Contested \cap {Course(x) : x \in {y \in cut : Action(y) = "select"}}
    <3>1. history' = [history EXCEPT !.lost = @ \cup gone]
      BY <1>23 DEF Crash
    <3>2. gone \subseteq Courses
      BY <2>1
    <3> HIDE DEF gone
    <3>3. QED BY <3>1, <3>2 DEF TypeOK
  <2>4. QED BY <1>23, <2>2, <2>3, IdleType DEF Crash, TypeOK, durable
<1>24. CASE UNCHANGED vars
  BY <1>24 DEF vars, TypeOK
<1>25. QED
  BY <1>1, <1>2, <1>3, <1>4, <1>5, <1>6, <1>7, <1>8, <1>9, <1>10, <1>11, <1>12, <1>13,
     <1>14, <1>15, <1>16, <1>17, <1>18, <1>19, <1>20, <1>21, <1>22, <1>23, <1>24
     DEF Next, Thread, Network
-----------------------------------------------------------------------------
(* Who is inside, and what the others' steps leave. *)

\* While x or nobody holds the lock, no other thread is past it.
LEMMA Alone ==
  ASSUME CallOK, NEW x \in Callers, holder \in {x, Nobody} \/ call[x].pc \in Inside
  PROVE  \A y \in Callers \ {x} : call[y].pc \notin Inside
BY BoyaAssumption DEF CallOK, CallFine

\* Nothing is asked of a thread that is not past the lock.
LEMMA Outside ==
  ASSUME NEW y \in Callers, call'[y].pc \notin Inside
  PROVE  CallFine(y)'
BY DEF CallFine, Informed, Unsent, At, Inside, Places

\* A step of the thread inside, or of the one that gets inside.
LEMMA OneMoves ==
  ASSUME CallOK, NEW x \in Callers, holder \in {x, Nobody} \/ call[x].pc \in Inside,
         \A y \in Callers \ {x} : call'[y] = call[y],
         CallFine(x)'
  PROVE  CallOK'
<1>1. \A y \in Callers \ {x} : CallFine(y)'
  BY Alone, Outside
<1>2. QED BY <1>1 DEF CallOK

LEMMA OneLeaves ==
  ASSUME TypeOK, CallOK, NEW x \in Callers, Leave(x),
         holder \in {x, Nobody} \/ call[x].pc \in Inside
  PROVE  CallOK'
<1>1. call'[x] = Idle /\ \A y \in Callers \ {x} : call'[y] = call[y]
  BY LeaveStep
<1>2. CallFine(x)'
  BY <1>1, Outside DEF Idle, Inside
<1>3. QED BY <1>1, <1>2, OneMoves

\* A step of the surroundings, or one that ends all calls.
LEMMA Unmoved ==
  ASSUME CallOK, rows' = rows, quota' = quota,
         history'.posted = history.posted, history'.resolved = history.resolved,
         \A y \in Callers : \/ call'[y] = call[y] /\ holder' = holder
                            \/ call'[y].pc \notin Inside
  PROVE  CallOK'
<1> SUFFICES ASSUME NEW y \in Callers PROVE CallFine(y)'
  BY DEF CallOK
<1>1. CASE call'[y].pc \notin Inside
  BY <1>1, Outside
<1>2. CASE call'[y] = call[y] /\ holder' = holder
  <2>1. CallFine(y)
    BY DEF CallOK
  <2>2. QED BY <1>2, <2>1 DEF CallFine, Informed, Unsent, At, Action, Course, Key
<1>3. QED BY <1>1, <1>2

\* The same rows, and no write whose outcome becomes unknown.
LEMMA RowsUnmoved ==
  ASSUME AnswerKnown, rows' = rows, history'.resolved = history.resolved
  PROVE  AnswerKnown'
BY DEF AnswerKnown

\* One row written: it is open, or what became of its write is known.
LEMMA RowWritten ==
  ASSUME TypeOK, AnswerKnown, NEW x \in Callers, Action(x) \in Writes,
         NEW row \in Row, SetKey(x, row),
         row.state \in Unsettled \/ history'.resolved[Action(x)][Course(x)],
         \A a \in Writes, c \in Courses :
           \/ a = Action(x) /\ c = Course(x)
           \/ history'.resolved[a][c] = history.resolved[a][c]
  PROVE  AnswerKnown'
<1> SUFFICES ASSUME NEW a \in Writes, NEW c \in Courses, ~history'.resolved[a][c]
             PROVE  \E s \in Scopes : rows'[a][c][s].state \in Unsettled
  BY DEF AnswerKnown
<1>1. CASE a = Action(x) /\ c = Course(x)
  <2>1. call[x].scope \in Scopes
    BY RecordTypes
  <2>2. QED BY <1>1, <2>1, SetKeyStep
<1>2. CASE ~(a = Action(x) /\ c = Course(x))
  <2>1. PICK s \in Scopes : rows[a][c][s].state \in Unsettled
    BY <1>2 DEF AnswerKnown
  <2>2. rows'[a][c][s] = rows[a][c][s]
    BY <1>2, SetKeyStep
  <2>3. QED BY <2>1, <2>2
<1>3. QED BY <1>1, <1>2

LEMMA BudgetUnmoved ==
  ASSUME Counted, quota' = quota, history'.posted = history.posted
  PROVE  Counted'
BY DEF Counted

\* Settling leaves the other lectures alone; forgetting leaves open rows open.
LEMMA TableSteps ==
  ASSUME NEW table, NEW cs, NEW c \in Courses, NEW s \in Scopes
  PROVE  /\ c \notin cs => SettledFor(table, cs)[c][s] = table[c][s]
         /\ table[c][s].state \in Unsettled => ForgottenFor(table, cs)[c][s] = table[c][s]
BY DEF SettledFor, ForgottenFor, Forgotten, Unsettled

\* A claim that is not "busy" finds no write of its group with an unknown outcome.
LEMMA NotBusy ==
  ASSUME TypeOK, AnswerKnown, NEW x \in Callers, Action(x) \in Writes,
         Verdict(x) \in {"granted", "accepted"}
  PROVE  history.resolved[Action(x)][Course(x)]
<1>1. Course(x) \in Courses
  BY RecordTypes
<1>2. Group(Action(x), Course(x)) \cap Unsettled = {}
  BY DEF Verdict, ClaimVerdict
<1>3. \A s \in Scopes : rows[Action(x)][Course(x)][s].state \notin Unsettled
  BY <1>2 DEF Group
<1>4. history.resolved \in [Writes -> [Courses -> BOOLEAN]]
  BY DEF TypeOK
<1>5. QED BY <1>1, <1>3, <1>4 DEF AnswerKnown
-----------------------------------------------------------------------------
(* The invariant. *)

LEMMA InvInit == Init => IInv
<1> SUFFICES ASSUME Init PROVE IInv
  OBVIOUS
<1>1. CallOK
  BY DEF Init, CallOK, CallFine, Informed, Unsent, At, Idle, Inside
<1>2. AnswerKnown
  BY DEF Init, AnswerKnown
<1>3. Counted
  BY BoyaAssumption DEF Init, Counted, NoRow
<1>4. QED BY <1>1, <1>2, <1>3, TypeInit DEF IInv

LEMMA InvStep == IInv /\ [Next]_vars => IInv'
<1> SUFFICES ASSUME IInv, [Next]_vars PROVE IInv'
  OBVIOUS
<1> USE DEF IInv
<1>a. TypeOK'
  BY TypeStep
<1>b. ASSUME NEW x \in Callers, call[x].pc \in Inside \ {"list", "observe"}
      PROVE  Action(x) \in Writes /\ Key(x) \in Row
  BY <1>b, RecordTypes DEF CallOK, CallFine
<1>1. ASSUME NEW x \in Callers, NEW ask \in Asked[x], Ask(x, ask[1], ask[2])
      PROVE  CallOK' /\ AnswerKnown' /\ Counted'
  <2>1. \A y \in Callers \ {x} : call'[y] = call[y]
    BY <1>1 DEF Ask
  <2>2. call'[x].pc \notin Inside
    BY <1>1 DEF Ask, TypeOK, Idle, Inside
  <2>3. QED BY <1>1, <2>1, <2>2, Unmoved, RowsUnmoved, BudgetUnmoved DEF Ask, durable
<1>2. ASSUME NEW x \in Callers, Enter(x) PROVE CallOK' /\ AnswerKnown' /\ Counted'
  <2>1. AnswerKnown' /\ Counted'
    BY <1>2, RowsUnmoved, BudgetUnmoved DEF Enter, TypeOK
  <2>2. CASE Leave(x)
    BY <1>2, <2>1, <2>2, OneLeaves DEF Enter
  <2>3. CASE /\ holder' = x
             /\ call' = [call EXCEPT ![x].pc = "list",
                  ![x].late = Automatic(x) /\ Course(x) \in history.declined]
    <3>1. call'[x].pc = "list" /\ \A y \in Callers \ {x} : call'[y] = call[y]
      BY <2>3 DEF TypeOK, CallType
    <3>2. CallFine(x)'
      BY <2>3, <3>1 DEF CallFine, Informed, Unsent, At, Inside
    <3>3. QED BY <1>2, <2>1, <3>1, <3>2, OneMoves DEF Enter
  <2>4. QED BY <1>2, <2>2, <2>3 DEF Enter
<1>3. ASSUME NEW x \in Callers, ListReplies(x) PROVE CallOK' /\ AnswerKnown' /\ Counted'
  <2>1. AnswerKnown' /\ Counted'
    BY <1>3, RowsUnmoved, BudgetUnmoved DEF ListReplies, durable
  <2> DEFINE p == IF At(x, "list") THEN "observe" ELSE "verified"
  <2>2. /\ call'[x].pc = p /\ Action(x)' = Action(x) /\ Course(x)' = Course(x)
        /\ \A y \in Callers \ {x} : call'[y] = call[y]
    BY <1>3 DEF ListReplies, TypeOK, CallType, Action, Course
  <2>3. call[x].pc \in Inside /\ CallFine(x)
    BY <1>3 DEF ListReplies, CallOK, Inside, Places
  <2>4. CallFine(x)'
    <3>1. CASE At(x, "list")
      BY <1>3, <2>2, <2>3, <3>1
         DEF ListReplies, CallFine, Informed, Unsent, At, Inside, Places
    <3>2. CASE At(x, "verify")
      BY <1>3, <2>2, <2>3, <3>2
         DEF ListReplies, CallFine, Informed, Unsent, At, Inside, Places
    <3>3. QED BY <1>3, <3>1, <3>2 DEF ListReplies, At
  <2>5. QED BY <2>1, <2>2, <2>3, <2>4, OneMoves
<1>4. ASSUME NEW x \in Callers, Abandoned(x) PROVE CallOK' /\ AnswerKnown' /\ Counted'
  <2>1. holder \in {x, Nobody} \/ call[x].pc \in Inside
    BY <1>4 DEF Abandoned, At, Inside, Places
  <2>2. QED BY <1>4, <2>1, OneLeaves, RowsUnmoved, BudgetUnmoved DEF Abandoned, durable
<1>5. ASSUME NEW x \in Callers, Observed(x) PROVE CallOK' /\ AnswerKnown' /\ Counted'
  <2>1. call[x].pc \in Inside
    BY <1>5 DEF Observed, At, Inside, Places
  <2>2. CallOK'
    <3>1. CASE Action(x) = "select" /\ Goto(x, "pool")
      <4>1. /\ call'[x].pc = "pool" /\ Action(x)' = "select" /\ holder' = holder
            /\ \A y \in Callers \ {x} : call'[y] = call[y]
        BY <3>1, GotoStep DEF Places, Same
      <4>2. CallFine(x)'
        BY <2>1, <4>1 DEF CallOK, CallFine, Informed, Unsent, At, Inside, Writes
      <4>3. QED BY <2>1, <4>1, <4>2, OneMoves
    <3>2. CASE Action(x) = "drop" /\ ToSubmit(x)
      <4>1. /\ call'[x].pc = "submit" /\ Action(x)' = "drop" /\ holder' = holder
            /\ \A y \in Callers \ {x} : call'[y] = call[y]
        BY <3>2, ToSubmitStep DEF At
      <4>2. CallFine(x)'
        BY <2>1, <4>1 DEF CallOK, CallFine, Informed, Unsent, At, Inside, Writes
      <4>3. QED BY <2>1, <4>1, <4>2, OneMoves
    <3>3. CASE Leave(x)
      BY <2>1, <3>3, OneLeaves
    <3>4. QED BY <1>5, <3>1, <3>2, <3>3 DEF Observed
  <2>3. AnswerKnown'
    <3> SUFFICES ASSUME NEW a \in Writes, NEW c \in Courses, ~history'.resolved[a][c]
                 PROVE  \E s \in Scopes : rows'[a][c][s].state \in Unsettled
      BY DEF AnswerKnown
    <3> DEFINE settled == SettledFor(rows["select"], call[x].seen)
    <3>1. \/ rows' = [rows EXCEPT !["select"] = settled]
          \/ rows' = [rows EXCEPT !["select"] = ForgottenFor(settled, {Course(x)})]
      BY <1>5 DEF Observed
    <3>2. /\ ~history.resolved[a][c]
          /\ a = "select" => c \notin call[x].seen
      BY <1>5 DEF Observed, TypeOK, Writes
    <3>3. PICK s \in Scopes : rows[a][c][s].state \in Unsettled
      BY <3>2 DEF AnswerKnown
    <3>4. a = "select" => settled[c][s] = rows[a][c][s]
      BY <3>2, TableSteps
    <3> HIDE DEF settled
    <3>5. a = "select" => rows'[a][c][s] = rows[a][c][s]
      BY <3>1, <3>3, <3>4, TableSteps DEF TypeOK, Writes
    <3>6. a # "select" => rows'[a][c][s] = rows[a][c][s]
      BY <3>1 DEF TypeOK
    <3>7. QED BY <3>3, <3>5, <3>6
  <2>4. Counted'
    BY <1>5, BudgetUnmoved DEF Observed, TypeOK
  <2>5. QED BY <2>2, <2>3, <2>4
<1>6. ASSUME NEW x \in Callers, PoolReplies(x) PROVE CallOK' /\ AnswerKnown' /\ Counted'
  <2>1. call[x].pc \in Inside /\ Action(x) \in Writes
    BY <1>6, <1>b DEF PoolReplies, At, Inside, Places
  <2>2. CallOK'
    <3>1. CASE ToSubmit(x)
      <4>1. /\ call'[x].pc = "submit" /\ Action(x)' = Action(x) /\ holder' = holder
            /\ \A y \in Callers \ {x} : call'[y] = call[y]
        BY <3>1, ToSubmitStep DEF At
      <4>2. CallFine(x)'
        BY <2>1, <4>1 DEF CallOK, CallFine, Informed, Unsent, At, Inside
      <4>3. QED BY <2>1, <4>1, <4>2, OneMoves
    <3>2. CASE Leave(x)
      BY <2>1, <3>2, OneLeaves
    <3>3. QED BY <1>6, <3>1, <3>2 DEF PoolReplies
  <2>3. QED BY <1>6, <2>2, RowsUnmoved, BudgetUnmoved DEF PoolReplies, durable
<1>7. ASSUME NEW x \in Callers, Claim(x) PROVE CallOK' /\ AnswerKnown' /\ Counted'
  <2>1. call[x].pc \in Inside /\ Action(x) \in Writes /\ Key(x) \in Row /\ CallFine(x)
    BY <1>7, <1>b DEF Claim, At, Inside, Places, CallOK
  <2> DEFINE row == Claimed(Key(x), 0)
  <2>2. row \in Row /\ row.state = "pending" /\ SetKey(x, row)
    BY <1>7, <2>1, RowTypes DEF Claim, Claimed
  <2> HIDE DEF row
  <2>3. history.resolved[Action(x)][Course(x)]
    BY <1>7, <2>1, NotBusy DEF Claim
  <2>4. rows'[Action(x)][Course(x)][call[x].scope].state = "pending"
    BY <2>1, <2>2, SetKeyStep
  <2>5. UNCHANGED <<holder, quota, history>>
    BY <1>7 DEF Claim
  <2>6. CASE Action(x) = "select" /\ call' = [call EXCEPT ![x].pc = "quota"]
    <3>1. call'[x].pc = "quota" /\ Same(x)
      BY <2>6, PlaceStep DEF Places
    <3>2. CallFine(x)'
      BY <2>1, <2>3, <2>4, <2>5, <2>6, <3>1
         DEF CallFine, Informed, Unsent, At, Same, Key, Inside
    <3>3. CallOK'
      BY <2>1, <3>1, <3>2, OneMoves DEF Same
    <3>4. QED BY <2>1, <2>2, <2>5, <3>3, RowWritten, BudgetUnmoved DEF Unsettled
  <2>7. CASE Action(x) # "select" /\ call' = [call EXCEPT ![x].pc = "post", ![x].wire = "unsent"]
    <3>1. call'[x].pc = "post" /\ Same(x)
      BY <2>7, MoveStep DEF Places, Wires
    <3>2. CallFine(x)'
      BY <2>1, <2>3, <2>4, <2>5, <2>7, <3>1
         DEF CallFine, Informed, Unsent, At, Same, Key, Inside
    <3>3. CallOK'
      BY <2>1, <3>1, <3>2, OneMoves DEF Same
    <3>4. QED BY <2>1, <2>2, <2>5, <3>3, RowWritten, BudgetUnmoved DEF Unsettled
  <2>8. QED BY <1>7, <2>6, <2>7 DEF Claim
<1>8. ASSUME NEW x \in Callers, AlreadyAccepted(x) PROVE CallOK' /\ AnswerKnown' /\ Counted'
  <2>1. call[x].pc \in Inside /\ Action(x) \in Writes /\ CallFine(x)
    BY <1>8, <1>b DEF AlreadyAccepted, At, Inside, Places, CallOK
  <2>2. history.resolved[Action(x)][Course(x)]
    BY <1>8, <2>1, NotBusy DEF AlreadyAccepted
  <2>3. UNCHANGED <<rows, quota, history>>
    BY <1>8 DEF AlreadyAccepted, durable
  <2>4. /\ call'[x].pc \in {"reserve", "verify"} /\ holder' = holder
        /\ Action(x)' = Action(x) /\ Course(x)' = Course(x)
        /\ \A y \in Callers \ {x} : call'[y] = call[y]
    BY <1>8, GotoStep, ToVerifyStep DEF AlreadyAccepted, Places, Same, At
  <2>5. CallFine(x)'
    BY <2>1, <2>2, <2>3, <2>4 DEF CallFine, Informed, Unsent, At, Inside
  <2>6. QED BY <2>1, <2>3, <2>4, <2>5, OneMoves, RowsUnmoved, BudgetUnmoved
<1>9. ASSUME NEW x \in Callers, Refused(x) PROVE CallOK' /\ AnswerKnown' /\ Counted'
  <2>1. call[x].pc \in Inside
    BY <1>9 DEF Refused, At, Inside, Places
  <2>2. QED BY <1>9, <2>1, OneLeaves, RowsUnmoved, BudgetUnmoved DEF Refused
<1>10. ASSUME NEW x \in Callers, ClaimQuota(x) PROVE CallOK' /\ AnswerKnown' /\ Counted'
  <2>1. /\ call[x].pc \in Inside /\ At(x, "quota")
        /\ Action(x) = "select" /\ Key(x) \in Row /\ CallFine(x)
    BY <1>10, <1>b DEF ClaimQuota, At, Inside, Places, CallOK, CallFine
  <2>2. Course(x) \in Courses /\ quota[Course(x)] \in Row
    BY RecordTypes
  <2>3. history.resolved[Action(x)][Course(x)]
    BY <2>1 DEF CallFine, Informed, Unsent
  <2>4. history' = history
    BY <1>10 DEF ClaimQuota
  <2>5. CASE /\ ClaimVerdict(quota[Course(x)], {}, FALSE, QuotaLimit, 0, 0) = "granted"
             /\ quota' = [quota EXCEPT ![Course(x)] = Finished(Claimed(@, 0), "failed", 0)]
             /\ call' = [call EXCEPT ![x].pc = "post", ![x].wire = "unsent"]
             /\ UNCHANGED <<rows, holder>>
    <3> DEFINE q == quota[Course(x)]
               n == Finished(Claimed(q, 0), "failed", 0)
    <3>1. n.state = "failed" /\ n.attempts = q.attempts + 1
      BY DEF Finished, Claimed
    <3>2. q.attempts < QuotaLimit
      BY <2>2, <2>5, BoyaAssumption DEF ClaimVerdict, Counted, Row
    <3>3. q.attempts \in Nat /\ history.posted[Course(x)] \in Nat
      BY <2>2 DEF Row, TypeOK
    <3> HIDE DEF n
    <3>4. /\ quota'[Course(x)] = n
          /\ \A c \in Courses \ {Course(x)} : quota'[c] = quota[c]
      BY <2>2, <2>5 DEF n, TypeOK
    <3>5. Counted'
      BY <2>4, <3>1, <3>2, <3>3, <3>4, BoyaAssumption DEF Counted
    <3>6. call'[x].pc = "post" /\ call'[x].wire = "unsent" /\ Same(x)
      BY <2>5, MoveStep DEF Places, Wires
    <3>7. history.posted[Course(x)] < quota'[Course(x)].attempts
      BY <2>2, <3>1, <3>3, <3>4 DEF Counted
    <3>8. CallFine(x)'
      BY <2>1, <2>3, <2>4, <2>5, <3>6, <3>7
         DEF CallFine, Informed, Unsent, At, Same, Key, Inside, Writes
    <3>9. CallOK'
      BY <2>1, <3>6, <3>8, OneMoves DEF Same
    <3>10. QED BY <2>4, <2>5, <3>5, <3>9, RowsUnmoved
  <2>6. CASE SetKey(x, Finished(Key(x), "failed", 0)) /\ Leave(x) /\ UNCHANGED quota
    <3>1. Finished(Key(x), "failed", 0) \in Row /\ Action(x) \in Writes
      BY <2>1, RowTypes DEF Writes
    <3>2. AnswerKnown'
      BY <2>3, <2>4, <2>6, <3>1, RowWritten
    <3>3. QED BY <2>1, <2>4, <2>6, <3>2, OneLeaves, BudgetUnmoved
  <2>7. QED BY <1>10, <2>5, <2>6 DEF ClaimQuota
<1>11. ASSUME NEW x \in Callers, ConnectFails(x) PROVE CallOK' /\ AnswerKnown' /\ Counted'
  <2>1. /\ call[x].pc \in Inside /\ At(x, "post") /\ call[x].wire = "unsent"
        /\ Action(x) \in Writes /\ Key(x) \in Row /\ CallFine(x)
    BY <1>11, <1>b DEF ConnectFails, At, Inside, Places, CallOK
  <2>2. Course(x) \in Courses /\ quota[Course(x)] \in Row
    BY RecordTypes
  <2>3. history.resolved[Action(x)][Course(x)]
    BY <2>1 DEF CallFine, Informed, Unsent
  <2>4. history' = history /\ Leave(x) /\ SetKey(x, FailedBeforeSend(Key(x), 0))
    BY <1>11 DEF ConnectFails
  <2>5. AnswerKnown'
    BY <2>1, <2>3, <2>4, RowTypes, RowWritten
  <2>6. Counted'
    <3>1. CASE Action(x) # "select"
      BY <1>11, <2>4, <3>1, BudgetUnmoved DEF ConnectFails
    <3>2. CASE Action(x) = "select"
      <4> DEFINE q == quota[Course(x)]
                 n == FailedBeforeSend(q, 0)
      <4>1. history.posted[Course(x)] < q.attempts
        BY <2>1, <3>2 DEF CallFine
      <4>2. q.attempts \in Nat /\ history.posted[Course(x)] \in Nat
        BY <2>2 DEF Row, TypeOK
      <4>3. /\ n.state = "none" => n = q
            /\ history.posted[Course(x)] <= n.attempts /\ n.attempts <= q.attempts
        BY <4>1, <4>2 DEF FailedBeforeSend
      <4> HIDE DEF n
      <4>4. /\ quota'[Course(x)] = n
            /\ \A c \in Courses \ {Course(x)} : quota'[c] = quota[c]
        BY <1>11, <2>2, <3>2 DEF ConnectFails, n, TypeOK
      <4>5. n.attempts \in Nat
        BY <2>2, RowTypes DEF n, Row
      <4>6. QED BY <2>2, <2>4, <4>2, <4>3, <4>4, <4>5, BoyaAssumption DEF Counted
    <3>3. QED BY <3>1, <3>2
  <2>7. QED BY <2>1, <2>4, <2>5, <2>6, OneLeaves
<1>12. ASSUME NEW x \in Callers, Transmit(x) PROVE CallOK' /\ AnswerKnown' /\ Counted'
  <2>1. /\ call[x].pc \in Inside /\ At(x, "post") /\ call[x].wire = "unsent"
        /\ Action(x) \in Writes /\ CallFine(x)
    BY <1>12, <1>b DEF Transmit, At, Inside, Places, CallOK
  <2>2. Course(x) \in Courses /\ call[x].scope \in Scopes
    BY RecordTypes
  <2>3. UNCHANGED <<rows, quota, holder>> /\ Key(x).state = "pending"
    BY <1>12, <2>1 DEF Transmit, durable, CallFine, At
  <2>4. call'[x].pc = "post" /\ call'[x].wire = "sent" /\ Same(x)
    BY <1>12, <2>1, WireStep DEF Transmit, Wires, At
  <2>5. CallFine(x)'
    BY <2>1, <2>3, <2>4 DEF CallFine, Informed, Unsent, At, Same, Key, Inside
  <2>6. CallOK'
    BY <2>1, <2>4, <2>5, OneMoves DEF Same
  <2>7. /\ \A a \in Writes, c \in Courses :
             (a = Action(x) /\ c = Course(x)) \/ history'.resolved[a][c] = history.resolved[a][c]
        /\ \A c \in Courses \ {Course(x)} : history'.posted[c] = history.posted[c]
        /\ history'.posted[Course(x)] =
             history.posted[Course(x)] + IF Action(x) = "select" THEN 1 ELSE 0
    <3> DEFINE a0 == Action(x)
               c0 == Course(x)
               n == IF Action(x) = "select" THEN 1 ELSE 0
    <3>1. history' = [history EXCEPT !.posted[c0] = @ + n, !.resolved[a0][c0] = FALSE]
      BY <1>12 DEF Transmit
    <3> HIDE DEF a0, n, c0
    <3>2. c0 \in Courses /\ a0 \in Writes
      BY <2>1, <2>2 DEF a0, c0
    <3>3. /\ history'.posted = [history.posted EXCEPT ![c0] = @ + n]
          /\ history'.resolved =
               [history.resolved EXCEPT ![a0] = [history.resolved[a0] EXCEPT ![c0] = FALSE]]
      BY <3>1, <3>2 DEF TypeOK
    <3>4. \A a \in Writes, c \in Courses :
            (a = a0 /\ c = c0) \/ history'.resolved[a][c] = history.resolved[a][c]
      BY <3>2, <3>3, ResolvedStep
    <3>5. /\ \A c \in Courses \ {c0} : history'.posted[c] = history.posted[c]
          /\ history'.posted[c0] = history.posted[c0] + n
      BY <3>2, <3>3 DEF TypeOK
    <3>6. QED BY <3>4, <3>5 DEF a0, c0, n
  <2>8. AnswerKnown'
    BY <2>2, <2>3, <2>7 DEF AnswerKnown, Key, Unsettled
  <2>9. Counted'
    <3>1. \A c \in Courses : history.posted[c] \in Nat /\ quota[c].attempts \in Nat
      BY DEF TypeOK, Row
    <3>2. Action(x) = "select" => history.posted[Course(x)] < quota[Course(x)].attempts
      BY <2>1 DEF CallFine
    <3>3. QED BY <2>2, <2>3, <2>7, <3>1, <3>2 DEF Counted
  <2>10. QED BY <2>6, <2>8, <2>9
<1>13. ASSUME NEW x \in Callers, NEW answer \in {"accepted", "refused", "already"},
              SchoolHandles(x, answer)
       PROVE CallOK' /\ AnswerKnown' /\ Counted'
  <2>1. /\ call[x].pc \in Inside /\ At(x, "post") /\ Action(x) \in Writes /\ CallFine(x)
    BY <1>13, <1>b DEF SchoolHandles, At, Inside, Places, CallOK
  <2>2. /\ UNCHANGED <<rows, quota, holder>>
        /\ history'.posted = history.posted /\ history'.resolved = history.resolved
    BY <1>13 DEF SchoolHandles, durable, TypeOK
  <2>3. call'[x].pc = "post" /\ call'[x].wire = answer /\ Same(x)
    BY <1>13, <2>1, WireStep DEF SchoolHandles, Wires, At
  <2>4. CallFine(x)'
    BY <2>1, <2>2, <2>3 DEF CallFine, Informed, Unsent, At, Same, Key, Inside
  <2>5. QED BY <2>1, <2>2, <2>3, <2>4, OneMoves, RowsUnmoved, BudgetUnmoved DEF Same
<1>14. ASSUME NEW x \in Callers, Reply(x) PROVE CallOK' /\ AnswerKnown' /\ Counted'
  <2>1. /\ call[x].pc \in Inside /\ At(x, "post")
        /\ Action(x) \in Writes /\ Key(x) \in Row /\ CallFine(x)
    BY <1>14, <1>b DEF Reply, At, Inside, Places, CallOK
  <2>2. Course(x) \in Courses
    BY RecordTypes
  <2>3. /\ history'.posted = history.posted
        /\ history'.resolved[Action(x)][Course(x)]
        /\ \A a \in Writes, c \in Courses :
             (a = Action(x) /\ c = Course(x)) \/ history'.resolved[a][c] = history.resolved[a][c]
    <3> DEFINE a0 == Action(x)
               c0 == Course(x)
    <3>1. history' = [history EXCEPT !.resolved[a0][c0] = TRUE]
      BY <1>14 DEF Reply
    <3>2. a0 \in Writes /\ c0 \in Courses
      BY <2>1, <2>2
    <3> HIDE DEF a0, c0
    <3>3. /\ history'.posted = history.posted
          /\ history'.resolved =
               [history.resolved EXCEPT ![a0] = [history.resolved[a0] EXCEPT ![c0] = TRUE]]
      BY <3>1, <3>2 DEF TypeOK
    <3>4. /\ history'.resolved[a0][c0]
          /\ \A a \in Writes, c \in Courses :
               (a = a0 /\ c = c0) \/ history'.resolved[a][c] = history.resolved[a][c]
      BY <3>2, <3>3, ResolvedStep
    <3>5. QED BY <3>3, <3>4 DEF a0, c0
  <2>4. PICK row \in Row : SetKey(x, row)
    BY <1>14, <2>1, RowTypes DEF Reply
  <2>5. AnswerKnown'
    BY <2>1, <2>3, <2>4, RowWritten
  <2>6. Counted'
    BY <1>14, <2>3, BudgetUnmoved DEF Reply
  <2>7. CASE Leave(x)
    BY <2>1, <2>5, <2>6, <2>7, OneLeaves
  <2>8. CASE Goto(x, "reserve") \/ ToVerify(x)
    <3>1. /\ call'[x].pc \in {"reserve", "verify"} /\ holder' = holder
          /\ Action(x)' = Action(x) /\ Course(x)' = Course(x)
          /\ \A y \in Callers \ {x} : call'[y] = call[y]
      BY <2>8, GotoStep, ToVerifyStep DEF Places, Same, At
    <3>2. CallFine(x)'
      BY <2>1, <2>3, <3>1 DEF CallFine, Informed, Unsent, At, Inside
    <3>3. QED BY <2>1, <2>5, <2>6, <3>1, <3>2, OneMoves
  <2>9. QED BY <1>14, <2>7, <2>8 DEF Reply
<1>15. ASSUME NEW x \in Callers, ReplyLost(x) PROVE CallOK' /\ AnswerKnown' /\ Counted'
  <2>1. /\ call[x].pc \in Inside /\ At(x, "post")
        /\ Action(x) \in Writes /\ Key(x) \in Row /\ CallFine(x)
    BY <1>15, <1>b DEF ReplyLost, At, Inside, Places, CallOK
  <2> DEFINE row == Finished(Key(x), "uncertain", 0)
  <2>2. row \in Row /\ SetKey(x, row)
    BY <1>15, <2>1, RowTypes DEF ReplyLost
  <2>3. row.state \in Unsettled
    BY <2>1 DEF CallFine, At, Finished, Row, Unsettled
  <2>4. UNCHANGED <<quota, history>>
    BY <1>15 DEF ReplyLost
  <2> HIDE DEF row
  <2>5. AnswerKnown' /\ Counted'
    BY <2>1, <2>2, <2>3, <2>4, RowWritten, BudgetUnmoved
  <2>6. CASE Leave(x)
    BY <2>1, <2>5, <2>6, OneLeaves
  <2>7. CASE /\ call' = [call EXCEPT ![x].pc = "reserve", ![x].wire = "lost"]
             /\ UNCHANGED holder
    <3>1. call'[x].pc = "reserve" /\ call'[x].wire = "lost" /\ Same(x)
      BY <2>7, MoveStep DEF Places, Wires
    <3>2. CallFine(x)'
      BY <2>1, <2>7, <3>1 DEF CallFine, Informed, Unsent, At, Inside, Same
    <3>3. QED BY <2>1, <2>5, <3>1, <3>2, OneMoves DEF Same
  <2>8. QED BY <1>15, <2>6, <2>7 DEF ReplyLost
<1>16. ASSUME NEW x \in Callers, Confirm(x) PROVE CallOK' /\ AnswerKnown' /\ Counted'
  <2>1. /\ call[x].pc \in Inside /\ At(x, "reserve") /\ call[x].wire = "already"
        /\ Action(x) \in Writes /\ Key(x) \in Row /\ CallFine(x)
    BY <1>16, <1>b DEF Confirm, At, Inside, Places, CallOK
  <2>2. Confirmed(Key(x), 0) \in Row /\ SetKey(x, Confirmed(Key(x), 0))
    BY <1>16, <2>1, RowTypes DEF Confirm
  <2>3. UNCHANGED <<quota, history, holder>> /\ history.resolved[Action(x)][Course(x)]
    BY <1>16, <2>1 DEF Confirm, CallFine, Informed
  <2>4. call'[x].pc = "reserve" /\ Same(x)
    BY <1>16, <2>1, WireStep DEF Confirm, Wires, At
  <2>5. CallFine(x)'
    BY <2>1, <2>3, <2>4 DEF CallFine, Informed, Unsent, At, Inside, Same
  <2>6. AnswerKnown'
    BY <2>1, <2>2, <2>3, RowWritten
  <2>7. QED BY <2>1, <2>3, <2>4, <2>5, <2>6, OneMoves, BudgetUnmoved DEF Same
<1>17. ASSUME NEW x \in Callers, Reserve(x) PROVE CallOK' /\ AnswerKnown' /\ Counted'
  <2>1. /\ call[x].pc \in Inside /\ At(x, "reserve")
        /\ Action(x) \in Writes /\ CallFine(x)
    BY <1>17, <1>b DEF Reserve, At, Inside, Places, CallOK
  <2>2. UNCHANGED <<rows, quota, history>>
    BY <1>17 DEF Reserve
  <2>3. CASE Leave(x)
    BY <2>1, <2>2, <2>3, OneLeaves, RowsUnmoved, BudgetUnmoved
  <2>4. CASE call[x].wire # "lost" /\ ToVerify(x)
    <3>1. /\ call'[x].pc = "verify" /\ holder' = holder
          /\ Action(x)' = Action(x) /\ Course(x)' = Course(x)
          /\ \A y \in Callers \ {x} : call'[y] = call[y]
      BY <2>4, ToVerifyStep DEF At
    <3>2. CallFine(x)'
      BY <2>1, <2>2, <2>4, <3>1 DEF CallFine, Informed, Unsent, At, Inside
    <3>3. QED BY <2>1, <2>2, <3>1, <3>2, OneMoves, RowsUnmoved, BudgetUnmoved
  <2>5. QED BY <1>17, <2>3, <2>4 DEF Reserve
<1>18. ASSUME NEW x \in Callers, Verified(x) PROVE CallOK' /\ AnswerKnown' /\ Counted'
  <2>1. /\ call[x].pc \in Inside /\ At(x, "verified") /\ Leave(x)
        /\ history.resolved[Action(x)][Course(x)]
    BY <1>18, <1>b DEF Verified, At, Inside, Places, CallOK, CallFine, Informed
  <2>2. Counted'
    BY <1>18, BudgetUnmoved DEF Verified, TypeOK
  <2>3. AnswerKnown'
    <3> SUFFICES ASSUME NEW a \in Writes, NEW c \in Courses, ~history'.resolved[a][c]
                 PROVE  \E s \in Scopes : rows'[a][c][s].state \in Unsettled
      BY DEF AnswerKnown
    <3> DEFINE cs == {Course(x)}
    <3>1. \/ history' = history
          \/ history' = [history EXCEPT !.resolved["select"][Course(x)] = TRUE]
      BY <1>18 DEF Verified
    <3>2. ~history.resolved[a][c]
      <4>1. CASE history' = history
        BY <4>1
      <4>2. CASE history' = [history EXCEPT !.resolved["select"][Course(x)] = TRUE]
        <5> DEFINE c0 == Course(x)
        <5>1. c0 \in Courses /\ "select" \in Writes
          BY RecordTypes DEF Writes
        <5> HIDE DEF c0
        <5>2. history'.resolved =
                [history.resolved EXCEPT !["select"] =
                   [history.resolved["select"] EXCEPT ![c0] = TRUE]]
          BY <4>2, <5>1 DEF TypeOK, c0
        <5>3. /\ history'.resolved["select"][c0] = TRUE
              /\ \A b \in Writes, d \in Courses :
                   (b = "select" /\ d = c0) \/ history'.resolved[b][d] = history.resolved[b][d]
          BY <5>1, <5>2, ResolvedStep
        <5>4. QED BY <5>3
      <4>3. QED BY <3>1, <4>1, <4>2
    <3>3. PICK s \in Scopes : rows[a][c][s].state \in Unsettled
      BY <3>2 DEF AnswerKnown
    <3>4. \/ rows' = rows
          \/ /\ Action(x) = "select"
             /\ rows' = [rows EXCEPT !["select"] = SettledFor(@, cs),
                                     !["drop"] = ForgottenFor(@, cs)]
          \/ /\ Action(x) = "drop"
             /\ rows' = [rows EXCEPT !["drop"] = SettledFor(@, cs),
                                     !["select"] = ForgottenFor(@, cs)]
      BY <1>18 DEF Verified
    <3>5. a = Action(x) => c \notin cs
      BY <2>1, <3>2
    <3>6. /\ a = Action(x) => SettledFor(rows[a], cs)[c][s] = rows[a][c][s]
          /\ ForgottenFor(rows[a], cs)[c][s] = rows[a][c][s]
      BY <3>3, <3>5, TableSteps
    <3> HIDE DEF cs
    <3>7. CASE a = "select"
      BY <3>3, <3>4, <3>6, <3>7 DEF TypeOK, Writes
    <3>8. CASE a = "drop"
      BY <3>3, <3>4, <3>6, <3>8 DEF TypeOK, Writes
    <3>9. QED BY <3>7, <3>8 DEF Writes
  <2>4. QED BY <2>1, <2>2, <2>3, OneLeaves
<1>19. ASSUME NEW r \in Readers, PageReads(r) \/ PageObserves(r)
       PROVE  CallOK' /\ AnswerKnown' /\ Counted'
  BY <1>19, Unmoved, RowsUnmoved, BudgetUnmoved DEF PageReads, PageObserves, durable
<1>20. ASSUME NEW c \in Courses, EnrolElsewhere(c) \/ DropElsewhere(c)
       PROVE  CallOK' /\ AnswerKnown' /\ Counted'
  <2>1. /\ UNCHANGED <<rows, quota, holder, call>>
        /\ history'.posted = history.posted /\ history'.resolved = history.resolved
    BY <1>20 DEF EnrolElsewhere, DropElsewhere, durable, TypeOK
  <2>2. QED BY <2>1, Unmoved, RowsUnmoved, BudgetUnmoved
<1>21. ASSUME NEW a \in Writes, NEW c \in Courses, StrayHandled(a, c)
       PROVE  CallOK' /\ AnswerKnown' /\ Counted'
  <2>1. /\ UNCHANGED <<rows, quota, holder, call>>
        /\ history'.posted = history.posted /\ history'.resolved = history.resolved
    BY <1>21 DEF StrayHandled, durable, TypeOK
  <2>2. QED BY <2>1, Unmoved, RowsUnmoved, BudgetUnmoved
<1>22. ASSUME Published PROVE CallOK' /\ AnswerKnown' /\ Counted'
  BY <1>22, Unmoved, RowsUnmoved, BudgetUnmoved DEF Published, durable
<1>23. ASSUME Crash PROVE CallOK' /\ AnswerKnown' /\ Counted'
  <2>1. /\ rows' = rows /\ quota' = quota
        /\ history'.posted = history.posted /\ history'.resolved = history.resolved
    BY <1>23 DEF Crash, durable, TypeOK
  <2>2. \A y \in Callers : call'[y].pc \notin Inside
    BY <1>23 DEF Crash, Idle, Inside
  <2>3. QED BY <2>1, <2>2, Unmoved, RowsUnmoved, BudgetUnmoved
<1>24. ASSUME UNCHANGED vars PROVE CallOK' /\ AnswerKnown' /\ Counted'
  BY <1>24, Unmoved, RowsUnmoved, BudgetUnmoved DEF vars
<1>25. QED
  BY <1>a, <1>1, <1>2, <1>3, <1>4, <1>5, <1>6, <1>7, <1>8, <1>9, <1>10, <1>11, <1>12,
     <1>13, <1>14, <1>15, <1>16, <1>17, <1>18, <1>19, <1>20, <1>21, <1>22, <1>23, <1>24
     DEF Next, Thread, Network

\* The invariant holds in every state, whatever the threads, the pages, the
\* school, the network and crashes do.
THEOREM BoyaInvariance == Spec => []IInv
BY InvInit, InvStep, PTL DEF Spec

\* Every variable keeps its type, for any lectures, scopes and threads.
THEOREM BoyaTypeCorrect == Spec => []TypeOK
<1>1. IInv => TypeOK
  BY DEF IInv
<1>2. QED BY <1>1, BoyaInvariance, PTL

\* Over all scopes, refunds, answers lost and restarts, the selection requests
\* of perform_boya_action that leave in a day stay within the lecture's budget.
THEOREM BoyaBudget == Spec => []SelectBudget
<1>1. IInv => SelectBudget
  <2> SUFFICES ASSUME IInv, NEW c \in Courses PROVE history.posted[c] <= QuotaLimit
    BY DEF SelectBudget
  <2>1. history.posted[c] \in Nat /\ quota[c].attempts \in Nat /\ QuotaLimit \in Nat
    BY BoyaAssumption DEF IInv, TypeOK, Row
  <2>2. QED BY <2>1 DEF IInv, Counted
<1>2. QED BY <1>1, BoyaInvariance, PTL

\* No request of perform_boya_action leaves while the outcome of the last one
\* of its action on its lecture is unknown.
THEOREM BoyaNoBlindWrite == Spec => NoBlindWrite
<1>1. IInv => \A x \in Callers :
        At(x, "post") /\ call'[x].wire = "sent" /\ call[x].wire = "unsent"
          => history.resolved[Action(x)][Course(x)]
  BY DEF IInv, CallOK, CallFine, Informed, Unsent
<1>2. QED BY <1>1, BoyaInvariance, PTL DEF NoBlindWrite
=============================================================================
