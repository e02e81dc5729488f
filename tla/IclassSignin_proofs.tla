------------------------ MODULE IclassSignin_proofs ------------------------
(***************************************************************************)
(* Proofs about IclassSignin for any number of callers, clients and        *)
(* lessons and any policy constants: its type invariant, the budget of     *)
(* requests, and that no request follows an unresolved one.                *)
(***************************************************************************)
EXTENDS IclassSignin, OperationLedger_proofs

\* A granted claim says what the row was.
LEMMA GrantedRow ==
  ASSUME NEW x \in Callers, NEW t,
         SigninVerdict(x, t) = "granted", ledger[Course(x)] \in Row
  PROVE  /\ ledger[Course(x)].state \in {"none", "failed"}
         /\ ledger[Course(x)].state # "none" =>
              ledger[Course(x)].attempts < MaxPosts
BY PolicyAssumption
   DEF SigninVerdict, ClaimVerdict, Row, OpStates, Unsettled

\* Every field of a caller's record, whatever its place, is of its type.
LEMMA CallTypes ==
  ASSUME TypeOK, NEW x \in Callers
  PROVE  /\ call[x] \in CallType
         /\ Client(x) \in Clients
         /\ Course(x) \in Courses \cup {NoCourse}
BY SigninAssumption DEF TypeOK, CallType, Client, Course

\* Outside "idle" a caller has a lesson.
LEMMA CourseKnown ==
  ASSUME CallOK, NEW x \in Callers, ~At(x, "idle")
  PROVE  Course(x) \in Courses
BY DEF CallOK

(***************************************************************************)
(* Type correctness needs CallOK: the ledger is written at Course(x).      *)
(***************************************************************************)
LEMMA TypeInit == Init => TypeOK
BY SigninAssumption
   DEF Init, TypeOK, NoRow, Row, OpStates, Idle, CallType, Places, Wires, Results

LEMMA LeaveType ==
  ASSUME TypeOK, NEW x \in Callers, NEW r \in Results, Leave(x, r)
  PROVE  /\ call' \in [Callers -> CallType]
         /\ lock' \in [Clients -> Callers \cup {Nobody}]
<1>1. Returned(x, r) \in CallType
  BY CallTypes DEF Returned, CallType, Places, Wires
<1>2. Client(x) \in Clients
  BY CallTypes
<1>3. QED BY <1>1, <1>2 DEF TypeOK, Leave

LEMMA GotoType ==
  ASSUME TypeOK, NEW x \in Callers, NEW p \in Places, Goto(x, p)
  PROVE  call' \in [Callers -> CallType]
BY DEF TypeOK, Goto, CallType

LEMMA TypeStep == TypeOK /\ CallOK /\ [Next]_vars => TypeOK'
<1> SUFFICES ASSUME TypeOK, CallOK, [Next]_vars PROVE TypeOK'
  OBVIOUS
<1> USE CallTypes, CourseKnown DEF At
<1>1. ASSUME NEW x \in Callers, NEW c \in Courses, Call(x, c) PROVE TypeOK'
  BY <1>1 DEF Call, TypeOK, CallType, Places, history
<1>2. ASSUME NEW x \in Callers, NEW ok \in BOOLEAN, Enter(x, ok) PROVE TypeOK'
  <2>1. /\ call' \in [Callers -> CallType]
        /\ lock' \in [Clients -> Callers \cup {Nobody}]
    <3>1. CASE ok
      <4>1. Goto(x, IF session[Client(x)] THEN "list" ELSE "login")
        BY <1>2, <3>1 DEF Enter
      <4>2. Goto(x, "list") \/ Goto(x, "login")
        BY <4>1
      <4>3. Client(x) \in Clients /\ lock' = [lock EXCEPT ![Client(x)] = x]
        BY <1>2, <3>1 DEF Enter
      <4>4. call' \in [Callers -> CallType]
        BY <4>2, GotoType DEF Places
      <4>5. QED BY <4>3, <4>4 DEF TypeOK
    <3>2. CASE ~ok
      BY <1>2, <3>2, LeaveType DEF Enter, Results
    <3>3. QED BY <3>1, <3>2
  <2>2. QED BY <1>2, <2>1 DEF Enter, TypeOK, history
<1>3. ASSUME NEW x \in Callers, NEW ok \in BOOLEAN, Recheck(x, ok) PROVE TypeOK'
  <2>1. /\ call' \in [Callers -> CallType]
        /\ lock' \in [Clients -> Callers \cup {Nobody}]
        /\ ledger' \in [Courses -> Row]
    <3>1. ledger[Course(x)] \in Row
      BY <1>3 DEF Recheck, TypeOK
    <3>2. CASE SetRow(Course(x), Finished(ledger[Course(x)], "uncertain", now))
               /\ Leave(x, "error")
      BY <3>1, <3>2, LeaveType, RowTypes DEF SetRow, TypeOK, Results
    <3>3. CASE SetRow(Course(x), FailedBeforeSend(ledger[Course(x)], now))
               /\ Leave(x, "false")
      BY <3>1, <3>3, LeaveType, RowTypes DEF SetRow, TypeOK, Results
    <3>4. CASE /\ call' = [call EXCEPT ![x].pc = "post", ![x].wire = "unsent"]
               /\ UNCHANGED <<ledger, lock>>
      BY <3>4 DEF TypeOK, CallType, Places, Wires
    <3>5. QED BY <1>3, <3>2, <3>3, <3>4 DEF Recheck
  <2>2. QED BY <1>3, <2>1 DEF Recheck, TypeOK, history
<1>4. ASSUME NEW x \in Callers, LoginDone(x) PROVE TypeOK'
  <2>1. CASE Goto(x, "list") /\ UNCHANGED lock
             /\ session' = [session EXCEPT ![Client(x)] = TRUE]
    BY <1>4, <2>1, GotoType DEF LoginDone, TypeOK, Places, history
  <2>2. CASE Leave(x, "false") /\ UNCHANGED session
    BY <1>4, <2>2, LeaveType DEF LoginDone, TypeOK, Results, history
  <2>3. QED BY <1>4, <2>1, <2>2 DEF LoginDone
<1>5. ASSUME NEW x \in Callers, ListDone(x) PROVE TypeOK'
  <2>1. CASE SetRow(Course(x), Confirmed(ledger[Course(x)], now)) /\ Leave(x, "true")
    <3>1. ledger[Course(x)] \in Row
      BY <1>5 DEF ListDone, TypeOK
    <3>2. QED BY <1>5, <2>1, <3>1, LeaveType, RowTypes
              DEF ListDone, SetRow, TypeOK, Results, history
  <2>2. CASE Goto(x, "time") /\ UNCHANGED <<ledger, lock>>
    BY <1>5, <2>2, GotoType DEF ListDone, TypeOK, Places, history
  <2>3. CASE Leave(x, "false") /\ UNCHANGED ledger
    BY <1>5, <2>3, LeaveType DEF ListDone, TypeOK, Results, history
  <2>4. QED BY <1>5, <2>1, <2>2, <2>3 DEF ListDone
<1>6. ASSUME NEW x \in Callers, NEW ok \in BOOLEAN, NEW t \in 0 .. Horizon,
             TimeDone(x, ok, t)
      PROVE TypeOK'
  <2> t \in Nat
    BY SigninAssumption
  <2>1. CASE /\ SetRow(Course(x), Claimed(ledger[Course(x)], now))
             /\ call' = [call EXCEPT ![x].pc = "claimed", ![x].schoolNow = t]
             /\ UNCHANGED lock
    <3>1. ledger[Course(x)] \in Row
      BY <1>6 DEF TimeDone, TypeOK
    <3>2. ledger' \in [Courses -> Row]
      BY <1>6, <2>1, <3>1, RowTypes DEF TimeDone, SetRow, TypeOK
    <3>3. call' \in [Callers -> CallType]
      BY <2>1 DEF TypeOK, CallType, Places
    <3>4. QED BY <1>6, <2>1, <3>2, <3>3 DEF TimeDone, TypeOK, history
  <2>2. CASE Leave(x, "true") /\ UNCHANGED ledger
    BY <1>6, <2>2, LeaveType DEF TimeDone, TypeOK, Results, history
  <2>3. CASE Leave(x, "false") /\ UNCHANGED ledger
    BY <1>6, <2>3, LeaveType DEF TimeDone, TypeOK, Results, history
  <2>4. QED BY <1>6, <2>1, <2>2, <2>3 DEF TimeDone
<1>7. ASSUME NEW x \in Callers, ConnectFails(x) PROVE TypeOK'
  <2>1. ledger[Course(x)] \in Row
    BY <1>7 DEF ConnectFails, TypeOK
  <2>2. QED BY <1>7, <2>1, LeaveType, RowTypes
            DEF ConnectFails, SetRow, TypeOK, Results, history
<1>8. ASSUME NEW x \in Callers, Response(x) PROVE TypeOK'
  <2>1. ledger[Course(x)] \in Row
    BY <1>8 DEF Response, TypeOK
  <2>2. /\ call' \in [Callers -> CallType]
        /\ lock' \in [Clients -> Callers \cup {Nobody}]
    BY <1>8, LeaveType DEF Response, Results
  <2>3. ledger' \in [Courses -> Row]
    BY <1>8, <2>1, RowTypes DEF Response, SetRow, TypeOK
  <2>4. session' \in [Clients -> BOOLEAN]
    BY <1>8 DEF Response, DropSession, TypeOK
  <2>5. QED BY <1>8, <2>2, <2>3, <2>4 DEF Response, TypeOK, history
<1>9. ASSUME NEW x \in Callers, CancelWait(x) PROVE TypeOK'
  BY <1>9 DEF CancelWait, TypeOK, CallType, Places, Results, history
<1>10. ASSUME NEW x \in Callers, Return(x) PROVE TypeOK'
  BY <1>10 DEF Return, Idle, TypeOK, CallType, Places, Wires, Results, history
<1>11. ASSUME NEW x \in Callers, NEW r \in {"error", "cancelled"}, ReadFails(x, r)
       PROVE TypeOK'
  BY <1>11, LeaveType DEF ReadFails, DropSession, TypeOK, Results, history
<1>12. ASSUME NEW x \in Callers, NEW r \in {"error", "cancelled"}, ResponseLost(x, r)
       PROVE TypeOK'
  <2>1. ledger[Course(x)] \in Row
    BY <1>12 DEF ResponseLost, TypeOK
  <2>2. QED BY <1>12, <2>1, LeaveType, RowTypes
            DEF ResponseLost, SetRow, TypeOK, Results, history
<1>13. ASSUME NEW x \in Callers, Transmit(x) PROVE TypeOK'
  <2>1. call' \in [Callers -> CallType]
    BY <1>13 DEF Transmit, TypeOK, CallType, Wires
  <2>2. Append(sentAt[Course(x)], now) \in Seq(Nat)
    BY <1>13 DEF Transmit, TypeOK
  <2>3. sentAt' \in [Courses -> Seq(Nat)]
    BY <1>13, <2>2 DEF Transmit, TypeOK
  <2>4. QED BY <1>13, <2>1, <2>3 DEF Transmit, TypeOK
<1>14. ASSUME NEW x \in Callers, NEW a \in {"accepted", "refused", "denied"},
              SchoolHandles(x, a)
       PROVE TypeOK'
  BY <1>14 DEF SchoolHandles, TypeOK, CallType, Wires, history
<1>15. ASSUME NEW c \in Courses, StrayHandled(c) \/ SignedElsewhere(c) PROVE TypeOK'
  BY <1>15 DEF StrayHandled, SignedElsewhere, TypeOK, history
<1>16. ASSUME NEW k \in Clients, SessionRefreshed(k) PROVE TypeOK'
  BY <1>16 DEF SessionRefreshed, TypeOK, history
<1>17. CASE Tick
  BY <1>17 DEF Tick, TypeOK, history
<1>18. CASE Crash
  BY <1>18 DEF Crash, TypeOK, Idle, CallType, Places, Wires, Results, history
<1>19. CASE UNCHANGED vars
  BY <1>19 DEF vars, history, TypeOK
<1>20. QED
  BY <1>1, <1>2, <1>3, <1>4, <1>5, <1>6, <1>7, <1>8, <1>9, <1>10, <1>11, <1>12,
     <1>13, <1>14, <1>15, <1>16, <1>17, <1>18, <1>19
     DEF Next, Coroutine, Network
-----------------------------------------------------------------------------
Rest == OneSender /\ CallOK /\ Counted /\ AnswerKnown

\* y is not sending, and its record is in order.
Calm(y) ==
  /\ ~Sending(y) /\ call[y].wire = "none"
  /\ At(y, "idle") \/ Course(y) \in Courses

LEMMA InvInit == Init => IInv
<1>1. Init => TypeOK
  BY TypeInit
<1>2. ASSUME Init PROVE Rest
  BY <1>2, PolicyAssumption
     DEF Init, Rest, OneSender, CallOK, Counted, AnswerKnown, Sending, Unsent,
         At, Course, Idle, NoRow
<1>3. QED BY <1>1, <1>2 DEF IInv, Rest

(***************************************************************************)
(* A step that leaves the ledger and the history alone, and every caller   *)
(* either as it was or calm.                                               *)
(***************************************************************************)
LEMMA QuietStep ==
  ASSUME IInv, UNCHANGED <<ledger, history>>,
         \A y \in Callers : call'[y] = call[y] \/ Calm(y)'
  PROVE  Rest'
<1>1. \A y \in Callers : Sending(y)' => call'[y] = call[y] /\ Sending(y)
  BY DEF Calm, Sending
<1>2. OneSender' /\ CallOK'
  BY <1>1 DEF IInv, OneSender, CallOK, Calm, Sending, Course, At, history
<1>3. Counted' /\ AnswerKnown'
  BY <1>1 DEF IInv, Counted, AnswerKnown, Unsent, Course, history
<1>4. QED BY <1>2, <1>3 DEF Rest

\* Leaving makes the caller calm and touches no other.
LEMMA LeaveCalm ==
  ASSUME TypeOK, NEW x \in Callers, NEW r, Leave(x, r), Course(x) \in Courses
  PROVE  /\ Calm(x)'
         /\ \A y \in Callers \ {x} : call'[y] = call[y]
<1>1. call'[x] = Returned(x, r)
  BY DEF Leave, TypeOK
<1>2. QED BY <1>1 DEF Leave, TypeOK, Returned, Calm, Sending, At, Course

LEMMA GotoCalm ==
  ASSUME IInv, NEW x \in Callers, NEW p \in {"login", "list", "time"}, Goto(x, p),
         ~At(x, "idle"), ~At(x, "post")
  PROVE  \A y \in Callers : call'[y] = call[y] \/ Calm(y)'
<1>1. \A y \in Callers \ {x} : call'[y] = call[y]
  BY DEF Goto, IInv, TypeOK
<1>2. call'[x] = [call[x] EXCEPT !.pc = p] /\ call[x] \in CallType
  BY DEF Goto, IInv, TypeOK
<1>3. Calm(x)'
  BY <1>2 DEF IInv, CallOK, CallType, Calm, Sending, At, Course
<1>4. QED BY <1>1, <1>3

(***************************************************************************)
(* A sender leaves and writes its row: nobody else sends for that lesson,  *)
(* so the row alone has to be in order.                                    *)
(***************************************************************************)
LEMMA SenderLeaves ==
  ASSUME IInv, NEW x \in Callers, Sending(x), NEW r, Leave(x, r),
         NEW row, SetRow(Course(x), row), UNCHANGED sentAt,
         row.attempts <= MaxPosts, row.state # "none",
         Len(sentAt[Course(x)]) <= row.attempts,
         \A c \in Courses : answered[c] => answered'[c],
         row.state = "failed" => answered'[Course(x)]
  PROVE  Rest'
<1> DEFINE c0 == Course(x)
<1>1. c0 \in Courses
  BY DEF IInv, CallOK, Sending, At
<1>2. Calm(x)' /\ \A y \in Callers \ {x} : call'[y] = call[y]
  BY <1>1, LeaveCalm DEF IInv
<1>3. \A y \in Callers : Sending(y)' => y # x /\ Sending(y) /\ Course(y) # c0
  BY <1>2 DEF Calm, Sending, Course, IInv, OneSender
<1>4. /\ ledger'[c0] = row
      /\ \A c \in Courses \ {c0} : ledger'[c] = ledger[c]
  BY <1>1 DEF SetRow, IInv, TypeOK
<1>5. OneSender'
  BY <1>2, <1>3 DEF IInv, OneSender, Sending, Course
<1>6. CallOK'
  <2> SUFFICES ASSUME NEW y \in Callers
               PROVE  /\ ~At(y, "idle")' => Course(y)' \in Courses
                      /\ At(y, "post")' <=> call'[y].wire # "none"
                      /\ Sending(y)' => ledger'[Course(y)'].state \in {"pending", "success"}
    BY DEF CallOK
  <2>1. CASE y = x
    BY <1>2, <2>1 DEF Calm, Sending, At
  <2>2. CASE y # x
    <3>1. call'[y] = call[y]
      BY <1>2, <2>2
    <3>2. Sending(y)' => Course(y) \in Courses \ {c0}
      BY <1>3, <2>2 DEF IInv, CallOK, Sending, At
    <3>3. QED BY <1>3, <1>4, <3>1, <3>2 DEF IInv, CallOK, Sending, At, Course
  <2>3. QED BY <2>1, <2>2
<1>7. \A y \in Callers : Unsent(y)' =>
        /\ Unsent(y) /\ Course(y)' = Course(y) /\ Course(y) \in Courses \ {c0}
  BY <1>2, <1>3 DEF Unsent, Sending, Course, IInv, CallOK, At
<1>8. Counted'
  <2>1. ASSUME NEW c \in Courses
        PROVE  /\ ledger'[c].attempts <= MaxPosts
               /\ ledger'[c].state = "none" => ledger'[c].attempts = 0
               /\ Len(sentAt'[c]) <= ledger'[c].attempts
    BY <1>4 DEF IInv, Counted
  <2>2. ASSUME NEW y \in Callers, Unsent(y)'
        PROVE  Len(sentAt'[Course(y)']) < ledger'[Course(y)'].attempts
    BY <2>2, <1>4, <1>7 DEF IInv, Counted
  <2>3. QED BY <2>1, <2>2 DEF Counted
<1>9. AnswerKnown'
  <2>1. ASSUME NEW c \in Courses, ledger'[c].state \in {"none", "failed"}
        PROVE  answered'[c]
    BY <2>1, <1>4 DEF IInv, AnswerKnown
  <2>2. ASSUME NEW y \in Callers, Unsent(y)' PROVE answered'[Course(y)']
    BY <2>2, <1>7 DEF IInv, AnswerKnown
  <2>3. QED BY <2>1, <2>2 DEF AnswerKnown
<1>10. QED BY <1>5, <1>6, <1>8, <1>9 DEF Rest

\* Leaving with ledger and history untouched.
LEMMA LeaveQuiet ==
  ASSUME IInv, NEW x \in Callers, NEW r, Leave(x, r), ~At(x, "idle"),
         UNCHANGED <<ledger, history>>
  PROVE  Rest'
<1>1. Course(x) \in Courses
  BY DEF IInv, CallOK
<1>2. \A y \in Callers : call'[y] = call[y] \/ Calm(y)'
  BY <1>1, LeaveCalm DEF IInv
<1>3. QED BY <1>2, QuietStep

LEMMA InvStep == IInv /\ [Next]_vars => IInv'
<1> SUFFICES ASSUME IInv, [Next]_vars PROVE IInv'
  OBVIOUS
<1>0. TypeOK'
  BY TypeStep DEF IInv
<1> SUFFICES Rest'
  BY <1>0 DEF IInv, Rest
<1>1. ASSUME NEW x \in Callers, NEW c \in Courses, Call(x, c) PROVE Rest'
  <2>1. \A y \in Callers \ {x} : call'[y] = call[y]
    BY <1>1 DEF Call, IInv, TypeOK
  <2>2. call'[x] = [call[x] EXCEPT !.pc = "lock", !.course = c] /\ call[x] \in CallType
    BY <1>1 DEF Call, IInv, TypeOK
  <2>3. call[x].wire = "none"
    BY <1>1 DEF Call, IInv, CallOK, At
  <2>4. /\ call'[x].pc = "lock" /\ call'[x].course = c
        /\ call'[x].wire = call[x].wire
    BY <2>2 DEF CallType
  <2>5. Calm(x)'
    BY <2>3, <2>4 DEF Calm, Sending, At, Course
  <2>6. QED BY <1>1, <2>1, <2>5, QuietStep DEF Call
<1>2. ASSUME NEW x \in Callers, NEW ok \in BOOLEAN, Enter(x, ok) PROVE Rest'
  <2>1. ~At(x, "idle") /\ ~At(x, "post") /\ UNCHANGED <<ledger, history>>
    BY <1>2 DEF Enter, At
  <2>2. CASE ok
    <3>1. Goto(x, "list") \/ Goto(x, "login")
      BY <1>2, <2>2 DEF Enter
    <3>2. QED BY <2>1, <3>1, GotoCalm, QuietStep
  <2>3. CASE ~ok
    BY <1>2, <2>1, <2>3, LeaveQuiet DEF Enter
  <2>4. QED BY <2>2, <2>3
<1>3. ASSUME NEW x \in Callers, NEW ok \in BOOLEAN, Recheck(x, ok) PROVE Rest'
  <2>1. Sending(x) /\ Unsent(x) /\ Course(x) \in Courses
    BY <1>3 DEF Recheck, At, Sending, Unsent, IInv, CallOK
  <2>2. ledger[Course(x)] \in Row /\ now \in Nat
    BY <2>1 DEF IInv, TypeOK
  <2>3. /\ ledger[Course(x)].state \in {"pending", "success"}
        /\ Len(sentAt[Course(x)]) \in Nat
        /\ Len(sentAt[Course(x)]) < ledger[Course(x)].attempts
        /\ ledger[Course(x)].attempts <= MaxPosts
        /\ answered[Course(x)]
    BY <2>1 DEF IInv, CallOK, Counted, AnswerKnown, TypeOK
  <2>4. CASE /\ call' = [call EXCEPT ![x].pc = "post", ![x].wire = "unsent"]
             /\ UNCHANGED <<ledger, lock>>
    <3>1. /\ \A y \in Callers \ {x} : call'[y] = call[y]
          /\ call'[x] = [call[x] EXCEPT !.pc = "post", !.wire = "unsent"]
          /\ call[x] \in CallType
      BY <2>4 DEF IInv, TypeOK
    <3>2. /\ Course(x)' = Course(x) /\ At(x, "post")' /\ call'[x].wire = "unsent"
          /\ Sending(x)' /\ Unsent(x)'
      BY <3>1 DEF CallType, Course, At, Sending, Unsent
    <3>3. OneSender'
      <4>1. \A y \in Callers : Sending(y)' => Sending(y) /\ Course(y)' = Course(y)
        BY <2>1, <3>1, <3>2 DEF Sending, Course
      <4>2. QED BY <4>1 DEF IInv, OneSender
    <3>4. CallOK'
      BY <2>1, <2>3, <2>4, <3>1, <3>2 DEF IInv, CallOK, Sending, Course, At
    <3>5. Counted' /\ AnswerKnown'
      BY <1>3, <2>1, <2>4, <3>1, <3>2
         DEF Recheck, history, IInv, Counted, AnswerKnown, Unsent, Sending, Course
    <3>6. QED BY <3>3, <3>4, <3>5 DEF Rest
  <2>5. CASE /\ SetRow(Course(x), Finished(ledger[Course(x)], "uncertain", now))
             /\ Leave(x, "error")
    <3> DEFINE row == Finished(ledger[Course(x)], "uncertain", now)
    <3>1. row.state = "uncertain" /\ row.attempts = ledger[Course(x)].attempts
      BY <2>2, <2>3 DEF Finished, Row
    <3>2. Len(sentAt[Course(x)]) <= row.attempts /\ row.attempts <= MaxPosts
      BY <2>2, <2>3, <3>1 DEF Row
    <3>3. UNCHANGED <<sentAt, answered>>
      BY <1>3 DEF Recheck, history
    <3>4. QED BY <2>1, <2>3, <2>5, <3>1, <3>2, <3>3, SenderLeaves
  <2>6. CASE /\ SetRow(Course(x), FailedBeforeSend(ledger[Course(x)], now))
             /\ Leave(x, "false")
    <3> DEFINE row == FailedBeforeSend(ledger[Course(x)], now)
    <3>1. /\ row.attempts \in {ledger[Course(x)].attempts, ledger[Course(x)].attempts - 1}
          /\ row.state # "none" /\ row \in Row
      BY <2>2, <2>3 DEF FailedBeforeSend, Row, OpStates
    <3>2. Len(sentAt[Course(x)]) <= row.attempts /\ row.attempts <= MaxPosts
      BY <2>2, <2>3, <3>1, PolicyAssumption DEF Row
    <3>3. QED BY <1>3, <2>1, <2>3, <2>6, <3>1, <3>2, SenderLeaves DEF Recheck, history
  <2>7. QED BY <1>3, <2>4, <2>5, <2>6 DEF Recheck
<1>4. ASSUME NEW x \in Callers, LoginDone(x) PROVE Rest'
  <2>1. ~At(x, "idle") /\ ~At(x, "post") /\ UNCHANGED <<ledger, history>>
    BY <1>4 DEF LoginDone, At
  <2>2. Goto(x, "list") \/ Leave(x, "false")
    BY <1>4 DEF LoginDone
  <2>3. QED BY <2>1, <2>2, GotoCalm, LeaveQuiet, QuietStep
<1>5. ASSUME NEW x \in Callers, ListDone(x) PROVE Rest'
  <2>1. ~At(x, "idle") /\ ~At(x, "post") /\ Course(x) \in Courses
    BY <1>5 DEF ListDone, At, IInv, CallOK
  <2>2. UNCHANGED history
    BY <1>5 DEF ListDone
  <2>3. CASE SetRow(Course(x), Confirmed(ledger[Course(x)], now)) /\ Leave(x, "true")
    <3>1. Calm(x)' /\ \A y \in Callers \ {x} : call'[y] = call[y]
      BY <2>1, <2>3, LeaveCalm DEF IInv
    <3>2. \A y \in Callers : Sending(y)' => Sending(y) /\ call'[y] = call[y]
      BY <3>1 DEF Calm, Sending
    <3>3. \A c \in Courses : /\ ledger'[c].attempts = ledger[c].attempts
                             /\ ledger'[c].state \in {ledger[c].state, "success"}
      BY <2>3 DEF SetRow, Confirmed, IInv, TypeOK
    <3>4. OneSender'
      BY <3>2 DEF IInv, OneSender, Course
    <3>5. CallOK'
      BY <3>1, <3>2, <3>3 DEF IInv, CallOK, Calm, Sending, Course, At
    <3>6. Counted'
      BY <2>2, <3>2, <3>3 DEF IInv, Counted, CallOK, Unsent, Sending, Course, At, history
    <3>7. AnswerKnown'
      BY <2>2, <3>2, <3>3 DEF IInv, AnswerKnown, Unsent, Course, history
    <3>8. QED BY <3>4, <3>5, <3>6, <3>7 DEF Rest
  <2>4. CASE Goto(x, "time") /\ UNCHANGED <<ledger, lock>>
    BY <2>1, <2>2, <2>4, GotoCalm, QuietStep
  <2>5. CASE Leave(x, "false") /\ UNCHANGED ledger
    BY <2>1, <2>2, <2>5, LeaveQuiet
  <2>6. QED BY <1>5, <2>3, <2>4, <2>5 DEF ListDone
<1>6. ASSUME NEW x \in Callers, NEW ok \in BOOLEAN, NEW t \in 0 .. Horizon,
             TimeDone(x, ok, t)
      PROVE Rest'
  <2>1. ~At(x, "idle") /\ At(x, "time") /\ Course(x) \in Courses /\ UNCHANGED history
    BY <1>6 DEF TimeDone, At, IInv, CallOK
  <2>2. CASE /\ SigninVerdict(x, t) = "granted"
             /\ SetRow(Course(x), Claimed(ledger[Course(x)], now))
             /\ call' = [call EXCEPT ![x].pc = "claimed", ![x].schoolNow = t]
    <3> DEFINE c0 == Course(x)
    <3>1. ledger[c0] \in Row
      BY <2>1 DEF IInv, TypeOK
    <3>2. /\ ledger[c0].state \in {"none", "failed"}
          /\ ledger[c0].attempts < MaxPosts
      BY <2>1, <2>2, <3>1, GrantedRow, PolicyAssumption DEF IInv, Counted
    <3>3. /\ ledger'[c0] = Claimed(ledger[c0], now)
          /\ \A c \in Courses \ {c0} : ledger'[c] = ledger[c]
      BY <2>1, <2>2 DEF SetRow, IInv, TypeOK
    <3>4. ledger'[c0].state = "pending" /\ ledger'[c0].attempts = ledger[c0].attempts + 1
      BY <3>3 DEF Claimed
    <3>5. /\ \A y \in Callers \ {x} : call'[y] = call[y]
          /\ call'[x] = [call[x] EXCEPT !.pc = "claimed", !.schoolNow = t]
          /\ call[x] \in CallType
      BY <2>2 DEF IInv, TypeOK
    <3>6. Course(x)' = c0 /\ At(x, "claimed")' /\ call'[x].wire = "none"
      BY <2>1, <3>5 DEF CallType, Course, At, IInv, CallOK
    <3>7. \A y \in Callers \ {x} :
            Sending(y)' => Sending(y) /\ Course(y) # c0 /\ Course(y) \in Courses
      BY <3>2, <3>5 DEF IInv, CallOK, Sending, At
    <3>8. OneSender'
      <4> SUFFICES ASSUME NEW y \in Callers, NEW z \in Callers, Sending(y)',
                          Sending(z)', Course(y)' = Course(z)'
                   PROVE  y = z
        BY DEF OneSender
      <4>1. \A w \in Callers \ {x} : Course(w)' = Course(w)
        BY <3>5 DEF Course
      <4>2. CASE y = x \/ z = x
        BY <3>6, <3>7, <4>1, <4>2
      <4>3. CASE y # x /\ z # x
        BY <3>7, <4>1, <4>3 DEF IInv, OneSender
      <4>4. QED BY <4>2, <4>3
    <3>9. CallOK'
      <4> SUFFICES ASSUME NEW y \in Callers
                   PROVE  /\ ~At(y, "idle")' => Course(y)' \in Courses
                          /\ At(y, "post")' <=> call'[y].wire # "none"
                          /\ Sending(y)' => ledger'[Course(y)'].state \in {"pending", "success"}
        BY DEF CallOK
      <4>1. CASE y = x
        BY <2>1, <3>4, <3>6, <4>1 DEF At
      <4>2. CASE y # x
        BY <3>3, <3>5, <3>7, <4>2 DEF IInv, CallOK, Sending, At, Course
      <4>3. QED BY <4>1, <4>2
    <3>10. /\ Len(sentAt[c0]) \in Nat /\ Len(sentAt[c0]) <= ledger[c0].attempts
           /\ ledger[c0].attempts \in Nat /\ answered[c0]
      BY <2>1, <3>1, <3>2 DEF IInv, Counted, AnswerKnown, TypeOK, Row
    <3>11. Counted'
      <4>1. ASSUME NEW c \in Courses
            PROVE  /\ ledger'[c].attempts <= MaxPosts
                   /\ ledger'[c].state = "none" => ledger'[c].attempts = 0
                   /\ Len(sentAt'[c]) <= ledger'[c].attempts
        <5>1. CASE c = c0
          BY <2>1, <3>2, <3>4, <3>10, <5>1, PolicyAssumption DEF history
        <5>2. CASE c # c0
          BY <2>1, <3>3, <5>2 DEF IInv, Counted, history
        <5>3. QED BY <5>1, <5>2
      <4>2. ASSUME NEW y \in Callers, Unsent(y)'
            PROVE  Len(sentAt'[Course(y)']) < ledger'[Course(y)'].attempts
        <5>1. CASE y = x
          BY <2>1, <3>4, <3>6, <3>10, <5>1 DEF history
        <5>2. CASE y # x
          BY <2>1, <3>3, <3>5, <3>7, <4>2, <5>2
             DEF IInv, Counted, Unsent, Sending, Course, history
        <5>3. QED BY <5>1, <5>2
      <4>3. QED BY <4>1, <4>2 DEF Counted
    <3>12. AnswerKnown'
      BY <2>1, <3>3, <3>4, <3>5, <3>6, <3>7, <3>10
         DEF IInv, AnswerKnown, Unsent, Sending, Course, history
    <3>13. QED BY <3>8, <3>9, <3>11, <3>12 DEF Rest
  <2>3. CASE (Leave(x, "true") \/ Leave(x, "false")) /\ UNCHANGED ledger
    BY <2>1, <2>3, LeaveQuiet
  <2>4. QED BY <1>6, <2>2, <2>3 DEF TimeDone
<1>7. ASSUME NEW x \in Callers, ConnectFails(x) PROVE Rest'
  <2>1. Sending(x) /\ Unsent(x) /\ Course(x) \in Courses
    BY <1>7 DEF ConnectFails, At, Sending, Unsent, IInv, CallOK
  <2>2. ledger[Course(x)] \in Row /\ now \in Nat
    BY <2>1 DEF IInv, TypeOK
  <2>3. /\ ledger[Course(x)].state \in {"pending", "success"}
        /\ Len(sentAt[Course(x)]) \in Nat
        /\ Len(sentAt[Course(x)]) < ledger[Course(x)].attempts
        /\ ledger[Course(x)].attempts <= MaxPosts
        /\ answered[Course(x)]
    BY <2>1 DEF IInv, CallOK, Counted, AnswerKnown, TypeOK
  <2> DEFINE row == FailedBeforeSend(ledger[Course(x)], now)
  <2>4. /\ row.attempts \in {ledger[Course(x)].attempts, ledger[Course(x)].attempts - 1}
        /\ row.state # "none" /\ row \in Row
    BY <2>2, <2>3 DEF FailedBeforeSend, Row, OpStates
  <2>5. Len(sentAt[Course(x)]) <= row.attempts /\ row.attempts <= MaxPosts
    BY <2>2, <2>3, <2>4, PolicyAssumption DEF Row
  <2>6. QED BY <1>7, <2>1, <2>3, <2>4, <2>5, SenderLeaves DEF ConnectFails, history
<1>8. ASSUME NEW x \in Callers, Response(x) PROVE Rest'
  <2>1. Sending(x) /\ Course(x) \in Courses
    BY <1>8 DEF Response, At, Sending, IInv, CallOK
  <2>2. /\ ledger[Course(x)] \in Row /\ ledger[Course(x)].state # "none"
        /\ Len(sentAt[Course(x)]) <= ledger[Course(x)].attempts
        /\ ledger[Course(x)].attempts <= MaxPosts
    BY <2>1 DEF IInv, CallOK, Counted, TypeOK
  <2>3. PICK s \in {"success", "failed"} :
          /\ SetRow(Course(x), Finished(ledger[Course(x)], s, now))
          /\ \E r \in Results : Leave(x, r)
    BY <1>8 DEF Response, Results
  <2> DEFINE row == Finished(ledger[Course(x)], s, now)
  <2>4. row.state = s /\ row.attempts = ledger[Course(x)].attempts
    BY <2>2 DEF Finished, Row
  <2>5. /\ answered'[Course(x)]
        /\ \A c \in Courses : answered[c] => answered'[c]
        /\ UNCHANGED sentAt
    BY <1>8, <2>1 DEF Response, IInv, TypeOK
  <2>6. QED BY <2>1, <2>2, <2>3, <2>4, <2>5, SenderLeaves
<1>9. ASSUME NEW x \in Callers, CancelWait(x) PROVE Rest'
  <2>1. \A y \in Callers \ {x} : call'[y] = call[y]
    BY <1>9 DEF CancelWait, IInv, TypeOK
  <2>2. call'[x] = [call[x] EXCEPT !.pc = "returned", !.result = "cancelled"]
        /\ call[x] \in CallType
    BY <1>9 DEF CancelWait, IInv, TypeOK
  <2>3. call[x].wire = "none" /\ Course(x) \in Courses
    BY <1>9 DEF CancelWait, IInv, CallOK, At
  <2>4. /\ call'[x].pc = "returned" /\ call'[x].course = call[x].course
        /\ call'[x].wire = call[x].wire
    BY <2>2 DEF CallType
  <2>5. Calm(x)'
    BY <2>3, <2>4 DEF Calm, Sending, At, Course
  <2>6. QED BY <1>9, <2>1, <2>5, QuietStep DEF CancelWait
<1>10. ASSUME NEW x \in Callers, Return(x) PROVE Rest'
  <2>1. \A y \in Callers : call'[y] = call[y] \/ Calm(y)'
    BY <1>10 DEF Return, Idle, IInv, TypeOK, Calm, Sending, At
  <2>2. QED BY <1>10, <2>1, QuietStep DEF Return
<1>11. ASSUME NEW x \in Callers, NEW r \in {"error", "cancelled"}, ReadFails(x, r)
       PROVE Rest'
  BY <1>11, LeaveQuiet DEF ReadFails, At
<1>12. ASSUME NEW x \in Callers, NEW r \in {"error", "cancelled"}, ResponseLost(x, r)
       PROVE Rest'
  <2>1. Sending(x) /\ Course(x) \in Courses
    BY <1>12 DEF ResponseLost, At, Sending, IInv, CallOK
  <2>2. /\ ledger[Course(x)] \in Row /\ ledger[Course(x)].state # "none"
        /\ Len(sentAt[Course(x)]) <= ledger[Course(x)].attempts
        /\ ledger[Course(x)].attempts <= MaxPosts
    BY <2>1 DEF IInv, CallOK, Counted, TypeOK
  <2> DEFINE row == Finished(ledger[Course(x)], "uncertain", now)
  <2>3. row.state = "uncertain" /\ row.attempts = ledger[Course(x)].attempts
    BY <2>2 DEF Finished, Row
  <2>4. QED BY <1>12, <2>1, <2>2, <2>3, SenderLeaves DEF ResponseLost, history
<1>13. ASSUME NEW x \in Callers, Transmit(x) PROVE Rest'
  <2>1. Unsent(x) /\ Sending(x) /\ Course(x) \in Courses
    BY <1>13 DEF Transmit, At, Unsent, Sending, IInv, CallOK
  <2> DEFINE c0 == Course(x)
  <2>2. /\ \A y \in Callers \ {x} : call'[y] = call[y]
        /\ call'[x] = [call[x] EXCEPT !.wire = "sent"] /\ call[x] \in CallType
    BY <1>13 DEF Transmit, IInv, TypeOK
  <2>3. \A y \in Callers : /\ Course(y)' = Course(y) /\ (Sending(y)' <=> Sending(y))
                           /\ \A p \in Places : At(y, p)' <=> At(y, p)
                           /\ Unsent(y)' => Unsent(y) /\ y # x
    BY <2>2 DEF Course, Sending, At, Unsent, CallType
  <2>4. /\ Len(sentAt[c0]) < ledger[c0].attempts /\ sentAt[c0] \in Seq(Nat)
        /\ ledger[c0].attempts \in Nat /\ now \in Nat
    BY <2>1 DEF IInv, Counted, TypeOK, Row
  <2>5. /\ Len(sentAt'[c0]) = Len(sentAt[c0]) + 1
        /\ \A c \in Courses \ {c0} : sentAt'[c] = sentAt[c] /\ answered'[c] = answered[c]
    BY <1>13, <2>1, <2>4 DEF Transmit, IInv, TypeOK
  <2>6. UNCHANGED ledger /\ ledger[c0].state \in {"pending", "success"}
    BY <1>13, <2>1 DEF Transmit, IInv, CallOK
  <2>7. OneSender'
    BY <2>3 DEF IInv, OneSender
  <2>8. CallOK'
    BY <1>13, <2>2, <2>3, <2>6 DEF Transmit, IInv, CallOK, At, Sending, Course, CallType
  <2>9. \A y \in Callers : Unsent(y)' => Unsent(y) /\ Course(y)' = Course(y)
                                      /\ Course(y) \in Courses \ {c0}
    BY <2>1, <2>3 DEF IInv, OneSender, CallOK, Unsent, Sending, At
  <2>10. Counted'
    <3>1. ASSUME NEW c \in Courses
          PROVE  /\ ledger'[c].attempts <= MaxPosts
                 /\ ledger'[c].state = "none" => ledger'[c].attempts = 0
                 /\ Len(sentAt'[c]) <= ledger'[c].attempts
      <4>1. CASE c = c0
        BY <2>4, <2>5, <2>6, <4>1 DEF IInv, Counted
      <4>2. CASE c # c0
        BY <2>5, <2>6, <4>2 DEF IInv, Counted
      <4>3. QED BY <4>1, <4>2
    <3>2. QED BY <2>5, <2>6, <2>9, <3>1 DEF IInv, Counted
  <2>11. AnswerKnown'
    BY <2>5, <2>6, <2>9 DEF IInv, AnswerKnown
  <2>12. QED BY <2>7, <2>8, <2>10, <2>11 DEF Rest
<1>14. ASSUME NEW x \in Callers, NEW a \in {"accepted", "refused", "denied"},
              SchoolHandles(x, a)
       PROVE Rest'
  <2>1. /\ \A y \in Callers \ {x} : call'[y] = call[y]
        /\ call'[x] = [call[x] EXCEPT !.wire = a] /\ call[x] \in CallType
    BY <1>14 DEF SchoolHandles, IInv, TypeOK
  <2>2. \A y \in Callers : /\ Course(y)' = Course(y) /\ (Sending(y)' <=> Sending(y))
                           /\ \A p \in Places : At(y, p)' <=> At(y, p)
                           /\ Unsent(y)' => Unsent(y)
    BY <1>14, <2>1 DEF SchoolHandles, Course, Sending, At, Unsent, CallType
  <2>3. UNCHANGED <<ledger, history>>
    BY <1>14 DEF SchoolHandles
  <2>4. OneSender'
    BY <2>2 DEF IInv, OneSender
  <2>5. CallOK'
    BY <1>14, <2>1, <2>2, <2>3 DEF SchoolHandles, IInv, CallOK, At, Sending, Course, CallType
  <2>6. Counted' /\ AnswerKnown'
    BY <2>2, <2>3 DEF IInv, Counted, AnswerKnown, history
  <2>7. QED BY <2>4, <2>5, <2>6 DEF Rest
<1>15. ASSUME UNCHANGED <<ledger, call, history>> PROVE Rest'
  BY <1>15, QuietStep
<1>16. CASE Crash
  <2>1. \A y \in Callers : Calm(y)'
    BY <1>16 DEF Crash, Idle, Calm, Sending, At
  <2>2. QED BY <1>16, <2>1, QuietStep DEF Crash
<1>17. QED
  BY <1>1, <1>2, <1>3, <1>4, <1>5, <1>6, <1>7, <1>8, <1>9, <1>10, <1>11, <1>12,
     <1>13, <1>14, <1>15, <1>16
     DEF Next, Coroutine, Network, StrayHandled, SignedElsewhere,
         SessionRefreshed, Tick, vars, history
-----------------------------------------------------------------------------
(***************************************************************************)
(* The variables of every reachable state have their types, and the        *)
(* strengthened invariant holds.                                           *)
(***************************************************************************)
THEOREM Invariance == Spec => []IInv
<1>1. Init => IInv
  BY InvInit
<1>2. IInv /\ [Next]_vars => IInv'
  BY InvStep
<1>3. QED BY <1>1, <1>2, PTL DEF Spec

THEOREM TypeCorrect == Spec => []TypeOK
<1>1. IInv => TypeOK
  BY DEF IInv
<1>2. QED BY <1>1, Invariance, PTL

LEMMA WithinBudget == IInv => PostBudget
<1> SUFFICES ASSUME IInv, NEW c \in Courses PROVE Len(sentAt[c]) <= MaxPosts
  BY DEF PostBudget
<1>1. /\ Len(sentAt[c]) \in Nat /\ ledger[c].attempts \in Nat
      /\ Len(sentAt[c]) <= ledger[c].attempts /\ ledger[c].attempts <= MaxPosts
  BY DEF IInv, TypeOK, Counted, Row
<1>2. QED BY <1>1, PolicyAssumption

\* Only Transmit sends, from an Unsent caller, and AnswerKnown covers it.
LEMMA SentWhenAnswered ==
  ASSUME IInv, [Next]_vars, NEW c \in Courses, sentAt'[c] # sentAt[c]
  PROVE  answered[c]
<1>1. PICK x \in Callers : Transmit(x)
  BY DEF Next, Coroutine, Network, Call, Enter, Recheck, LoginDone, ListDone, TimeDone,
         ConnectFails, Response, CancelWait, Return, ReadFails, ResponseLost,
         SchoolHandles, StrayHandled, SignedElsewhere, SessionRefreshed, Tick, Crash,
         history, vars
<1>2. Unsent(x) /\ Course(x) = c
  BY <1>1 DEF Transmit, At, Unsent, Sending, IInv, TypeOK
<1>3. QED BY <1>2 DEF IInv, AnswerKnown

(***************************************************************************)
(* However many callers and clients there are and however often the        *)
(* process crashes, at most MaxPosts requests for one lesson leave.        *)
(***************************************************************************)
THEOREM Budget == Spec => []PostBudget
BY WithinBudget, Invariance, PTL

(***************************************************************************)
(* No request leaves while the previous one for the lesson is unresolved.  *)
(***************************************************************************)
THEOREM NoBlindResendHolds == Spec => NoBlindResend
<1> DEFINE Step == \A c \in Courses : sentAt'[c] # sentAt[c] => answered[c]
<1>1. IInv /\ [Next]_vars => [Step]_vars
  BY SentWhenAnswered
<1>2. QED BY <1>1, Invariance, PTL DEF Spec, NoBlindResend
-----------------------------------------------------------------------------
(***************************************************************************)
(* GroupSpacing is about any Burst + 1 requests; its invariant is about    *)
(* any two.  Attempted: a request has an attempt of its own, so that the   *)
(* verdict on the claim counts the requests that left.  Timed: a claim     *)
(* that has not sent yet was granted after the pause behind the last       *)
(* request.  Spaced: the distances, for every pair of requests.            *)
(***************************************************************************)
Attempted ==
  /\ \A c \in Courses :
       ledger[c].state \in {"none", "failed"} => Len(sentAt[c]) = ledger[c].attempts
  /\ \A x \in Callers : Sending(x) =>
       ledger[Course(x)].attempts = Len(sentAt[Course(x)]) + (IF Unsent(x) THEN 1 ELSE 0)

\* The pause after request j for c.
PauseAfter(c, j) == IF j % Burst # 0 THEN ShortDelay ELSE GroupPause(c, j)

Timed ==
  /\ \A c \in Courses :
       /\ ledger[c].updated <= now
       /\ \A i \in 1 .. Len(sentAt[c]) :
            /\ sentAt[c][i] <= now
            /\ ledger[c].state = "failed" => sentAt[c][i] <= ledger[c].updated
  /\ \A x \in Callers : Unsent(x) =>
       LET c == Course(x) IN
       Len(sentAt[c]) > 0 =>
         sentAt[c][Len(sentAt[c])] + PauseAfter(c, Len(sentAt[c])) <= ledger[c].updated

Spaced ==
  \A c \in Courses : \A k \in 1 .. Len(sentAt[c]) : \A i \in 1 .. k :
    /\ sentAt[c][k] - sentAt[c][i] >= (k - i) * ShortDelay
    /\ \A j \in i .. k - 1 : j % Burst = 0 =>
         sentAt[c][k] - sentAt[c][i] >= GroupPause(c, j) + (k - i - 1) * ShortDelay

SInv == Attempted /\ Timed /\ Spaced

LEMMA PauseFacts ==
  ASSUME TypeOK, NEW c \in Courses, NEW j \in 1 .. Len(sentAt[c])
  PROVE  /\ GroupPause(c, j) \in Nat /\ PauseAfter(c, j) \in Nat
         /\ GroupPause(c, j) >= ShortDelay /\ PauseAfter(c, j) >= ShortDelay
         /\ j % Burst = 0 => PauseAfter(c, j) = GroupPause(c, j)
BY PolicyAssumption DEF GroupPause, PauseAfter

LEMMA SentTypes ==
  ASSUME TypeOK, NEW c \in Courses
  PROVE  /\ sentAt[c] \in Seq(Nat) /\ Len(sentAt[c]) \in Nat
         /\ \A i \in 1 .. Len(sentAt[c]) : sentAt[c][i] \in Nat
         /\ ledger[c] \in Row /\ ledger[c].updated \in Nat /\ ledger[c].attempts \in Nat
         /\ now \in Nat
BY DEF TypeOK, Row

(***************************************************************************)
(* A step without claim and transmission: rows it writes are of now, and   *)
(* who is sending afterwards was as far before.                            *)
(***************************************************************************)
LEMMA SpacingQuiet ==
  ASSUME TypeOK, TypeOK', SInv, CallOK, UNCHANGED sentAt, now' >= now,
         \A c \in Courses :
           \/ ledger'[c] = ledger[c]
           \/ /\ ledger'[c].updated = now'
              /\ ledger'[c].state \in {"none", "failed"} => Len(sentAt[c]) = ledger'[c].attempts,
         \A x \in Callers : Sending(x)' =>
           /\ Sending(x) /\ Course(x)' = Course(x) /\ (Unsent(x)' <=> Unsent(x))
           /\ ledger'[Course(x)].attempts = ledger[Course(x)].attempts
  PROVE  SInv'
<1>0. \A x \in Callers : Sending(x) => Course(x) \in Courses
  BY DEF CallOK, Sending, At
<1>1. Attempted'
  <2>1. ASSUME NEW c \in Courses, ledger'[c].state \in {"none", "failed"}
        PROVE  Len(sentAt'[c]) = ledger'[c].attempts
    BY <2>1 DEF SInv, Attempted
  <2>2. ASSUME NEW x \in Callers, Sending(x)'
        PROVE  ledger'[Course(x)'].attempts
                 = Len(sentAt'[Course(x)']) + (IF Unsent(x)' THEN 1 ELSE 0)
    BY <2>2 DEF SInv, Attempted
  <2>3. QED BY <2>1, <2>2 DEF Attempted
<1>2. Timed'
  <2>1. ASSUME NEW c \in Courses
        PROVE  /\ ledger'[c].updated <= now' /\ ledger'[c].updated >= ledger[c].updated
               /\ \A i \in 1 .. Len(sentAt'[c]) :
                    /\ sentAt'[c][i] <= now'
                    /\ ledger'[c].state = "failed" => sentAt'[c][i] <= ledger'[c].updated
    <3>1. /\ ledger[c].updated \in Nat /\ ledger'[c].updated \in Nat
          /\ now \in Nat /\ now' \in Nat
          /\ \A i \in 1 .. Len(sentAt[c]) : sentAt[c][i] \in Nat
      BY SentTypes, <2>1 DEF TypeOK, Row
    <3>2. /\ ledger[c].updated <= now
          /\ \A i \in 1 .. Len(sentAt[c]) :
               /\ sentAt[c][i] <= now
               /\ ledger[c].state = "failed" => sentAt[c][i] <= ledger[c].updated
      BY DEF SInv, Timed
    <3>3. \A i \in 1 .. Len(sentAt[c]) : sentAt[c][i] <= now'
      BY <3>1, <3>2
    <3>4. CASE ledger'[c] = ledger[c]
      BY <3>1, <3>2, <3>3, <3>4
    <3>5. CASE ledger'[c].updated = now'
      BY <3>1, <3>2, <3>3, <3>5
    <3>6. QED BY <3>4, <3>5
  <2>2. ASSUME NEW x \in Callers, Unsent(x)', NEW c, c = Course(x)', Len(sentAt'[c]) > 0
        PROVE  (sentAt[c][Len(sentAt[c])] + PauseAfter(c, Len(sentAt[c])) <= ledger[c].updated)'
    <3>1. Unsent(x) /\ c = Course(x) /\ c \in Courses
      BY <1>0, <2>2 DEF Unsent
    <3>2. PauseAfter(c, Len(sentAt[c]))' = PauseAfter(c, Len(sentAt[c]))
      BY DEF PauseAfter, GroupPause
    <3>3. sentAt[c][Len(sentAt[c])] + PauseAfter(c, Len(sentAt[c])) <= ledger[c].updated
      BY <2>2, <3>1 DEF SInv, Timed
    <3>4. /\ sentAt[c][Len(sentAt[c])] \in Nat /\ PauseAfter(c, Len(sentAt[c])) \in Nat
          /\ ledger[c].updated \in Nat /\ ledger'[c].updated \in Nat
      BY <2>2, <3>1, SentTypes, PauseFacts DEF TypeOK, Row
    <3>5. ledger'[c].updated >= ledger[c].updated
      BY <2>1, <3>1
    <3>6. QED BY <3>2, <3>3, <3>4, <3>5
  <2>3. QED BY <2>1, <2>2 DEF Timed
<1>3. Spaced'
  BY DEF SInv, Spaced, GroupPause
<1>4. QED BY <1>1, <1>2, <1>3 DEF SInv

(***************************************************************************)
(* A claim was granted: the pause after the last request is over.          *)
(***************************************************************************)
LEMMA GrantedPause ==
  ASSUME TypeOK, Counted, SInv, NEW x \in Callers, NEW t, SigninVerdict(x, t) = "granted",
         NEW c, c = Course(x), c \in Courses, Len(sentAt[c]) > 0
  PROVE  sentAt[c][Len(sentAt[c])] + PauseAfter(c, Len(sentAt[c])) <= now
<1> DEFINE n == Len(sentAt[c])
           row == ledger[c]
           delay == MinimumRetryDelay(row.attempts, BeforeStart(x, t))
<1>1. row.state \in {"none", "failed"}
  BY GrantedRow, SentTypes
<1>2. n = row.attempts /\ n \in Nat \ {0} /\ n \in 1 .. n
  BY <1>1, SentTypes DEF SInv, Attempted
<1>3. /\ row.updated \in Nat /\ sentAt[c][n] \in Nat /\ now \in Nat
      /\ Lesson[c].starts \in Nat
  BY <1>2, SentTypes, SigninAssumption
<1>4. row.state = "failed"
  BY <1>1, <1>2 DEF Counted
<1>5. sentAt[c][n] <= row.updated
  BY <1>2, <1>4 DEF SInv, Timed
<1>6. ~(row.updated + delay > now)
  BY <1>4, PolicyAssumption DEF SigninVerdict, ClaimVerdict, Unsettled
<1>7. delay >= PauseAfter(c, n) /\ delay \in Nat
  <2>1. CASE n % Burst # 0
    BY <1>2, <2>1, PolicyAssumption DEF MinimumRetryDelay, PauseAfter
  <2>2. CASE n % Burst = 0 /\ BeforeStart(x, t)
    <3>1. now < Lesson[c].starts /\ sentAt[c][n] <= now
      BY <1>2, <2>2 DEF BeforeStart, SInv, Timed
    <3>2. GroupPause(c, n) = PreclassDelay
      BY <1>3, <3>1 DEF GroupPause
    <3>3. QED BY <1>2, <2>2, <3>2, PolicyAssumption DEF MinimumRetryDelay, PauseAfter
  <2>3. CASE n % Burst = 0 /\ ~BeforeStart(x, t)
    BY <1>2, <2>3, PolicyAssumption DEF MinimumRetryDelay, PauseAfter, GroupPause
  <2>4. QED BY <2>1, <2>2, <2>3
<1>8. PauseAfter(c, n) \in Nat
  BY <1>2, PauseFacts
<1>9. QED BY <1>3, <1>5, <1>6, <1>7, <1>8

\* Appending a time keeps what Spaced says, if it keeps its distance from the last.
LEMMA SpacedAppend ==
  ASSUME TypeOK, SInv, NEW c \in Courses, NEW t \in Nat,
         sentAt'[c] = Append(sentAt[c], t),
         Len(sentAt[c]) > 0 =>
           sentAt[c][Len(sentAt[c])] + PauseAfter(c, Len(sentAt[c])) <= t
  PROVE  \A k \in 1 .. Len(sentAt'[c]) : \A i \in 1 .. k :
           /\ sentAt'[c][k] - sentAt'[c][i] >= (k - i) * ShortDelay
           /\ \A j \in i .. k - 1 : j % Burst = 0 =>
                sentAt'[c][k] - sentAt'[c][i] >= GroupPause(c, j)' + (k - i - 1) * ShortDelay
<1> DEFINE s == sentAt[c]
           n == Len(s)
<1>1. /\ n \in Nat /\ s \in Seq(Nat) /\ Len(sentAt'[c]) = n + 1
      /\ sentAt'[c][n + 1] = t
      /\ \A i \in 1 .. n : sentAt'[c][i] = s[i] /\ s[i] \in Nat
  BY SentTypes
<1>2. \A j \in 1 .. n : /\ GroupPause(c, j)' = GroupPause(c, j)
                        /\ GroupPause(c, j) \in Nat
  BY <1>1, PauseFacts DEF GroupPause
<1>3. ShortDelay \in Nat
  BY PolicyAssumption
<1> SUFFICES ASSUME NEW k \in 1 .. n + 1, NEW i \in 1 .. k
             PROVE  /\ sentAt'[c][k] - sentAt'[c][i] >= (k - i) * ShortDelay
                    /\ \A j \in i .. k - 1 : j % Burst = 0 =>
                         sentAt'[c][k] - sentAt'[c][i]
                           >= GroupPause(c, j)' + (k - i - 1) * ShortDelay
  BY <1>1
<1>4. CASE k \in 1 .. n
  <2>1. /\ sentAt'[c][k] = s[k] /\ sentAt'[c][i] = s[i]
        /\ \A j \in i .. k - 1 : GroupPause(c, j)' = GroupPause(c, j)
    BY <1>1, <1>2, <1>4
  <2>2. QED BY <1>4, <2>1 DEF SInv, Spaced
<1>5. CASE k = n + 1 /\ i = n + 1
  <2>1. k - i = 0 /\ sentAt'[c][k] - sentAt'[c][i] = 0 /\ i .. k - 1 = {}
    BY <1>1, <1>5
  <2>2. QED BY <1>3, <2>1
<1>6. CASE k = n + 1 /\ i \in 1 .. n
  <2>1. n \in 1 .. n /\ n > 0 /\ s[n] \in Nat /\ s[i] \in Nat
    BY <1>1, <1>6
  <2>2. /\ s[n] + PauseAfter(c, n) <= t /\ PauseAfter(c, n) \in Nat
        /\ PauseAfter(c, n) >= ShortDelay
        /\ n % Burst = 0 => PauseAfter(c, n) = GroupPause(c, n)
    BY <2>1, PauseFacts
  <2>3. /\ s[n] - s[i] >= (n - i) * ShortDelay
        /\ \A j \in i .. n - 1 : j % Burst = 0 =>
             s[n] - s[i] >= GroupPause(c, j) + (n - i - 1) * ShortDelay
    BY <1>6, <2>1 DEF SInv, Spaced
  <2>4. sentAt'[c][k] = t /\ sentAt'[c][i] = s[i]
    BY <1>1, <1>6
  <2> DEFINE d == n - i
  <2>5. d \in Nat /\ k - i = d + 1 /\ k - i - 1 = d /\ n - i - 1 = d - 1
    BY <1>1, <1>6
  <2>6. /\ (d + 1) * ShortDelay = d * ShortDelay + ShortDelay
        /\ d * ShortDelay = (d - 1) * ShortDelay + ShortDelay
        /\ d * ShortDelay \in Nat /\ (d - 1) * ShortDelay \in Int
    BY <1>3, <2>5
  <2>7. t - s[i] >= d * ShortDelay + ShortDelay
    <3> HIDE DEF d
    <3>1. s[n] - s[i] >= d * ShortDelay
      BY <2>3 DEF d
    <3> DEFINE e == d * ShortDelay
    <3>2. e \in Nat /\ s[n] - s[i] >= e
      BY <2>6, <3>1
    <3> HIDE DEF e
    <3>3. t - s[i] >= e + ShortDelay
      BY <1>3, <2>1, <2>2, <3>2
    <3>4. QED BY <3>3 DEF e
  <2>8. ASSUME NEW j \in i .. n, j % Burst = 0
        PROVE  t - s[i] >= GroupPause(c, j) + d * ShortDelay
    <3>0. j \in 1 .. n /\ GroupPause(c, j) \in Nat
      BY <1>2, <1>6
    <3> DEFINE e == d * ShortDelay
               f == (d - 1) * ShortDelay
    <3>1. e \in Nat /\ f \in Int /\ e = f + ShortDelay
      BY <2>6
    <3>2. s[n] - s[i] >= e
      BY <2>3
    <3>3. j # n => s[n] - s[i] >= GroupPause(c, j) + f
      <4>1. j # n => j \in i .. n - 1
        BY <1>1, <1>6
      <4>2. QED BY <2>3, <2>5, <2>8, <4>1
    <3> HIDE DEF e, f
    <3>4. CASE j = n
      BY <1>3, <2>1, <2>2, <2>8, <3>0, <3>1, <3>2, <3>4 DEF e
    <3>5. CASE j # n
      <4>1. t - s[i] >= GroupPause(c, j) + e
        <5>1. s[n] - s[i] >= GroupPause(c, j) + f
          BY <3>3, <3>5
        <5>2. s[n] + PauseAfter(c, n) <= t /\ PauseAfter(c, n) >= ShortDelay
          BY <2>2
        <5>3. /\ s[i] \in Nat /\ s[n] \in Nat /\ PauseAfter(c, n) \in Nat /\ ShortDelay \in Nat
              /\ GroupPause(c, j) \in Nat /\ e \in Int /\ f \in Int /\ e = f + ShortDelay
          BY <1>3, <2>1, <2>2, <3>0, <3>1
        <5> DEFINE sn == s[n]
                   si == s[i]
                   p == PauseAfter(c, n)
                   g == GroupPause(c, j)
        <5>4. /\ si \in Nat /\ sn \in Nat /\ p \in Nat /\ g \in Nat /\ sn - si >= g + f
              /\ sn + p <= t /\ p >= ShortDelay
          BY <5>1, <5>2, <5>3
        <5> HIDE DEF sn, si, p, g
        <5>5. t - si >= g + e
          BY <1>3, <3>1, <5>4
        <5>6. QED BY <5>5 DEF si, g
      <4>2. QED BY <4>1 DEF e
    <3>6. QED BY <3>4, <3>5
  <2>9. sentAt'[c][k] - sentAt'[c][i] >= (k - i) * ShortDelay
    BY <2>4, <2>5, <2>6, <2>7
  <2>10. ASSUME NEW j \in i .. k - 1, j % Burst = 0
         PROVE  sentAt'[c][k] - sentAt'[c][i] >= GroupPause(c, j)' + (k - i - 1) * ShortDelay
    <3>1. j \in i .. n /\ j \in 1 .. n
      BY <1>1, <1>6
    <3>2. QED BY <1>2, <2>4, <2>5, <2>8, <2>10, <3>1
  <2>11. QED BY <2>9, <2>10
<1>7. QED BY <1>1, <1>4, <1>5, <1>6

LEMMA SpacingCalm ==
  ASSUME IInv, TypeOK', SInv, UNCHANGED <<ledger, sentAt>>, now' >= now,
         \A y \in Callers : call'[y] = call[y] \/ Calm(y)'
  PROVE  SInv'
<1>1. \A y \in Callers : Sending(y)' =>
        Sending(y) /\ Course(y)' = Course(y) /\ (Unsent(y)' <=> Unsent(y))
  BY DEF Calm, Sending, Unsent, Course
<1>2. QED BY <1>1, SpacingQuiet DEF IInv

LEMMA LeaveKeepsSpacing ==
  ASSUME IInv, TypeOK', SInv, NEW x \in Callers, NEW r, Leave(x, r), ~At(x, "idle"),
         UNCHANGED <<ledger, sentAt, now>>
  PROVE  SInv'
<1>1. Course(x) \in Courses
  BY DEF IInv, CallOK
<1>2. \A y \in Callers : call'[y] = call[y] \/ Calm(y)'
  BY <1>1, LeaveCalm DEF IInv
<1>3. now' >= now
  BY DEF IInv, TypeOK
<1>4. QED BY <1>2, <1>3, SpacingCalm

LEMMA SenderLeavesSpacing ==
  ASSUME IInv, TypeOK', SInv, NEW x \in Callers, Sending(x), NEW r, Leave(x, r),
         NEW row, SetRow(Course(x), row), UNCHANGED <<sentAt, now>>, row.updated = now,
         row.state \in {"none", "failed"} => Len(sentAt[Course(x)]) = row.attempts
  PROVE  SInv'
<1>1. Course(x) \in Courses
  BY DEF IInv, CallOK, Sending, At
<1>2. Calm(x)' /\ \A y \in Callers \ {x} : call'[y] = call[y]
  BY <1>1, LeaveCalm DEF IInv
<1>3. /\ ledger'[Course(x)] = row
      /\ \A c \in Courses \ {Course(x)} : ledger'[c] = ledger[c]
  BY <1>1 DEF SetRow, IInv, TypeOK
<1>4. ASSUME NEW y \in Callers, Sending(y)'
      PROVE  /\ Sending(y) /\ Course(y)' = Course(y) /\ (Unsent(y)' <=> Unsent(y))
             /\ ledger'[Course(y)].attempts = ledger[Course(y)].attempts
  <2>1. y # x /\ call'[y] = call[y]
    BY <1>2, <1>4 DEF Calm
  <2>2. Sending(y) /\ Course(y)' = Course(y) /\ (Unsent(y)' <=> Unsent(y))
    BY <1>4, <2>1 DEF Sending, Unsent, Course
  <2>3. Course(y) \in Courses \ {Course(x)}
    BY <2>1, <2>2 DEF IInv, OneSender, CallOK, Sending, At
  <2>4. QED BY <1>3, <2>2, <2>3
<1>5. now' >= now
  BY DEF IInv, TypeOK
<1>6. QED BY <1>3, <1>4, <1>5, SpacingQuiet DEF IInv

\* What a refund leaves, when the caller's own attempt is charged and unsent.
LEMMA RefundSpacing ==
  ASSUME IInv, TypeOK', SInv, NEW x \in Callers, Unsent(x), NEW r, Leave(x, r),
         SetRow(Course(x), FailedBeforeSend(ledger[Course(x)], now)),
         UNCHANGED <<sentAt, now>>
  PROVE  SInv'
<1> DEFINE c0 == Course(x)
           row == FailedBeforeSend(ledger[c0], now)
<1>1. Sending(x) /\ c0 \in Courses
  BY DEF Unsent, IInv, CallOK, Sending, At
<1>2. /\ ledger[c0].attempts = Len(sentAt[c0]) + 1 /\ Len(sentAt[c0]) \in Nat
      /\ ledger[c0] \in Row /\ ledger[c0].state \in {"pending", "success"}
  BY <1>1, SentTypes DEF SInv, Attempted, IInv, CallOK
<1>3. CASE ledger[c0].state = "pending"
  <2>1. row.updated = now /\ row.state = "failed" /\ row.attempts = Len(sentAt[c0])
    BY <1>2, <1>3 DEF FailedBeforeSend
  <2>2. QED BY <1>1, <2>1, SenderLeavesSpacing
<1>4. CASE ledger[c0].state = "success"
  <2>1. ledger' = ledger
    BY <1>1, <1>4 DEF SetRow, FailedBeforeSend, IInv, TypeOK
  <2>2. QED BY <1>1, <2>1, LeaveKeepsSpacing DEF Sending, At
<1>5. QED BY <1>2, <1>3, <1>4

LEMMA OutcomeSpacing ==
  ASSUME IInv, TypeOK', SInv, NEW x \in Callers, Sending(x), NEW r, Leave(x, r),
         NEW s \in {"success", "failed", "uncertain"}, s = "failed" => ~Unsent(x),
         SetRow(Course(x), Finished(ledger[Course(x)], s, now)), UNCHANGED <<sentAt, now>>
  PROVE  SInv'
<1> DEFINE c0 == Course(x)
           row == Finished(ledger[c0], s, now)
<1>1. c0 \in Courses /\ ledger[c0].state # "none" /\ ledger[c0] \in Row
  BY DEF IInv, CallOK, Sending, At, TypeOK
<1>2. row.updated = now /\ row.state = s /\ row.attempts = ledger[c0].attempts
  BY <1>1 DEF Finished, Row
<1>3. s = "failed" => Len(sentAt[c0]) = row.attempts
  <2>1. Len(sentAt[c0]) \in Nat
    BY <1>1, SentTypes DEF IInv
  <2>2. ~Unsent(x) => ledger[c0].attempts = Len(sentAt[c0]) + 0
    BY DEF SInv, Attempted
  <2>3. QED BY <1>2, <2>1, <2>2
<1>4. QED BY <1>2, <1>3, SenderLeavesSpacing

LEMMA ClaimSpacing ==
  ASSUME IInv, TypeOK', SInv, NEW x \in Callers, NEW t, SigninVerdict(x, t) = "granted",
         Course(x) \in Courses, ~Sending(x), call[x].wire = "none",
         SetRow(Course(x), Claimed(ledger[Course(x)], now)),
         call' = [call EXCEPT ![x].pc = "claimed", ![x].schoolNow = t],
         UNCHANGED <<sentAt, now>>
  PROVE  SInv'
<1> DEFINE c0 == Course(x)
           n == Len(sentAt[c0])
<1>0. TypeOK /\ Counted /\ CallOK
  BY DEF IInv
<1>1. ledger[c0].state \in {"none", "failed"} /\ ledger[c0] \in Row
  BY <1>0, GrantedRow, SentTypes
<1>2. /\ ledger'[c0] = Claimed(ledger[c0], now)
      /\ \A c \in Courses \ {c0} : ledger'[c] = ledger[c]
  BY <1>0 DEF SetRow, TypeOK
<1>3. /\ ledger'[c0].state = "pending" /\ ledger'[c0].updated = now
      /\ ledger'[c0].attempts = ledger[c0].attempts + 1
  BY <1>2 DEF Claimed
<1>4. /\ \A y \in Callers \ {x} : call'[y] = call[y]
      /\ call'[x] = [call[x] EXCEPT !.pc = "claimed", !.schoolNow = t]
      /\ call[x] \in CallType
  BY <1>0 DEF TypeOK
<1>5. Course(x)' = c0 /\ Unsent(x)'
  BY <1>4 DEF CallType, Course, Unsent, Sending
<1>6. \A y \in Callers \ {x} :
        /\ Course(y)' = Course(y) /\ (Unsent(y)' <=> Unsent(y)) /\ (Sending(y)' <=> Sending(y))
        /\ Sending(y) => Course(y) \in Courses \ {c0}
  BY <1>0, <1>1, <1>4 DEF CallOK, Sending, Unsent, Course, At
<1>7. Attempted'
  <2>1. ledger'[c0].attempts = n + 1
    BY <1>1, <1>3 DEF SInv, Attempted
  <2>2. ASSUME NEW c \in Courses, ledger'[c].state \in {"none", "failed"}
        PROVE  Len(sentAt'[c]) = ledger'[c].attempts
    BY <1>2, <1>3, <2>2 DEF SInv, Attempted
  <2>3. ASSUME NEW y \in Callers, Sending(y)'
        PROVE  ledger'[Course(y)'].attempts
                 = Len(sentAt'[Course(y)']) + (IF Unsent(y)' THEN 1 ELSE 0)
    <3>1. CASE y = x
      BY <1>5, <2>1, <3>1
    <3>2. CASE y # x
      BY <1>2, <1>6, <2>3, <3>2 DEF SInv, Attempted
    <3>3. QED BY <3>1, <3>2
  <2>4. QED BY <2>2, <2>3 DEF Attempted
<1>8. Timed'
  <2>1. ASSUME NEW c \in Courses
        PROVE  /\ ledger'[c].updated <= now'
               /\ \A i \in 1 .. Len(sentAt'[c]) :
                    /\ sentAt'[c][i] <= now'
                    /\ ledger'[c].state = "failed" => sentAt'[c][i] <= ledger'[c].updated
    <3>1. CASE c = c0
      BY <1>0, <1>3, <3>1, SentTypes DEF SInv, Timed
    <3>2. CASE c # c0
      BY <1>2, <3>2 DEF SInv, Timed
    <3>3. QED BY <3>1, <3>2
  <2>2. ASSUME NEW y \in Callers, Unsent(y)', NEW c, c = Course(y)', Len(sentAt'[c]) > 0
        PROVE  (sentAt[c][Len(sentAt[c])] + PauseAfter(c, Len(sentAt[c])) <= ledger[c].updated)'
    <3>1. PauseAfter(c, Len(sentAt[c]))' = PauseAfter(c, Len(sentAt[c]))
      BY DEF PauseAfter, GroupPause
    <3>2. CASE y = x
      <4>1. sentAt[c][Len(sentAt[c])] + PauseAfter(c, Len(sentAt[c])) <= now
        BY <1>0, <1>5, <2>2, <3>2, GrantedPause
      <4>2. QED BY <1>3, <1>5, <2>2, <3>1, <3>2, <4>1
    <3>3. CASE y # x
      <4>1. Unsent(y) /\ c = Course(y) /\ c \in Courses \ {c0}
        BY <1>6, <2>2, <3>3 DEF Unsent
      <4>2. QED BY <1>2, <2>2, <3>1, <4>1 DEF SInv, Timed
    <3>4. QED BY <3>2, <3>3
  <2>3. QED BY <2>1, <2>2 DEF Timed
<1>9. Spaced'
  BY DEF SInv, Spaced, GroupPause
<1>10. QED BY <1>7, <1>8, <1>9 DEF SInv

LEMMA TransmitSpacing ==
  ASSUME IInv, TypeOK', SInv, NEW x \in Callers, Transmit(x)
  PROVE  SInv'
<1> DEFINE c0 == Course(x)
           n == Len(sentAt[c0])
<1>0. TypeOK /\ UNCHANGED <<ledger, now>> /\ now \in Nat
  BY DEF IInv, TypeOK, Transmit
<1>1. Unsent(x) /\ Sending(x) /\ c0 \in Courses
  BY DEF Transmit, At, Unsent, Sending, IInv, CallOK
<1>2. /\ \A y \in Callers \ {x} : call'[y] = call[y]
      /\ call'[x] = [call[x] EXCEPT !.wire = "sent"] /\ call[x] \in CallType
  BY <1>0 DEF Transmit, TypeOK
<1>3. /\ sentAt'[c0] = Append(sentAt[c0], now)
      /\ \A c \in Courses \ {c0} : sentAt'[c] = sentAt[c]
  BY <1>0, <1>1 DEF Transmit, TypeOK
<1>4. /\ n \in Nat /\ Len(sentAt'[c0]) = n + 1 /\ sentAt'[c0][n + 1] = now
      /\ \A i \in 1 .. n : sentAt'[c0][i] = sentAt[c0][i]
  BY <1>0, <1>1, <1>3, SentTypes
<1>5. \A y \in Callers :
        /\ Course(y)' = Course(y) /\ (Sending(y)' <=> Sending(y))
        /\ y # x => (Unsent(y)' <=> Unsent(y))
        /\ y # x /\ Sending(y) => Course(y) \in Courses \ {c0}
  BY <1>1, <1>2 DEF Course, Sending, Unsent, CallType, IInv, OneSender, CallOK, At
<1>6. ~Unsent(x)'
  BY <1>2 DEF Unsent, CallType
<1>7. ledger[c0].attempts = n + 1 /\ ledger[c0].state \in {"pending", "success"}
  BY <1>1 DEF SInv, Attempted, IInv, CallOK
<1>8. Attempted'
  <2>1. ASSUME NEW c \in Courses, ledger'[c].state \in {"none", "failed"}
        PROVE  Len(sentAt'[c]) = ledger'[c].attempts
    BY <1>0, <1>3, <1>7, <2>1 DEF SInv, Attempted
  <2>2. ASSUME NEW y \in Callers, Sending(y)'
        PROVE  ledger'[Course(y)'].attempts
                 = Len(sentAt'[Course(y)']) + (IF Unsent(y)' THEN 1 ELSE 0)
    <3>1. CASE y = x
      BY <1>0, <1>4, <1>5, <1>6, <1>7, <3>1
    <3>2. CASE y # x
      BY <1>0, <1>3, <1>5, <2>2, <3>2 DEF SInv, Attempted
    <3>3. QED BY <3>1, <3>2
  <2>3. QED BY <2>1, <2>2 DEF Attempted
<1>9. Timed'
  <2>1. ASSUME NEW c \in Courses
        PROVE  /\ ledger'[c].updated <= now'
               /\ \A i \in 1 .. Len(sentAt'[c]) :
                    /\ sentAt'[c][i] <= now'
                    /\ ledger'[c].state = "failed" => sentAt'[c][i] <= ledger'[c].updated
    <3>1. CASE c = c0
      BY <1>0, <1>4, <1>7, <3>1 DEF SInv, Timed
    <3>2. CASE c # c0
      BY <1>0, <1>3, <3>2 DEF SInv, Timed
    <3>3. QED BY <3>1, <3>2
  <2>2. ASSUME NEW y \in Callers, Unsent(y)', NEW c, c = Course(y)', Len(sentAt'[c]) > 0
        PROVE  (sentAt[c][Len(sentAt[c])] + PauseAfter(c, Len(sentAt[c])) <= ledger[c].updated)'
    <3>1. y # x /\ Unsent(y) /\ c = Course(y) /\ c \in Courses \ {c0}
      BY <1>5, <1>6, <2>2 DEF Unsent
    <3>2. sentAt'[c] = sentAt[c]
      BY <1>3, <3>1
    <3>3. PauseAfter(c, Len(sentAt[c]))' = PauseAfter(c, Len(sentAt[c]))
      BY <3>2 DEF PauseAfter, GroupPause
    <3>4. QED BY <1>0, <2>2, <3>1, <3>2, <3>3 DEF SInv, Timed
  <2>3. QED BY <2>1, <2>2 DEF Timed
<1>10. Spaced'
  <2>1. n > 0 => sentAt[c0][n] + PauseAfter(c0, n) <= now
    <3>1. SUFFICES ASSUME n > 0 PROVE sentAt[c0][n] + PauseAfter(c0, n) <= now
      OBVIOUS
    <3>2. sentAt[c0][n] + PauseAfter(c0, n) <= ledger[c0].updated /\ ledger[c0].updated <= now
      BY <1>1, <3>1 DEF SInv, Timed
    <3>3. n \in 1 .. n
      BY <1>4, <3>1
    <3>4. sentAt[c0][n] \in Nat /\ PauseAfter(c0, n) \in Nat /\ ledger[c0].updated \in Nat
      BY <1>0, <1>1, <3>3, SentTypes, PauseFacts
    <3>5. QED BY <1>0, <3>2, <3>4
  <2>2. ASSUME NEW c \in Courses, NEW k \in 1 .. Len(sentAt'[c]), NEW i \in 1 .. k
        PROVE  /\ sentAt'[c][k] - sentAt'[c][i] >= (k - i) * ShortDelay
               /\ \A j \in i .. k - 1 : j % Burst = 0 =>
                    sentAt'[c][k] - sentAt'[c][i] >= GroupPause(c, j)' + (k - i - 1) * ShortDelay
    <3>1. CASE c = c0
      BY <1>0, <1>1, <1>3, <2>1, <2>2, <3>1, SpacedAppend
    <3>2. CASE c # c0
      <4>1. sentAt'[c] = sentAt[c]
        BY <1>3, <3>2
      <4>2. \A j \in i .. k - 1 : GroupPause(c, j)' = GroupPause(c, j)
        BY <4>1 DEF GroupPause
      <4>3. QED BY <2>2, <4>1, <4>2 DEF SInv, Spaced
    <3>3. QED BY <3>1, <3>2
  <2>3. QED BY <2>2 DEF Spaced
<1>11. QED BY <1>8, <1>9, <1>10 DEF SInv

LEMMA SpacingStep == IInv /\ SInv /\ [Next]_vars => SInv'
<1> SUFFICES ASSUME IInv, SInv, [Next]_vars PROVE SInv'
  OBVIOUS
<1>0. TypeOK' /\ IInv' /\ TypeOK
  BY InvStep DEF IInv
<1>a. now \in Nat /\ (UNCHANGED now => now' >= now)
  BY DEF IInv, TypeOK
<1>1. ASSUME NEW x \in Callers, NEW c \in Courses, Call(x, c) PROVE SInv'
  <2>1. /\ \A y \in Callers \ {x} : call'[y] = call[y]
        /\ call'[x] = [call[x] EXCEPT !.pc = "lock", !.course = c] /\ call[x] \in CallType
    BY <1>1 DEF Call, IInv, TypeOK
  <2>2. call[x].wire = "none"
    BY <1>1 DEF Call, IInv, CallOK, At
  <2>3. /\ call'[x].pc = "lock" /\ call'[x].course = c
        /\ call'[x].wire = call[x].wire
    BY <2>1 DEF CallType
  <2>4. Calm(x)'
    BY <2>2, <2>3 DEF Calm, Sending, At, Course
  <2>5. QED BY <1>0, <1>1, <1>a, <2>1, <2>4, SpacingCalm DEF Call, history
<1>2. ASSUME NEW x \in Callers, NEW ok \in BOOLEAN, Enter(x, ok) PROVE SInv'
  <2>1. CASE ok
    <3>1. Goto(x, "list") \/ Goto(x, "login")
      BY <1>2, <2>1 DEF Enter
    <3>2. ~At(x, "idle") /\ ~At(x, "post")
      BY <1>2 DEF Enter, At
    <3>3. \A y \in Callers : call'[y] = call[y] \/ Calm(y)'
      BY <3>1, <3>2, GotoCalm
    <3>4. QED BY <1>0, <1>2, <1>a, <3>3, SpacingCalm DEF Enter, history
  <2>2. CASE ~ok
    BY <1>0, <1>2, <2>2, LeaveKeepsSpacing DEF Enter, At, history
  <2>3. QED BY <2>1, <2>2
<1>3. ASSUME NEW x \in Callers, NEW ok \in BOOLEAN, Recheck(x, ok) PROVE SInv'
  <2>1. At(x, "claimed") /\ Sending(x) /\ Unsent(x) /\ UNCHANGED <<sentAt, now>>
    BY <1>3 DEF Recheck, At, Sending, Unsent, IInv, CallOK, history
  <2>2. CASE SetRow(Course(x), Finished(ledger[Course(x)], "uncertain", now))
             /\ Leave(x, "error")
    BY <1>0, <2>1, <2>2, OutcomeSpacing
  <2>3. CASE SetRow(Course(x), FailedBeforeSend(ledger[Course(x)], now))
             /\ Leave(x, "false")
    BY <1>0, <2>1, <2>3, RefundSpacing
  <2>4. CASE /\ call' = [call EXCEPT ![x].pc = "post", ![x].wire = "unsent"]
             /\ UNCHANGED <<ledger, lock>>
    <3>1. /\ \A y \in Callers \ {x} : call'[y] = call[y]
          /\ call'[x] = [call[x] EXCEPT !.pc = "post", !.wire = "unsent"]
          /\ call[x] \in CallType
      BY <2>4 DEF IInv, TypeOK
    <3>2. \A y \in Callers : Sending(y)' =>
            Sending(y) /\ Course(y)' = Course(y) /\ (Unsent(y)' <=> Unsent(y))
      BY <2>1, <3>1 DEF CallType, Sending, Unsent, Course
    <3>3. QED BY <1>0, <1>a, <2>1, <2>4, <3>2, SpacingQuiet DEF IInv
  <2>5. QED BY <1>3, <2>2, <2>3, <2>4 DEF Recheck
<1>4. ASSUME NEW x \in Callers, LoginDone(x) PROVE SInv'
  <2>1. ~At(x, "idle") /\ ~At(x, "post") /\ UNCHANGED <<ledger, sentAt, now>>
    BY <1>4 DEF LoginDone, At, history
  <2>2. CASE Goto(x, "list")
    BY <1>0, <1>a, <2>1, <2>2, GotoCalm, SpacingCalm
  <2>3. CASE Leave(x, "false")
    BY <1>0, <2>1, <2>3, LeaveKeepsSpacing
  <2>4. QED BY <1>4, <2>2, <2>3 DEF LoginDone
<1>5. ASSUME NEW x \in Callers, ListDone(x) PROVE SInv'
  <2>1. ~At(x, "idle") /\ ~At(x, "post") /\ Course(x) \in Courses /\ UNCHANGED <<sentAt, now>>
    BY <1>5 DEF ListDone, At, history, IInv, CallOK
  <2>2. CASE SetRow(Course(x), Confirmed(ledger[Course(x)], now)) /\ Leave(x, "true")
    <3>1. \A y \in Callers : call'[y] = call[y] \/ Calm(y)'
      BY <2>1, <2>2, LeaveCalm DEF IInv
    <3>2. /\ \A c \in Courses : ledger'[c].attempts = ledger[c].attempts
          /\ \A c \in Courses : \/ ledger'[c] = ledger[c]
                                \/ ledger'[c].updated = now' /\ ledger'[c].state = "success"
      BY <2>1, <2>2 DEF SetRow, Confirmed, IInv, TypeOK
    <3>3. \A y \in Callers : Sending(y)' =>
            /\ Sending(y) /\ Course(y)' = Course(y) /\ (Unsent(y)' <=> Unsent(y))
            /\ ledger'[Course(y)].attempts = ledger[Course(y)].attempts
      BY <3>1, <3>2 DEF Calm, Sending, Unsent, Course, IInv, CallOK, At
    <3>4. QED BY <1>0, <1>a, <2>1, <3>2, <3>3, SpacingQuiet DEF IInv
  <2>3. CASE Goto(x, "time") /\ UNCHANGED ledger
    BY <1>0, <1>a, <2>1, <2>3, GotoCalm, SpacingCalm
  <2>4. CASE Leave(x, "false") /\ UNCHANGED ledger
    BY <1>0, <2>1, <2>4, LeaveKeepsSpacing
  <2>5. QED BY <1>5, <2>2, <2>3, <2>4 DEF ListDone
<1>6. ASSUME NEW x \in Callers, NEW ok \in BOOLEAN, NEW t \in 0 .. Horizon,
             TimeDone(x, ok, t)
      PROVE SInv'
  <2>1. ~At(x, "idle") /\ Course(x) \in Courses /\ UNCHANGED <<sentAt, now>> /\ ~Sending(x)
        /\ call[x].wire = "none"
    BY <1>6 DEF TimeDone, At, IInv, CallOK, history, Sending
  <2>2. CASE /\ SigninVerdict(x, t) = "granted"
             /\ SetRow(Course(x), Claimed(ledger[Course(x)], now))
             /\ call' = [call EXCEPT ![x].pc = "claimed", ![x].schoolNow = t]
    BY <1>0, <2>1, <2>2, ClaimSpacing
  <2>3. CASE (Leave(x, "true") \/ Leave(x, "false")) /\ UNCHANGED ledger
    BY <1>0, <2>1, <2>3, LeaveKeepsSpacing
  <2>4. QED BY <1>6, <2>2, <2>3 DEF TimeDone
<1>7. ASSUME NEW x \in Callers, ConnectFails(x) PROVE SInv'
  <2>1. Unsent(x) /\ UNCHANGED <<sentAt, now>>
    BY <1>7 DEF ConnectFails, At, Unsent, Sending, history
  <2>2. QED BY <1>0, <1>7, <2>1, RefundSpacing DEF ConnectFails
<1>8. ASSUME NEW x \in Callers, Response(x) PROVE SInv'
  <2>1. Sending(x) /\ ~Unsent(x) /\ UNCHANGED <<sentAt, now>>
    BY <1>8 DEF Response, At, Sending, Unsent
  <2>2. PICK s \in {"success", "failed"} :
          /\ SetRow(Course(x), Finished(ledger[Course(x)], s, now))
          /\ \E r \in Results : Leave(x, r)
    BY <1>8 DEF Response, Results
  <2>3. QED BY <1>0, <2>1, <2>2, OutcomeSpacing
<1>9. ASSUME NEW x \in Callers, CancelWait(x) PROVE SInv'
  <2>1. /\ \A y \in Callers \ {x} : call'[y] = call[y]
        /\ call'[x] = [call[x] EXCEPT !.pc = "returned", !.result = "cancelled"]
        /\ call[x] \in CallType
    BY <1>9 DEF CancelWait, IInv, TypeOK
  <2>2. call[x].wire = "none" /\ Course(x) \in Courses
    BY <1>9 DEF CancelWait, IInv, CallOK, At
  <2>3. /\ call'[x].pc = "returned" /\ call'[x].course = call[x].course
        /\ call'[x].wire = call[x].wire
    BY <2>1 DEF CallType
  <2>4. Calm(x)'
    BY <2>2, <2>3 DEF Calm, Sending, At, Course
  <2>5. QED BY <1>0, <1>9, <1>a, <2>1, <2>4, SpacingCalm DEF CancelWait, history
<1>10. ASSUME NEW x \in Callers, Return(x) PROVE SInv'
  <2>1. \A y \in Callers : call'[y] = call[y] \/ Calm(y)'
    BY <1>10 DEF Return, Idle, IInv, TypeOK, Calm, Sending, At
  <2>2. QED BY <1>0, <1>10, <1>a, <2>1, SpacingCalm DEF Return, history
<1>11. ASSUME NEW x \in Callers, NEW r \in {"error", "cancelled"}, ReadFails(x, r)
       PROVE SInv'
  BY <1>0, <1>11, LeaveKeepsSpacing DEF ReadFails, At, history
<1>12. ASSUME NEW x \in Callers, NEW r \in {"error", "cancelled"}, ResponseLost(x, r)
       PROVE SInv'
  <2>1. Sending(x) /\ UNCHANGED <<sentAt, now>>
    BY <1>12 DEF ResponseLost, At, Sending, history
  <2>2. QED BY <1>0, <1>12, <2>1, OutcomeSpacing DEF ResponseLost
<1>13. ASSUME NEW x \in Callers, Transmit(x) PROVE SInv'
  BY <1>0, <1>13, TransmitSpacing
<1>14. ASSUME NEW x \in Callers, NEW a \in {"accepted", "refused", "denied"},
              SchoolHandles(x, a)
       PROVE SInv'
  <2>1. /\ \A y \in Callers \ {x} : call'[y] = call[y]
        /\ call'[x] = [call[x] EXCEPT !.wire = a] /\ call[x] \in CallType
    BY <1>14 DEF SchoolHandles, IInv, TypeOK
  <2>2. \A y \in Callers : Sending(y)' =>
          Sending(y) /\ Course(y)' = Course(y) /\ (Unsent(y)' <=> Unsent(y))
    BY <1>14, <2>1 DEF SchoolHandles, Course, Sending, Unsent, CallType
  <2>3. QED BY <1>0, <1>14, <1>a, <2>2, SpacingQuiet DEF SchoolHandles, IInv, history
<1>15. ASSUME UNCHANGED <<ledger, call, sentAt>>, now' >= now PROVE SInv'
  BY <1>0, <1>15, SpacingCalm
<1>16. CASE Crash
  <2>1. \A y \in Callers : Calm(y)'
    BY <1>16 DEF Crash, Idle, Calm, Sending, At
  <2>2. QED BY <1>0, <1>16, <1>a, <2>1, SpacingCalm DEF Crash, history
<1>17. CASE Tick
  BY <1>15, <1>17, <1>a DEF Tick, history
<1>18. QED
  BY <1>1, <1>2, <1>3, <1>4, <1>5, <1>6, <1>7, <1>8, <1>9, <1>10, <1>11, <1>12,
     <1>13, <1>14, <1>15, <1>16, <1>17, <1>a
     DEF Next, Coroutine, Network, StrayHandled, SignedElsewhere,
         SessionRefreshed, vars, history

LEMMA SpacingInit == Init => SInv
<1> SUFFICES ASSUME Init PROVE SInv
  OBVIOUS
<1>1. \A c \in Courses : Len(sentAt[c]) = 0 /\ 1 .. Len(sentAt[c]) = {}
  BY DEF Init
<1>2. \A c \in Courses : ledger[c].attempts = 0 /\ ledger[c].updated = 0 /\ now = 0
  BY DEF Init, NoRow
<1>3. \A x \in Callers : ~Sending(x) /\ ~Unsent(x)
  BY DEF Init, Sending, Unsent, Idle
<1>4. Attempted
  BY <1>1, <1>2, <1>3 DEF Attempted
<1>5. Timed
  BY <1>1, <1>2, <1>3 DEF Timed
<1>6. Spaced
  BY <1>1 DEF Spaced
<1>7. QED BY <1>4, <1>5, <1>6 DEF SInv

LEMMA SpacingFollows == IInv /\ SInv => GroupSpacing
<1> SUFFICES ASSUME IInv, SInv, NEW c \in Courses, NEW i \in 1 .. Len(sentAt[c]) - Burst,
                    NEW j \in i .. i + Burst - 1, j % Burst = 0
             PROVE  sentAt[c][i + Burst] - sentAt[c][i]
                      >= GroupPause(c, j) + (Burst - 1) * ShortDelay
  BY DEF GroupSpacing
<1>1. Len(sentAt[c]) \in Nat /\ Burst \in Nat \ {0}
  BY SentTypes, PolicyAssumption DEF IInv
<1> DEFINE k == i + Burst
<1>2. k \in 1 .. Len(sentAt[c]) /\ i \in 1 .. k /\ j \in i .. k - 1 /\ k - i - 1 = Burst - 1
  BY <1>1
<1>3. QED BY <1>2 DEF SInv, Spaced

(***************************************************************************)
(* Burst + 1 requests in a row for a lesson are at least a group pause and *)
(* the spacings inside the groups apart, over any number of clients,       *)
(* refunds and crashes.                                                    *)
(***************************************************************************)
THEOREM Spacing == Spec => []GroupSpacing
<1>1. Init => SInv
  BY SpacingInit
<1>2. IInv /\ SInv /\ [Next]_vars => SInv'
  BY SpacingStep
<1>3. QED BY <1>1, <1>2, SpacingFollows, Invariance, PTL DEF Spec
-----------------------------------------------------------------------------
(***************************************************************************)
(* The refinement.  Whoever is inside holds the lock of its client, so     *)
(* with one client nobody confirms a lesson while a request for it is      *)
(* under way: its row is pending from the claim to the outcome.            *)
(***************************************************************************)
Entered(x) == call[x].pc \in Inside

LockHeld == \A x \in Callers : Entered(x) => lock[Client(x)] = x

ClaimPending == \A x \in Callers : Sending(x) => ledger[Course(x)].state = "pending"

SingleClient == \A x, y \in Callers : ClientOf[x] = ClientOf[y]

LEMMA OneInside ==
  ASSUME SingleClient, LockHeld, NEW x \in Callers, NEW y \in Callers,
         Entered(x), Entered(y)
  PROVE  x = y
BY DEF SingleClient, LockHeld, Client

LEMMA HeldKept ==
  ASSUME LockHeld, UNCHANGED lock, \A y \in Callers : Entered(y)' => Entered(y)
  PROVE  LockHeld'
BY DEF LockHeld, Client

LEMMA HeldLeave ==
  ASSUME TypeOK, LockHeld, NEW x \in Callers, NEW r, Leave(x, r),
         Entered(x) \/ lock[Client(x)] = Nobody
  PROVE  LockHeld' /\ ~Entered(x)' /\ \A y \in Callers \ {x} : call'[y] = call[y]
<1>1. /\ call'[x] = Returned(x, r)
      /\ \A y \in Callers \ {x} : call'[y] = call[y]
      /\ Client(x) \in Clients
      /\ \A k \in Clients \ {Client(x)} : lock'[k] = lock[k]
  BY SigninAssumption DEF Leave, TypeOK, Client
<1>2. ~Entered(x)'
  BY <1>1 DEF Returned, Entered, Inside
<1>3. \A y \in Callers \ {x} : Entered(y) => Client(y) \in Clients \ {Client(x)}
  BY <1>1, SigninAssumption DEF LockHeld, Client
<1>4. \A y \in Callers \ {x} : Entered(y)' => Entered(y)
  BY <1>1 DEF Entered
<1>5. QED BY <1>1, <1>2, <1>3, <1>4 DEF LockHeld, Client

LEMMA HeldStep == IInv /\ LockHeld /\ [Next]_vars => LockHeld'
<1> SUFFICES ASSUME IInv, LockHeld, [Next]_vars PROVE LockHeld'
  OBVIOUS
<1>0. TypeOK
  BY DEF IInv
<1>1. ASSUME NEW x \in Callers, NEW c \in Courses, Call(x, c) PROVE LockHeld'
  <2>1. \A y \in Callers : Entered(y)' => Entered(y)
    BY <1>0, <1>1 DEF Call, TypeOK, CallType, Entered, Inside
  <2>2. QED BY <1>1, <2>1, HeldKept DEF Call
<1>2. ASSUME NEW x \in Callers, NEW ok \in BOOLEAN, Enter(x, ok) PROVE LockHeld'
  <2>1. lock[Client(x)] = Nobody
    BY <1>2 DEF Enter
  <2>2. CASE ok
    <3>1. /\ lock' = [lock EXCEPT ![Client(x)] = x] /\ Client(x) \in Clients
          /\ \A y \in Callers \ {x} : call'[y] = call[y]
      BY <1>0, <1>2, <2>2, SigninAssumption DEF Enter, Goto, TypeOK, Client
    <3>2. \A y \in Callers : Entered(y) => Client(y) \in Clients \ {Client(x)}
      BY <2>1, SigninAssumption DEF LockHeld, Client
    <3>3. lock'[Client(x)] = x /\ \A k \in Clients \ {Client(x)} : lock'[k] = lock[k]
      BY <1>0, <3>1 DEF TypeOK
    <3>4. QED BY <3>1, <3>2, <3>3 DEF LockHeld, Entered, Client
  <2>3. CASE ~ok
    BY <1>0, <1>2, <2>1, <2>3, HeldLeave DEF Enter
  <2>4. QED BY <2>2, <2>3
<1>3. ASSUME NEW x \in Callers, NEW r, Leave(x, r), Entered(x) PROVE LockHeld'
  BY <1>0, <1>3, HeldLeave
<1>4. ASSUME NEW x \in Callers, Entered(x), UNCHANGED lock,
             \A y \in Callers \ {x} : call'[y] = call[y]
      PROVE  LockHeld'
  BY <1>4, HeldKept DEF Entered
<1>5. ASSUME NEW x \in Callers, NEW ok \in BOOLEAN, Recheck(x, ok) PROVE LockHeld'
  <2>1. Entered(x)
    BY <1>5 DEF Recheck, At, Entered, Inside
  <2>2. CASE call' = [call EXCEPT ![x].pc = "post", ![x].wire = "unsent"] /\ UNCHANGED lock
    BY <1>0, <1>4, <2>1, <2>2 DEF TypeOK
  <2>3. QED BY <1>3, <1>5, <2>1, <2>2 DEF Recheck
<1>6. ASSUME NEW x \in Callers, LoginDone(x) \/ ListDone(x) PROVE LockHeld'
  <2>1. Entered(x)
    BY <1>6 DEF LoginDone, ListDone, At, Entered, Inside
  <2>2. CASE (Goto(x, "list") \/ Goto(x, "time")) /\ UNCHANGED lock
    BY <1>0, <1>4, <2>1, <2>2 DEF TypeOK, Goto
  <2>3. QED BY <1>3, <1>6, <2>1, <2>2 DEF LoginDone, ListDone
<1>7. ASSUME NEW x \in Callers, NEW ok \in BOOLEAN, NEW t \in 0 .. Horizon,
             TimeDone(x, ok, t)
      PROVE LockHeld'
  <2>1. Entered(x)
    BY <1>7 DEF TimeDone, At, Entered, Inside
  <2>2. CASE /\ call' = [call EXCEPT ![x].pc = "claimed", ![x].schoolNow = t]
             /\ UNCHANGED lock
    BY <1>0, <1>4, <2>1, <2>2 DEF TypeOK
  <2>3. QED BY <1>3, <1>7, <2>1, <2>2 DEF TimeDone
<1>8. ASSUME NEW x \in Callers, ConnectFails(x) \/ Response(x) PROVE LockHeld'
  <2>1. Entered(x)
    BY <1>8 DEF ConnectFails, Response, At, Entered, Inside
  <2>2. QED BY <1>3, <1>8, <2>1 DEF ConnectFails, Response
<1>9. ASSUME NEW x \in Callers, CancelWait(x) PROVE LockHeld'
  <2>1. \A y \in Callers : Entered(y)' => Entered(y)
    BY <1>0, <1>9 DEF CancelWait, TypeOK, CallType, Entered, Inside
  <2>2. QED BY <1>9, <2>1, HeldKept DEF CancelWait
<1>10. ASSUME NEW x \in Callers, Return(x) PROVE LockHeld'
  <2>1. \A y \in Callers : Entered(y)' => Entered(y)
    BY <1>0, <1>10 DEF Return, Idle, TypeOK, Entered, Inside
  <2>2. QED BY <1>10, <2>1, HeldKept DEF Return
<1>11. ASSUME NEW x \in Callers, NEW r \in {"error", "cancelled"},
              ReadFails(x, r) \/ ResponseLost(x, r)
       PROVE LockHeld'
  <2>1. Entered(x)
    BY <1>11 DEF ReadFails, ResponseLost, At, Entered, Inside
  <2>2. QED BY <1>3, <1>11, <2>1 DEF ReadFails, ResponseLost
<1>12. ASSUME NEW x \in Callers, Network(x) PROVE LockHeld'
  <2>1. Entered(x) /\ UNCHANGED lock
    BY <1>12 DEF Network, Transmit, SchoolHandles, At, Entered, Inside
  <2>2. \A y \in Callers \ {x} : call'[y] = call[y]
    BY <1>0, <1>12 DEF Network, Transmit, SchoolHandles, TypeOK
  <2>3. QED BY <1>4, <2>1, <2>2
<1>13. CASE Crash
  BY <1>13 DEF Crash, Idle, LockHeld, Entered, Inside
<1>14. ASSUME UNCHANGED <<call, lock>> PROVE LockHeld'
  BY <1>14, HeldKept DEF Entered
<1>15. QED
  BY <1>1, <1>2, <1>5, <1>6, <1>7, <1>8, <1>9, <1>10, <1>11, <1>12, <1>13, <1>14
     DEF Next, Coroutine, StrayHandled, SignedElsewhere, SessionRefreshed, Tick, vars

\* What a row written and a request sent are to the abstract write.
LEMMA RowWritten ==
  ASSUME TypeOK, NEW c0 \in Courses, NEW row, SetRow(c0, row), UNCHANGED sentAt
  PROVE  /\ [c \in Courses |-> Permit(ledger'[c])]
              = [[c \in Courses |-> Permit(ledger[c])] EXCEPT ![c0] = Permit(row)]
         /\ [c \in Courses |-> ledger'[c].attempts]
              = [[c \in Courses |-> ledger[c].attempts] EXCEPT ![c0] = row.attempts]
         /\ [c \in Courses |-> Len(sentAt'[c])] = [c \in Courses |-> Len(sentAt[c])]
BY DEF TypeOK, SetRow

LEMMA SameRow ==
  ASSUME TypeOK, NEW c0 \in Courses, NEW row, SetRow(c0, row), UNCHANGED sentAt,
         Permit(row) = Permit(ledger[c0]), row.attempts = ledger[c0].attempts
  PROVE  UNCHANGED Write!wvars
<1>1. \A c \in Courses : ledger'[c] = IF c = c0 THEN row ELSE ledger[c]
  BY DEF TypeOK, SetRow
<1>2. /\ [c \in Courses |-> Permit(ledger'[c])] = [c \in Courses |-> Permit(ledger[c])]
      /\ [c \in Courses |-> ledger'[c].attempts] = [c \in Courses |-> ledger[c].attempts]
  BY <1>1
<1>3. QED BY <1>2 DEF Write!wvars

LEMMA WriteAcquires ==
  ASSUME TypeOK, NEW c \in Courses, NEW row, SetRow(c, row), UNCHANGED sentAt,
         ledger[c].state \in {"none", "failed"}, ledger[c].attempts < MaxPosts,
         row.state = "pending", row.attempts = ledger[c].attempts + 1
  PROVE  Write!Acquire(c)
<1>0. /\ [d \in Courses |-> Permit(ledger'[d])]
           = [[d \in Courses |-> Permit(ledger[d])] EXCEPT ![c] = Permit(row)]
      /\ [d \in Courses |-> ledger'[d].attempts]
           = [[d \in Courses |-> ledger[d].attempts] EXCEPT ![c] = row.attempts]
      /\ [d \in Courses |-> Len(sentAt'[d])] = [d \in Courses |-> Len(sentAt[d])]
  BY RowWritten
<1>1. Permit(ledger[c]) = "free" /\ Permit(row) = "held"
  BY DEF Permit, Unsettled
<1>2. QED BY <1>0, <1>1 DEF Write!Acquire

LEMMA WriteWithdraws ==
  ASSUME TypeOK, NEW c \in Courses, NEW row, SetRow(c, row), UNCHANGED sentAt,
         ledger[c].state = "pending", Len(sentAt[c]) < ledger[c].attempts,
         row.state = "failed", row.attempts = ledger[c].attempts - 1
  PROVE  Write!Withdraw(c)
<1>0. /\ [d \in Courses |-> Permit(ledger'[d])]
           = [[d \in Courses |-> Permit(ledger[d])] EXCEPT ![c] = Permit(row)]
      /\ [d \in Courses |-> ledger'[d].attempts]
           = [[d \in Courses |-> ledger[d].attempts] EXCEPT ![c] = row.attempts]
      /\ [d \in Courses |-> Len(sentAt'[d])] = [d \in Courses |-> Len(sentAt[d])]
  BY RowWritten
<1>1. Permit(ledger[c]) = "held" /\ Permit(row) = "free"
  BY DEF Permit, Unsettled
<1>2. QED BY <1>0, <1>1 DEF Write!Withdraw

LEMMA WriteRefuses ==
  ASSUME TypeOK, NEW c \in Courses, NEW row, SetRow(c, row), UNCHANGED sentAt,
         ledger[c].state = "pending", Len(sentAt[c]) = ledger[c].attempts,
         row.state = "failed", row.attempts = ledger[c].attempts
  PROVE  Write!Refuse(c)
<1>0. /\ [d \in Courses |-> Permit(ledger'[d])]
           = [[d \in Courses |-> Permit(ledger[d])] EXCEPT ![c] = Permit(row)]
      /\ [d \in Courses |-> ledger'[d].attempts]
           = [[d \in Courses |-> ledger[d].attempts] EXCEPT ![c] = row.attempts]
      /\ [d \in Courses |-> Len(sentAt'[d])] = [d \in Courses |-> Len(sentAt[d])]
  BY RowWritten
<1>1. Permit(ledger[c]) = "held" /\ Permit(row) = "free"
  BY DEF Permit, Unsettled
<1>2. [d \in Courses |-> ledger'[d].attempts] = [d \in Courses |-> ledger[d].attempts]
  BY DEF TypeOK, SetRow
<1>3. QED BY <1>0, <1>1, <1>2 DEF Write!Refuse

LEMMA WriteCloses ==
  ASSUME TypeOK, NEW c \in Courses, NEW row, SetRow(c, row), UNCHANGED sentAt,
         row.state = "success", row.attempts = ledger[c].attempts
  PROVE  Write!Close(c) \/ UNCHANGED Write!wvars
<1>0. /\ [d \in Courses |-> Permit(ledger'[d])]
           = [[d \in Courses |-> Permit(ledger[d])] EXCEPT ![c] = Permit(row)]
      /\ [d \in Courses |-> ledger'[d].attempts]
           = [[d \in Courses |-> ledger[d].attempts] EXCEPT ![c] = row.attempts]
      /\ [d \in Courses |-> Len(sentAt'[d])] = [d \in Courses |-> Len(sentAt[d])]
  BY RowWritten
<1>1. Permit(row) = "closed"
  BY DEF Permit, Unsettled
<1>2. [d \in Courses |-> ledger'[d].attempts] = [d \in Courses |-> ledger[d].attempts]
  BY DEF TypeOK, SetRow
<1>3. CASE Permit(ledger[c]) = "closed"
  BY <1>1, <1>3, SameRow
<1>4. CASE Permit(ledger[c]) # "closed"
  BY <1>0, <1>1, <1>2, <1>4 DEF Write!Close
<1>5. QED BY <1>3, <1>4

LEMMA WriteDelivers ==
  ASSUME TypeOK, NEW c \in Courses, UNCHANGED ledger,
         sentAt' = [sentAt EXCEPT ![c] = Append(@, now)],
         ledger[c].state = "pending", Len(sentAt[c]) < ledger[c].attempts
  PROVE  Write!Deliver(c)
<1>1. Permit(ledger[c]) = "held"
  BY DEF Permit, Unsettled
<1>2. \A d \in Courses :
        Len(sentAt'[d]) = IF d = c THEN Len(sentAt[c]) + 1 ELSE Len(sentAt[d])
  BY DEF TypeOK
<1>3. [d \in Courses |-> Len(sentAt'[d])]
        = [d \in Courses |-> IF d = c THEN Len(sentAt[c]) + 1 ELSE Len(sentAt[d])]
  BY <1>2
<1>4. [d \in Courses |-> IF d = c THEN Len(sentAt[c]) + 1 ELSE Len(sentAt[d])]
        = [[d \in Courses |-> Len(sentAt[d])] EXCEPT ![c] = @ + 1]
  OBVIOUS
<1>5. QED BY <1>1, <1>3, <1>4 DEF Write!Deliver

LEMMA WriteStutters == UNCHANGED <<ledger, sentAt>> => UNCHANGED Write!wvars
BY DEF Write!wvars

\* The invariant under which every step is a step of the abstract write.
WInv == IInv /\ SInv /\ LockHeld /\ ClaimPending

WStep == [Write!WNext]_(Write!wvars)

\* Nobody else is inside: what is written is no other sender's row.
LEMMA PendingAlone ==
  ASSUME SingleClient, WInv, NEW x \in Callers, Entered(x),
         \A y \in Callers \ {x} : call'[y] = call[y],
         Sending(x)' => ledger'[Course(x)'].state = "pending"
  PROVE  ClaimPending'
<1>1. \A y \in Callers \ {x} : ~Sending(y)
  BY OneInside DEF WInv, Sending, Entered, Inside
<1>2. \A y \in Callers \ {x} : ~Sending(y)'
  BY <1>1 DEF Sending
<1>3. QED BY <1>2 DEF ClaimPending

\* A step that leaves the ledger and the history alone.
LEMMA QuietWrite ==
  ASSUME WInv, UNCHANGED <<ledger, sentAt>>,
         \A y \in Callers : Sending(y)' => Sending(y) /\ Course(y)' = Course(y)
  PROVE  ClaimPending' /\ WStep
BY WriteStutters DEF WInv, ClaimPending, WStep

LEMMA LeaveWrite ==
  ASSUME WInv, NEW x \in Callers, NEW r, Leave(x, r),
         Entered(x) \/ lock[Client(x)] = Nobody, UNCHANGED <<ledger, sentAt>>
  PROVE  ClaimPending' /\ WStep
<1>1. ~Entered(x)' /\ \A y \in Callers \ {x} : call'[y] = call[y]
  BY HeldLeave DEF WInv, IInv
<1>2. \A y \in Callers : Sending(y)' => Sending(y) /\ Course(y)' = Course(y)
  BY <1>1 DEF Sending, Entered, Inside, Course
<1>3. QED BY <1>2, QuietWrite

LEMMA GotoWrite ==
  ASSUME WInv, NEW x \in Callers, NEW p \in {"login", "list", "time"}, Goto(x, p),
         UNCHANGED <<ledger, sentAt>>
  PROVE  ClaimPending' /\ WStep
<1>1. /\ call[x] \in CallType /\ call'[x] = [call[x] EXCEPT !.pc = p]
      /\ \A y \in Callers \ {x} : call'[y] = call[y]
  BY DEF Goto, WInv, IInv, TypeOK
<1>2. call'[x].pc = p
  BY <1>1 DEF CallType
<1>3. \A y \in Callers : Sending(y)' => Sending(y) /\ Course(y)' = Course(y)
  BY <1>1, <1>2 DEF Sending, Course
<1>4. QED BY <1>3, QuietWrite

\* The sender leaves with the outcome of its request.
LEMMA OutcomeWrite ==
  ASSUME SingleClient, WInv, NEW x \in Callers, Sending(x), NEW r, Leave(x, r),
         NEW s \in {"success", "failed", "uncertain"}, s = "failed" => ~Unsent(x),
         SetRow(Course(x), Finished(ledger[Course(x)], s, now)), UNCHANGED sentAt
  PROVE  ClaimPending' /\ WStep
<1> DEFINE c == Course(x)
           row == Finished(ledger[c], s, now)
<1>1. /\ TypeOK /\ c \in Courses /\ ledger[c] \in Row
      /\ ledger[c].state = "pending"
  BY DEF WInv, IInv, CallOK, Sending, At, TypeOK, ClaimPending
<1>2. row.state = s /\ row.attempts = ledger[c].attempts
  BY <1>1 DEF Finished, Row
<1>3. ClaimPending'
  <2>1. ~Entered(x)' /\ \A y \in Callers \ {x} : call'[y] = call[y]
    BY HeldLeave DEF WInv, IInv, Sending, Entered, Inside
  <2>2. QED BY <2>1, PendingAlone DEF Sending, Entered, Inside
<1>4. WStep
  <2>1. CASE s = "uncertain"
    <3>1. Permit(row) = Permit(ledger[c])
      BY <1>1, <1>2, <2>1 DEF Permit, Unsettled
    <3>2. UNCHANGED Write!wvars
      BY <1>1, <1>2, <3>1, SameRow
    <3>3. QED BY <3>2 DEF WStep
  <2>2. CASE s = "success"
    <3>1. Write!Close(c) \/ UNCHANGED Write!wvars
      BY <1>1, <1>2, <2>2, WriteCloses
    <3>2. QED BY <1>1, <3>1 DEF WStep, Write!WNext
  <2>3. CASE s = "failed"
    <3>1. ledger[c].attempts = Len(sentAt[c])
      <4>1. ~Unsent(x) => ledger[c].attempts = Len(sentAt[c]) + 0
        BY DEF WInv, SInv, Attempted
      <4>2. Len(sentAt[c]) \in Nat
        BY <1>1, SentTypes
      <4>3. QED BY <2>3, <4>1, <4>2
    <3>2. Write!Refuse(c)
      BY <1>1, <1>2, <2>3, <3>1, WriteRefuses
    <3>3. QED BY <1>1, <3>2 DEF WStep, Write!WNext
  <2>4. QED BY <2>1, <2>2, <2>3
<1>5. QED BY <1>3, <1>4

\* The request did not leave: the permit is handed back.
LEMMA RefundWrite ==
  ASSUME SingleClient, WInv, NEW x \in Callers, Unsent(x), NEW r, Leave(x, r),
         SetRow(Course(x), FailedBeforeSend(ledger[Course(x)], now)), UNCHANGED sentAt
  PROVE  ClaimPending' /\ WStep
<1> DEFINE c == Course(x)
           row == FailedBeforeSend(ledger[c], now)
<1>1. /\ TypeOK /\ Sending(x) /\ c \in Courses /\ ledger[c] \in Row
      /\ ledger[c].state = "pending" /\ Len(sentAt[c]) < ledger[c].attempts
  BY DEF WInv, IInv, CallOK, Counted, Unsent, Sending, At, TypeOK, ClaimPending
<1>2. Len(sentAt[c]) \in Nat
  BY <1>1, SentTypes
<1>3. row.state = "failed" /\ row.attempts = ledger[c].attempts - 1
  BY <1>1, <1>2 DEF FailedBeforeSend, Row
<1>4. ~Entered(x)' /\ \A y \in Callers \ {x} : call'[y] = call[y]
  BY <1>1, HeldLeave DEF WInv, IInv, Sending, Entered, Inside
<1>5. ClaimPending'
  BY <1>1, <1>4, PendingAlone DEF Sending, Entered, Inside
<1>6. PICK d \in Courses : d = c
  BY <1>1
<1>7. Write!Withdraw(d)
  BY <1>1, <1>3, <1>6, WriteWithdraws
<1>8. QED BY <1>5, <1>7 DEF WStep, Write!WNext

LEMMA WriteStep ==
  ASSUME SingleClient, WInv, [Next]_vars
  PROVE  ClaimPending' /\ WStep
<1>0. TypeOK /\ CallOK
  BY DEF WInv, IInv
<1>1. ASSUME NEW x \in Callers, NEW c \in Courses, Call(x, c) PROVE ClaimPending' /\ WStep
  <2>1. /\ \A y \in Callers \ {x} : call'[y] = call[y]
        /\ call'[x] = [call[x] EXCEPT !.pc = "lock", !.course = c] /\ call[x] \in CallType
    BY <1>0, <1>1 DEF Call, TypeOK
  <2>2. call'[x].pc = "lock"
    BY <2>1 DEF CallType
  <2>3. \A y \in Callers : Sending(y)' => Sending(y) /\ Course(y)' = Course(y)
    BY <2>1, <2>2 DEF Sending, Course
  <2>4. QED BY <1>1, <2>3, QuietWrite DEF Call, history
<1>2. ASSUME NEW x \in Callers, NEW ok \in BOOLEAN, Enter(x, ok) PROVE ClaimPending' /\ WStep
  <2>1. lock[Client(x)] = Nobody /\ UNCHANGED <<ledger, sentAt>>
    BY <1>2 DEF Enter, history
  <2>2. Goto(x, "list") \/ Goto(x, "login") \/ Leave(x, "false")
    BY <1>2 DEF Enter
  <2>3. QED BY <2>1, <2>2, GotoWrite, LeaveWrite
<1>3. ASSUME NEW x \in Callers, NEW ok \in BOOLEAN, Recheck(x, ok)
      PROVE ClaimPending' /\ WStep
  <2>1. Sending(x) /\ Unsent(x) /\ UNCHANGED sentAt
    BY <1>0, <1>3 DEF Recheck, At, Sending, Unsent, CallOK, history
  <2>2. CASE SetRow(Course(x), Finished(ledger[Course(x)], "uncertain", now))
             /\ Leave(x, "error")
    BY <2>1, <2>2, OutcomeWrite
  <2>3. CASE SetRow(Course(x), FailedBeforeSend(ledger[Course(x)], now))
             /\ Leave(x, "false")
    BY <2>1, <2>3, RefundWrite
  <2>4. CASE call' = [call EXCEPT ![x].pc = "post", ![x].wire = "unsent"]
             /\ UNCHANGED <<ledger, lock>>
    <3>1. \A y \in Callers : Sending(y)' => Sending(y) /\ Course(y)' = Course(y)
      BY <1>0, <2>1, <2>4 DEF TypeOK, CallType, Sending, Course
    <3>2. QED BY <2>1, <2>4, <3>1, QuietWrite
  <2>5. QED BY <1>3, <2>2, <2>3, <2>4 DEF Recheck
<1>4. ASSUME NEW x \in Callers, LoginDone(x) PROVE ClaimPending' /\ WStep
  <2>1. Entered(x) /\ UNCHANGED <<ledger, sentAt>>
    BY <1>4 DEF LoginDone, At, Entered, Inside, history
  <2>2. Goto(x, "list") \/ Leave(x, "false")
    BY <1>4 DEF LoginDone
  <2>3. QED BY <2>1, <2>2, GotoWrite, LeaveWrite
<1>5. ASSUME NEW x \in Callers, ListDone(x) PROVE ClaimPending' /\ WStep
  <2>1. Entered(x) /\ UNCHANGED sentAt /\ Course(x) \in Courses
    BY <1>0, <1>5 DEF ListDone, At, Entered, Inside, history, CallOK
  <2>2. CASE SetRow(Course(x), Confirmed(ledger[Course(x)], now)) /\ Leave(x, "true")
    <3>1. ~Entered(x)' /\ \A y \in Callers \ {x} : call'[y] = call[y]
      BY <2>1, <2>2, HeldLeave DEF WInv, IInv
    <3>2. ClaimPending'
      BY <2>1, <3>1, PendingAlone DEF Sending, Entered, Inside
    <3>3. Write!Close(Course(x)) \/ UNCHANGED Write!wvars
      BY <1>0, <2>1, <2>2, WriteCloses DEF Confirmed
    <3>4. QED BY <2>1, <3>2, <3>3 DEF WStep, Write!WNext
  <2>3. CASE Goto(x, "time") /\ UNCHANGED <<ledger, lock>>
    BY <2>1, <2>3, GotoWrite
  <2>4. CASE Leave(x, "false") /\ UNCHANGED ledger
    BY <2>1, <2>4, LeaveWrite
  <2>5. QED BY <1>5, <2>2, <2>3, <2>4 DEF ListDone
<1>6. ASSUME NEW x \in Callers, NEW ok \in BOOLEAN, NEW t \in 0 .. Horizon,
             TimeDone(x, ok, t)
      PROVE ClaimPending' /\ WStep
  <2>1. Entered(x) /\ UNCHANGED sentAt /\ Course(x) \in Courses
    BY <1>0, <1>6 DEF TimeDone, At, Entered, Inside, history, CallOK
  <2>2. CASE /\ SigninVerdict(x, t) = "granted"
             /\ SetRow(Course(x), Claimed(ledger[Course(x)], now))
             /\ call' = [call EXCEPT ![x].pc = "claimed", ![x].schoolNow = t]
    <3> DEFINE c == Course(x)
               row == Claimed(ledger[c], now)
    <3>1. ledger[c] \in Row
      BY <1>0, <2>1 DEF TypeOK
    <3>2. ledger[c].state \in {"none", "failed"} /\ ledger[c].attempts < MaxPosts
      BY <2>1, <2>2, <3>1, GrantedRow, PolicyAssumption DEF WInv, IInv, Counted
    <3>3. row.state = "pending" /\ row.attempts = ledger[c].attempts + 1
      BY DEF Claimed
    <3>4. /\ \A y \in Callers \ {x} : call'[y] = call[y]
          /\ call'[x] = [call[x] EXCEPT !.pc = "claimed", !.schoolNow = t]
          /\ call[x] \in CallType
      BY <1>0, <2>2 DEF TypeOK
    <3>5. Course(x)' = c /\ ledger'[c] = row
      BY <1>0, <2>1, <2>2, <3>4 DEF CallType, Course, SetRow, TypeOK
    <3>6. ClaimPending'
      BY <2>1, <3>3, <3>4, <3>5, PendingAlone
    <3>7. PICK d \in Courses : d = c
      BY <2>1
    <3>8. /\ SetRow(d, row) /\ row.state = "pending"
          /\ row.attempts = ledger[d].attempts + 1
          /\ ledger[d].state \in {"none", "failed"} /\ ledger[d].attempts < MaxPosts
      BY <2>2, <3>2, <3>3, <3>7
    <3> HIDE DEF row
    <3>9. Write!Acquire(d)
      BY <1>0, <2>1, <3>8, WriteAcquires
    <3>10. QED BY <3>6, <3>9 DEF WStep, Write!WNext
  <2>3. CASE (Leave(x, "true") \/ Leave(x, "false")) /\ UNCHANGED ledger
    BY <2>1, <2>3, LeaveWrite
  <2>4. QED BY <1>6, <2>2, <2>3 DEF TimeDone
<1>7. ASSUME NEW x \in Callers, ConnectFails(x) PROVE ClaimPending' /\ WStep
  <2>1. Unsent(x) /\ UNCHANGED sentAt
    BY <1>7 DEF ConnectFails, At, Unsent, Sending, history
  <2>2. QED BY <1>7, <2>1, RefundWrite DEF ConnectFails
<1>8. ASSUME NEW x \in Callers, Response(x) PROVE ClaimPending' /\ WStep
  <2>1. Sending(x) /\ ~Unsent(x) /\ UNCHANGED sentAt
    BY <1>8 DEF Response, At, Sending, Unsent
  <2>2. PICK s \in {"success", "failed"} :
          /\ SetRow(Course(x), Finished(ledger[Course(x)], s, now))
          /\ \E r \in Results : Leave(x, r)
    BY <1>8 DEF Response, Results
  <2>3. QED BY <2>1, <2>2, OutcomeWrite
<1>9. ASSUME NEW x \in Callers, CancelWait(x) PROVE ClaimPending' /\ WStep
  <2>1. /\ \A y \in Callers \ {x} : call'[y] = call[y]
        /\ call'[x] = [call[x] EXCEPT !.pc = "returned", !.result = "cancelled"]
        /\ call[x] \in CallType
    BY <1>0, <1>9 DEF CancelWait, TypeOK
  <2>2. call'[x].pc = "returned"
    BY <2>1 DEF CallType
  <2>3. \A y \in Callers : Sending(y)' => Sending(y) /\ Course(y)' = Course(y)
    BY <2>1, <2>2 DEF Sending, Course
  <2>4. QED BY <1>9, <2>3, QuietWrite DEF CancelWait, history
<1>10. ASSUME NEW x \in Callers, Return(x) PROVE ClaimPending' /\ WStep
  <2>1. \A y \in Callers : Sending(y)' => Sending(y) /\ Course(y)' = Course(y)
    BY <1>0, <1>10 DEF Return, Idle, TypeOK, Sending, Course
  <2>2. QED BY <1>10, <2>1, QuietWrite DEF Return, history
<1>11. ASSUME NEW x \in Callers, NEW r \in {"error", "cancelled"}, ReadFails(x, r)
       PROVE ClaimPending' /\ WStep
  <2>1. Entered(x) /\ UNCHANGED <<ledger, sentAt>>
    BY <1>11 DEF ReadFails, Entered, Inside, history
  <2>2. QED BY <1>11, <2>1, LeaveWrite DEF ReadFails
<1>12. ASSUME NEW x \in Callers, NEW r \in {"error", "cancelled"}, ResponseLost(x, r)
       PROVE ClaimPending' /\ WStep
  <2>1. Sending(x) /\ UNCHANGED sentAt
    BY <1>12 DEF ResponseLost, At, Sending, history
  <2>2. QED BY <1>12, <2>1, OutcomeWrite DEF ResponseLost
<1>13. ASSUME NEW x \in Callers, Transmit(x) PROVE ClaimPending' /\ WStep
  <2> DEFINE c == Course(x)
  <2>1. Unsent(x) /\ Sending(x) /\ c \in Courses /\ UNCHANGED ledger
    BY <1>0, <1>13 DEF Transmit, At, Unsent, Sending, CallOK
  <2>2. ledger[c].state = "pending" /\ Len(sentAt[c]) < ledger[c].attempts
    BY <2>1 DEF WInv, IInv, Counted, ClaimPending
  <2>3. PICK d \in Courses : d = c
    BY <2>1
  <2>4. Write!Deliver(d)
    BY <1>0, <1>13, <2>1, <2>2, <2>3, WriteDelivers DEF Transmit
  <2>5. \A y \in Callers : Sending(y)' => Sending(y) /\ Course(y)' = Course(y)
    BY <1>0, <1>13, <2>1 DEF Transmit, TypeOK, CallType, Sending, Course
  <2>6. ClaimPending'
    BY <2>1, <2>5 DEF WInv, ClaimPending
  <2>7. QED BY <2>4, <2>6 DEF WStep, Write!WNext
<1>14. ASSUME NEW x \in Callers, NEW a \in {"accepted", "refused", "denied"},
              SchoolHandles(x, a)
       PROVE ClaimPending' /\ WStep
  <2>1. Sending(x) /\ UNCHANGED <<ledger, sentAt>>
    BY <1>14 DEF SchoolHandles, At, Sending, history
  <2>2. \A y \in Callers : Sending(y)' => Sending(y) /\ Course(y)' = Course(y)
    BY <1>0, <1>14, <2>1 DEF SchoolHandles, TypeOK, CallType, Sending, Course
  <2>3. QED BY <2>1, <2>2, QuietWrite
<1>15. CASE Crash
  <2>1. \A y \in Callers : ~Sending(y)'
    BY <1>15 DEF Crash, Idle, Sending
  <2>2. QED BY <1>15, <2>1, QuietWrite DEF Crash, history
<1>16. ASSUME UNCHANGED <<call, ledger, sentAt>> PROVE ClaimPending' /\ WStep
  BY <1>16, QuietWrite DEF Sending, Course
<1>17. QED
  BY <1>1, <1>2, <1>3, <1>4, <1>5, <1>6, <1>7, <1>8, <1>9, <1>10, <1>11, <1>12,
     <1>13, <1>14, <1>15, <1>16
     DEF Next, Coroutine, Network, StrayHandled, SignedElsewhere, SessionRefreshed,
         Tick, vars, history

(***************************************************************************)
(* With one client object, whatever its callers, perform_signin makes the  *)
(* abstract write: its lock keeps the row of a claim pending until the     *)
(* outcome of the request is recorded.                                     *)
(***************************************************************************)
THEOREM OneClientWrites ==
  ASSUME SingleClient
  PROVE  Spec => ImplementsWrite
<1>1. Init => Write!WInit /\ LockHeld /\ ClaimPending
  <2> SUFFICES ASSUME Init PROVE Write!WInit /\ LockHeld /\ ClaimPending
    OBVIOUS
  <2>1. /\ [c \in Courses |-> Permit(ledger[c])] = [c \in Courses |-> "free"]
        /\ [c \in Courses |-> ledger[c].attempts] = [c \in Courses |-> 0]
        /\ [c \in Courses |-> Len(sentAt[c])] = [c \in Courses |-> 0]
    BY DEF Init, NoRow, Permit, Unsettled
  <2>2. LockHeld /\ ClaimPending
    BY DEF Init, Idle, LockHeld, Entered, Inside, ClaimPending, Sending
  <2>3. QED BY <2>1, <2>2 DEF Write!WInit
<1>2. WInv /\ [Next]_vars => LockHeld' /\ ClaimPending' /\ [Write!WNext]_(Write!wvars)
  BY HeldStep, WriteStep DEF WInv, WStep
<1>3. Init => SInv
  BY SpacingInit
<1>4. IInv /\ SInv /\ [Next]_vars => SInv'
  BY SpacingStep
<1>5. QED BY <1>1, <1>2, <1>3, <1>4, Invariance, PTL DEF Spec, ImplementsWrite, Write!WSpec, WInv
=============================================================================
