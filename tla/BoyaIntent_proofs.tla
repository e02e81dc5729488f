------------------------- MODULE BoyaIntent_proofs -------------------------
(***************************************************************************)
(* What the daemon never selects.  What the student gave up: from an       *)
(* invariant that relates the intent to the exclusions, to the list last   *)
(* observed and to the calls under way (Intent).  The rival of a selection *)
(* in force or undecided: from one that relates accepted selections and    *)
(* open rows to the reservations and the official list (Kept).             *)
(***************************************************************************)
EXTENDS BoyaSelection_proofs

\* A lecture given up is excluded, or is in the last list observed and will be
\* excluded when it has gone from the list.
Remembered == history.declined \subseteq excluded \cup snapshot

\* An automatic selection of a lecture given up gets no further than the list.
LateFine(x) ==
  /\ At(x, "lock") => call[x].wire = "none"
  /\ call[x].late => /\ call[x].pc \in {"list", "observe"} /\ call[x].wire = "none"
                     /\ Automatic(x) /\ Course(x) \in history.declined

Intent == Remembered /\ \A x \in Callers : LateFine(x)

\* A step of a thread past the list, or one that ends its call.
LEMMA IntentKept ==
  ASSUME Intent, NEW x \in Callers,
         \A y \in Callers \ {x} : call'[y] = call[y],
         ~call'[x].late, call'[x].pc = "lock" => call'[x].wire = "none",
         history.declined \subseteq history'.declined, Remembered'
  PROVE  Intent'
<1>1. ASSUME NEW y \in Callers \ {x} PROVE LateFine(y)'
  BY <1>1 DEF Intent, LateFine, At, Automatic, Action, Course
<1>2. LateFine(x)'
  BY DEF LateFine, At
<1>3. QED BY <1>1, <1>2 DEF Intent

\* Observing a list keeps what was excluded or listed.
LEMMA ObservedKeeps ==
  ASSUME Remembered, NEW seen, ObserveSelected(seen), history'.declined = history.declined
  PROVE  Remembered'
BY DEF Remembered, ObserveSelected

LEMMA IntentInit == Init => Intent
BY DEF Init, Intent, Remembered, LateFine, Idle, At

LEMMA IntentStep == IInv /\ Intent /\ [Next]_vars => Intent'
<1> SUFFICES ASSUME IInv, Intent, [Next]_vars PROVE Intent'
  OBVIOUS
<1>a. TypeOK /\ CallOK
  BY DEF IInv
<1>b. ASSUME NEW x \in Callers, call[x].pc \notin {"list", "observe"} PROVE ~call[x].late
  BY <1>b DEF Intent, LateFine
<1>1. ASSUME NEW x \in Callers, NEW ask \in Asked[x], Ask(x, ask[1], ask[2]) PROVE Intent'
  <2>1. /\ ~call'[x].late /\ call'[x].wire = "none"
        /\ \A y \in Callers \ {x} : call'[y] = call[y]
        /\ history' = history /\ Remembered'
    BY <1>1, <1>a DEF Ask, durable, Intent, Remembered, TypeOK, Idle
  <2>2. QED BY <2>1, IntentKept
<1>2. ASSUME NEW x \in Callers, Enter(x) PROVE Intent'
  <2> DEFINE dropped == IF Action(x) = "drop" THEN {Course(x)} ELSE {}
  <2>1. /\ history'.declined = history.declined \cup dropped
        /\ excluded' = excluded \cup dropped /\ snapshot' = snapshot
    BY <1>2, <1>a DEF Enter, TypeOK
  <2>2. Remembered'
    BY <2>1 DEF Intent, Remembered
  <2>3. CASE Leave(x)
    <3>1. /\ ~call'[x].late /\ call'[x].pc = "idle"
          /\ \A y \in Callers \ {x} : call'[y] = call[y]
      BY <1>a, <2>3, LeaveStep
    <3>2. QED BY <2>1, <2>2, <3>1, IntentKept
  <2>4. CASE call' = [call EXCEPT ![x].pc = "list",
               ![x].late = Automatic(x) /\ Course(x) \in history.declined]
    <3>1. /\ call'[x].pc = "list" /\ call'[x].wire = call[x].wire
          /\ Action(x)' = Action(x) /\ Course(x)' = Course(x)
          /\ call'[x].late <=> Automatic(x) /\ Course(x) \in history.declined
          /\ \A y \in Callers \ {x} : call'[y] = call[y]
      BY <1>a, <2>4 DEF TypeOK, CallType, Action, Course
    <3>2. LateFine(x)'
      BY <1>2, <2>1, <3>1 DEF Enter, Intent, LateFine, At, Automatic
    <3>3. ASSUME NEW y \in Callers \ {x} PROVE LateFine(y)'
      BY <2>1, <3>1, <3>3 DEF Intent, LateFine, At, Automatic, Action, Course
    <3>4. QED BY <2>2, <3>2, <3>3 DEF Intent
  <2>5. QED BY <1>2, <2>3, <2>4 DEF Enter
<1>3. ASSUME NEW x \in Callers, ListReplies(x) PROVE Intent'
  <2>1. /\ Action(x)' = Action(x) /\ Course(x)' = Course(x) /\ call'[x].late = call[x].late
        /\ call[x].pc = "list" => call'[x].pc = "observe"
        /\ call'[x].pc # "lock" /\ call'[x].wire = call[x].wire
        /\ \A y \in Callers \ {x} : call'[y] = call[y]
    BY <1>3, <1>a DEF ListReplies, TypeOK, CallType, Action, Course, At
  <2>2. UNCHANGED <<history, excluded, snapshot>>
    BY <1>3 DEF ListReplies, durable
  <2>3. LateFine(x)'
    BY <1>3, <2>1, <2>2 DEF Intent, LateFine, At, Automatic, ListReplies
  <2>4. ASSUME NEW y \in Callers \ {x} PROVE LateFine(y)'
    BY <2>1, <2>2, <2>4 DEF Intent, LateFine, At, Automatic, Action, Course
  <2>5. QED BY <2>2, <2>3, <2>4 DEF Intent, Remembered
<1>4. ASSUME NEW x \in Callers, Leave(x), UNCHANGED <<excluded, snapshot>>,
             history'.declined = history.declined
      PROVE  Intent'
  <2>1. /\ ~call'[x].late /\ call'[x].pc = "idle"
        /\ \A y \in Callers \ {x} : call'[y] = call[y]
    BY <1>4, <1>a, LeaveStep
  <2>2. QED BY <1>4, <2>1, IntentKept DEF Intent, Remembered
<1>5. ASSUME NEW x \in Callers, Observed(x) PROVE Intent'
  <2>1. history'.declined = history.declined
    BY <1>5, <1>a DEF Observed, TypeOK
  <2>2. Remembered'
    BY <1>5, <2>1, ObservedKeeps DEF Observed, Intent
  <2>3. CASE Leave(x)
    <3>1. /\ ~call'[x].late /\ call'[x].pc = "idle"
          /\ \A y \in Callers \ {x} : call'[y] = call[y]
      BY <1>a, <2>3, LeaveStep
    <3>2. QED BY <2>1, <2>2, <3>1, IntentKept
  <2>4. CASE ~Leave(x)
    <3> DEFINE gone == excluded \cup (snapshot \ call[x].seen)
    <3>1. /\ Goto(x, "pool") \/ ToSubmit(x)
          /\ Automatic(x) => Course(x) \notin call[x].seen /\ Course(x) \notin gone
      BY <1>5, <2>4 DEF Observed, Automatic
    <3>2. /\ call'[x].late = call[x].late /\ call'[x].pc # "lock"
          /\ \A y \in Callers \ {x} : call'[y] = call[y]
      BY <1>a, <3>1, GotoStep, ToSubmitStep DEF Places, Same, At
    <3>3. ~call[x].late
      BY <3>1 DEF Intent, Remembered, LateFine
    <3>4. QED BY <2>1, <2>2, <3>2, <3>3, IntentKept
  <2>5. QED BY <2>3, <2>4
<1>6. ASSUME NEW x \in Callers, call[x].pc \notin {"lock", "list", "observe"},
             \/ \E p \in Places \ {"lock"} : Goto(x, p)
             \/ ToSubmit(x)
             \/ ToVerify(x)
             \/ \E p \in Places \ {"lock"}, w \in Wires :
                  call' = [call EXCEPT ![x].pc = p, ![x].wire = w]
             \/ \E w \in Wires : call' = [call EXCEPT ![x].wire = w]
             \/ call' = [call EXCEPT ![x].pc = "quota"],
             UNCHANGED <<excluded, snapshot>>, history'.declined = history.declined
      PROVE  Intent'
  <2>1. ~call[x].late
    BY <1>b, <1>6
  <2>2. /\ \A y \in Callers \ {x} : call'[y] = call[y]
        /\ ~call'[x].late /\ call'[x].pc # "lock"
    <3>1. CASE \E p \in Places \ {"lock"} : Goto(x, p)
      BY <1>a, <2>1, <3>1, GotoStep DEF Same
    <3>2. CASE ToSubmit(x) \/ ToVerify(x)
      BY <1>a, <2>1, <3>2, ToSubmitStep, ToVerifyStep DEF At
    <3>3. CASE \E p \in Places \ {"lock"}, w \in Wires :
                 call' = [call EXCEPT ![x].pc = p, ![x].wire = w]
      BY <1>a, <2>1, <3>3, MoveStep DEF Same
    <3>4. CASE \E w \in Wires : call' = [call EXCEPT ![x].wire = w]
      BY <1>a, <1>6, <2>1, <3>4, WireStep DEF Same
    <3>5. CASE call' = [call EXCEPT ![x].pc = "quota"]
      BY <1>a, <2>1, <3>5, PlaceStep DEF Same, Places
    <3>6. QED BY <1>6, <3>1, <3>2, <3>3, <3>4, <3>5
  <2>3. QED BY <1>6, <2>1, <2>2, IntentKept DEF Intent, Remembered
<1>7. ASSUME NEW x \in Callers,
             \/ Abandoned(x) \/ PoolReplies(x) \/ Claim(x) \/ AlreadyAccepted(x)
             \/ Refused(x) \/ ClaimQuota(x) \/ ConnectFails(x)
      PROVE  Intent'
  <2>1. UNCHANGED <<excluded, snapshot>> /\ history'.declined = history.declined
    BY <1>7 DEF Abandoned, PoolReplies, Claim, AlreadyAccepted, Refused, ClaimQuota,
                ConnectFails, durable
  <2>2. CASE Leave(x)
    BY <1>4, <2>1, <2>2
  <2>3. CASE ~Leave(x)
    <3>1. call[x].pc \notin {"lock", "list", "observe"}
      BY <1>7, <2>3 DEF Abandoned, PoolReplies, Claim, AlreadyAccepted, Refused,
                        ClaimQuota, ConnectFails, At
    <3>2. \/ \E p \in Places \ {"lock"} : Goto(x, p)
          \/ ToSubmit(x) \/ ToVerify(x)
          \/ \E p \in Places \ {"lock"}, w \in Wires :
               call' = [call EXCEPT ![x].pc = p, ![x].wire = w]
          \/ call' = [call EXCEPT ![x].pc = "quota"]
      BY <1>7, <2>3 DEF Abandoned, PoolReplies, Claim, AlreadyAccepted, Refused,
                        ClaimQuota, ConnectFails, Places, Wires
    <3>3. QED BY <1>6, <2>1, <3>1, <3>2
  <2>4. QED BY <2>2, <2>3
<1>8. ASSUME NEW x \in Callers,
             \/ Transmit(x) \/ Reply(x) \/ ReplyLost(x) \/ Confirm(x) \/ Reserve(x)
             \/ \E answer \in {"accepted", "refused", "already"} : SchoolHandles(x, answer)
      PROVE  Intent'
  <2>1. UNCHANGED <<excluded, snapshot>>
    BY <1>8 DEF Transmit, Reply, ReplyLost, Confirm, Reserve, SchoolHandles, durable
  <2>2. history'.declined = history.declined
    BY <1>8, <1>a DEF Transmit, Reply, ReplyLost, Confirm, Reserve, SchoolHandles, TypeOK
  <2>3. CASE Leave(x)
    BY <1>4, <2>1, <2>2, <2>3
  <2>4. CASE ~Leave(x)
    <3>1. call[x].pc \notin {"lock", "list", "observe"}
      BY <1>8 DEF Transmit, Reply, ReplyLost, Confirm, Reserve, SchoolHandles, At
    <3>2. \/ \E p \in Places \ {"lock"} : Goto(x, p)
          \/ ToVerify(x)
          \/ \E p \in Places \ {"lock"}, w \in Wires :
               call' = [call EXCEPT ![x].pc = p, ![x].wire = w]
          \/ \E w \in Wires : call' = [call EXCEPT ![x].wire = w]
      BY <1>8, <2>4 DEF Transmit, Reply, ReplyLost, Confirm, Reserve, SchoolHandles,
                        Places, Wires
    <3>3. QED BY <1>6, <2>1, <2>2, <3>1, <3>2
  <2>5. QED BY <2>3, <2>4
<1>9. ASSUME NEW x \in Callers, Verified(x) PROVE Intent'
  <2>1. history'.declined = history.declined
    BY <1>9, <1>a DEF Verified, TypeOK
  <2>2. Remembered'
    BY <1>9, <2>1, ObservedKeeps DEF Verified, Intent
  <2>3. /\ ~call'[x].late /\ call'[x].pc = "idle"
        /\ \A y \in Callers \ {x} : call'[y] = call[y]
    BY <1>9, <1>a, LeaveStep DEF Verified
  <2>4. QED BY <2>1, <2>2, <2>3, IntentKept
<1>10. ASSUME call' = call, history.declined \subseteq history'.declined, Remembered'
       PROVE  Intent'
  BY <1>10 DEF Intent, LateFine, At, Automatic, Action, Course
<1>11. ASSUME NEW r \in Readers, PageReads(r) \/ PageObserves(r) PROVE Intent'
  <2>1. CASE PageReads(r)
    BY <1>10, <2>1 DEF PageReads, durable, Intent, Remembered
  <2>2. CASE PageObserves(r)
    BY <1>10, <2>2, ObservedKeeps DEF PageObserves, Intent
  <2>3. QED BY <1>11, <2>1, <2>2
<1>12. ASSUME NEW c \in Courses, EnrolElsewhere(c) \/ DropElsewhere(c) PROVE Intent'
  <2>1. /\ call' = call /\ UNCHANGED <<excluded, snapshot>>
        /\ history.declined \subseteq history'.declined
        /\ history'.declined \subseteq history.declined \cup snapshot
    BY <1>12, <1>a DEF EnrolElsewhere, DropElsewhere, durable, TypeOK
  <2>2. Remembered'
    BY <2>1 DEF Intent, Remembered
  <2>3. QED BY <1>10, <2>1, <2>2
<1>13. ASSUME \/ \E a \in Writes, c \in Courses : StrayHandled(a, c)
              \/ Published
              \/ UNCHANGED vars
       PROVE  Intent'
  <2>1. /\ call' = call /\ UNCHANGED <<excluded, snapshot>>
        /\ history'.declined = history.declined
    BY <1>13, <1>a DEF StrayHandled, Published, durable, vars, TypeOK
  <2>2. QED BY <1>10, <2>1 DEF Intent, Remembered
<1>14. CASE Crash
  <2>1. /\ UNCHANGED <<excluded, snapshot>> /\ history'.declined = history.declined
        /\ \A y \in Callers : call'[y] = Idle
    BY <1>14, <1>a DEF Crash, durable, TypeOK
  <2>2. Idle.pc = "idle" /\ ~Idle.late
    BY DEF Idle
  <2>3. QED BY <2>1, <2>2 DEF Intent, Remembered, LateFine, At
<1>15. QED
  BY <1>1, <1>2, <1>3, <1>5, <1>7, <1>8, <1>9, <1>11, <1>12, <1>13, <1>14
     DEF Next, Thread, Network

\* The daemon's thread in perform_boya_action never requests the selection of
\* a lecture that the student had given up before the call got the lock.
THEOREM BoyaNoRegrab == Spec => NoRegrab
<1>1. Init => IInv /\ Intent
  BY InvInit, IntentInit
<1>2. (IInv /\ Intent) /\ [Next]_vars => (IInv /\ Intent)'
  BY InvStep, IntentStep
<1>3. Intent => \A x \in Callers :
        call[x].wire = "unsent" /\ call'[x].wire = "sent" /\ Automatic(x) => ~call[x].late
  BY DEF Intent, LateFine
<1>4. QED BY <1>1, <1>2, <1>3, PTL DEF Spec, NoRegrab
-----------------------------------------------------------------------------
(***************************************************************************)
(* Rivals.  x has a selection of c on its way to the reservation: its row  *)
(* may be open (Opens), or the school has accepted it (Accepts).           *)
(***************************************************************************)
Opens(x, c) ==
  Action(x) = "select" /\ Course(x) = c /\ call[x].pc \in {"quota", "post", "reserve"}
Accepts(x, c) ==
  /\ Action(x) = "select" /\ Course(x) = c
  /\ At(x, "reserve") \/ (At(x, "post") /\ call[x].wire = "accepted")

\* A selection in force is in the list, is reserved or is about to be.
HeldShown ==
  /\ history.held \subseteq school.enrolled \cap Contested
  /\ \A c \in history.held \ history.lost :
       c \in school.listed \cup reserved \/ \E x \in Callers : Accepts(x, c)

\* A selection whose outcome is unknown is reserved or about to be.
OpenReserved ==
  \A c \in Contested \ history.lost : Open(c) => c \in reserved \/ \E x \in Callers : Opens(x, c)

\* The list as x has read it is as good as the one of this moment.
SeenFine(x) ==
  /\ call[x].pc \in {"observe", "pool"} =>
       history.held \ history.lost \subseteq call[x].seen \cup reserved
  /\ call[x].pc \in {"observe", "pool", "verified"} =>
       history.held \cap call[x].seen \subseteq school.listed

\* The claim of x is the only open row of its lecture.
OneRow(x) ==
  call[x].pc \in {"quota", "post"} /\ Action(x) = "select" =>
    \A s \in Scopes : rows["select"][Course(x)][s].state \in Unsettled => s = call[x].scope

\* What x is about to ask for has no rival.
Clear(x) ==
  Automatic(x) /\ (At(x, "submit") \/ Unsent(x)) =>
    \A c \in Exclusive[Course(x)] \ {Course(x)} :
      c \notin history.lost => ~Open(c) /\ c \notin history.held

Fine(x) == SeenFine(x) /\ OneRow(x) /\ Clear(x)
Kept == HeldShown /\ OpenReserved /\ \A x \in Callers : Fine(x)

LEMMA OpenRows ==
  ASSUME NEW c
  PROVE  Open(c) <=> \E s \in Scopes : rows["select"][c][s].state \in Unsettled
BY DEF Open, Group, Unsettled

LEMMA RivalsContested ==
  /\ Contested \subseteq Courses
  /\ \A c \in Courses : Exclusive[c] \ {c} \subseteq Contested
BY BoyaAssumption DEF Contested

\* Nothing is asked of a thread that is not past the lock.
LEMMA FineOutside ==
  ASSUME NEW y \in Callers, call[y].pc \notin Inside
  PROVE  Fine(y) /\ \A c : ~Opens(y, c) /\ ~Accepts(y, c)
BY DEF Fine, SeenFine, OneRow, Clear, Opens, Accepts, Unsent, At, Inside, Places

LEMMA FineOutsideThen ==
  ASSUME NEW y \in Callers, call'[y].pc \notin Inside
  PROVE  Fine(y)' /\ \A c : ~Opens(y, c)' /\ ~Accepts(y, c)'
BY DEF Fine, SeenFine, OneRow, Clear, Opens, Accepts, Unsent, At, Inside, Places

(***************************************************************************)
(* A step of the thread inside, or of the one that gets inside: a lecture  *)
(* leaves the reservations only if its selection is decided and shown, and *)
(* what is opened or accepted is on its way to them.                       *)
(***************************************************************************)
LEMMA KeptByOne ==
  ASSUME CallOK, Kept, NEW x \in Callers, holder \in {x, Nobody} \/ call[x].pc \in Inside,
         \A y \in Callers \ {x} : call'[y] = call[y],
         school'.listed = school.listed, history'.lost = history.lost,
         history'.held \subseteq school'.enrolled \cap Contested,
         \A c \in history'.held \ history.held : Accepts(x, c)',
         \A c \in reserved \ reserved' :
           ~Open(c)' /\ (c \in history'.held => c \in school.listed),
         \A c \in Courses : Open(c)' /\ c \notin reserved' =>
           Opens(x, c)' \/ (Open(c) /\ ~Opens(x, c)),
         \A c \in Courses : Accepts(x, c) => Accepts(x, c)' \/ c \in reserved',
         Fine(x)'
  PROVE  Kept'
<1>1. \A y \in Callers \ {x} : call[y].pc \notin Inside /\ call'[y].pc \notin Inside
  BY Alone
<1>2. \A y \in Callers \ {x} : \A c : ~Opens(y, c) /\ ~Accepts(y, c)
  BY <1>1, FineOutside
<1>3. \A y \in Callers : Fine(y)'
  BY <1>1, FineOutsideThen
<1>4. HeldShown'
  <2> SUFFICES ASSUME NEW c \in history'.held \ history'.lost,
                      c \notin school'.listed \cup reserved'
               PROVE  Accepts(x, c)'
    BY DEF HeldShown
  <2>1. c \in Courses
    BY RivalsContested
  <2>2. CASE c \in history.held
    <3>1. c \notin reserved /\ c \notin school.listed
      BY <2>2
    <3>2. Accepts(x, c)
      BY <1>2, <2>2, <3>1 DEF Kept, HeldShown
    <3>3. QED BY <2>1, <3>2
  <2>3. CASE c \notin history.held
    BY <2>3
  <2>4. QED BY <2>2, <2>3
<1>5. OpenReserved'
  <2> SUFFICES ASSUME NEW c \in Contested, c \notin history'.lost, Open(c)', c \notin reserved'
               PROVE  Opens(x, c)'
    BY DEF OpenReserved, Contested
  <2>1. c \in Courses /\ c \notin reserved
    BY RivalsContested
  <2>2. Open(c) => Opens(x, c)
    BY <1>2, <2>1 DEF Kept, OpenReserved
  <2>3. QED BY <2>1, <2>2
<1>6. QED BY <1>3, <1>4, <1>5 DEF Kept

(***************************************************************************)
(* A step of the school, of a page or of a thread outside: no selection    *)
(* comes into force, and none in force leaves the list.                    *)
(***************************************************************************)
LEMMA KeptOutside ==
  ASSUME Kept, rows' = rows, reserved' = reserved, history'.lost = history.lost,
         history'.held \subseteq history.held, history'.held \subseteq school'.enrolled,
         \A c \in history'.held : c \in school.listed => c \in school'.listed,
         \A y \in Callers : \/ call'[y] = call[y]
                            \/ call[y].pc \notin Inside /\ call'[y].pc \notin Inside
  PROVE  Kept'
<1>1. \A c : Open(c)' = Open(c)
  BY DEF Open, Group
<1>2. \A y \in Callers : \A c : Opens(y, c) => Opens(y, c)'
  <2> SUFFICES ASSUME NEW y \in Callers PROVE \A c : Opens(y, c) => Opens(y, c)'
    OBVIOUS
  <2>1. CASE call'[y] = call[y]
    BY <2>1 DEF Opens, Action, Course
  <2>2. CASE call[y].pc \notin Inside
    BY <2>2, FineOutside
  <2>3. QED BY <2>1, <2>2
<1>3. \A y \in Callers : \A c : Accepts(y, c) => Accepts(y, c)'
  <2> SUFFICES ASSUME NEW y \in Callers PROVE \A c : Accepts(y, c) => Accepts(y, c)'
    OBVIOUS
  <2>1. CASE call'[y] = call[y]
    BY <2>1 DEF Accepts, At, Action, Course
  <2>2. CASE call[y].pc \notin Inside
    BY <2>2, FineOutside
  <2>3. QED BY <2>1, <2>2
<1>4. ASSUME NEW y \in Callers PROVE Fine(y)'
  <2>1. CASE call'[y].pc \notin Inside
    BY <2>1, FineOutsideThen
  <2>2. CASE call'[y] = call[y]
    <3>1. Fine(y)
      BY DEF Kept
    <3>2. SeenFine(y)'
      BY <2>2, <3>1 DEF Fine, SeenFine
    <3>3. OneRow(y)'
      BY <2>2, <3>1 DEF Fine, OneRow, Action, Course
    <3>4. Clear(y)'
      BY <1>1, <2>2, <3>1 DEF Fine, Clear, Automatic, Unsent, At, Action, Course
    <3>5. QED BY <3>2, <3>3, <3>4 DEF Fine
  <2>3. QED BY <2>1, <2>2
<1>5. HeldShown'
  <2>1. history'.held \subseteq Contested
    BY DEF Kept, HeldShown
  <2>2. ASSUME NEW c \in history'.held \ history'.lost
        PROVE  c \in school'.listed \cup reserved' \/ \E x \in Callers : Accepts(x, c)'
    BY <1>3 DEF Kept, HeldShown
  <2>3. QED BY <2>1, <2>2 DEF HeldShown, Contested
<1>6. OpenReserved'
  BY <1>1, <1>2 DEF Kept, OpenReserved, Contested
<1>7. QED BY <1>4, <1>5, <1>6 DEF Kept

\* Writing a row: the other lectures' selections stay open or closed, and the
\* lecture's is closed if its only open row is.
LEMMA OpenSet ==
  ASSUME TypeOK, NEW x \in Callers, Action(x) \in Writes, NEW row \in Row, SetKey(x, row)
  PROVE  /\ \A c \in Courses : Action(x) # "select" \/ c # Course(x) => Open(c)' = Open(c)
         /\ Action(x) = "select" /\ OneRow(x) /\ call[x].pc \in {"quota", "post"}
              /\ row.state \notin Unsettled => \A c \in Courses : c = Course(x) => ~Open(c)'
<1>1. \A c : Open(c)' <=> \E s \in Scopes : rows'["select"][c][s].state \in Unsettled
  BY DEF Open, Group, Unsettled
<1>2. Course(x) \in Courses /\ call[x].scope \in Scopes
  BY RecordTypes
<1>3. ASSUME NEW c \in Courses, Action(x) # "select" \/ c # Course(x) PROVE Open(c)' = Open(c)
  <2>1. \A s \in Scopes : rows'["select"][c][s] = rows["select"][c][s]
    BY <1>3, SetKeyStep DEF Writes
  <2>2. QED BY <1>1, <2>1, OpenRows
<1>4. ASSUME Action(x) = "select", OneRow(x), call[x].pc \in {"quota", "post"},
             row.state \notin Unsettled, NEW c \in Courses, c = Course(x)
      PROVE  ~Open(c)'
  <2>1. rows'["select"][c][call[x].scope] = row
    BY <1>4, SetKeyStep
  <2>2. \A s \in Scopes \ {call[x].scope} :
          /\ rows'["select"][c][s] = rows["select"][c][s]
          /\ rows["select"][c][s].state \notin Unsettled
    BY <1>2, <1>4, SetKeyStep DEF OneRow, Writes
  <2>3. QED BY <1>1, <1>4, <2>1, <2>2
<1>5. QED BY <1>3, <1>4

\* Settling and forgetting open nothing, and settling closes.
LEMMA OpenTables ==
  ASSUME NEW table \in [Courses -> [Scopes -> Row]], NEW cs, NEW c \in Courses, NEW s \in Scopes
  PROVE  /\ SettledFor(table, cs)[c][s].state \in Unsettled =>
              table[c][s].state \in Unsettled /\ c \notin cs
         /\ ForgottenFor(table, cs)[c][s].state \in Unsettled =>
              table[c][s].state \in Unsettled
<1>1. table[c][s] \in Row
  OBVIOUS
<1>2. Settled(table[c][s], 0).state \notin Unsettled
  BY <1>1 DEF Settled, Unsettled, Row
<1>3. Forgotten(table[c][s]).state \in Unsettled => table[c][s].state \in Unsettled
  BY DEF Forgotten, NoRow, Unsettled
<1>4. QED BY <1>2, <1>3 DEF SettledFor, ForgottenFor

LEMMA KeptInit == Init => Kept
<1> SUFFICES ASSUME Init PROVE Kept
  OBVIOUS
<1>1. \A y \in Callers : call[y].pc \notin Inside
  BY DEF Init, Idle, Inside
<1>2. \A y \in Callers : Fine(y)
  BY <1>1, FineOutside
<1>3. \A c \in Courses : ~Open(c)
  BY OpenRows DEF Init, NoRow, Unsettled, Writes
<1>4. QED BY <1>2, <1>3, RivalsContested DEF Init, Kept, HeldShown, OpenReserved

\* A step of the thread inside that leaves school and selections alone.
LEMMA KeptByQuiet ==
  ASSUME CallOK, Kept, NEW x \in Callers, holder \in {x, Nobody} \/ call[x].pc \in Inside,
         \A y \in Callers \ {x} : call'[y] = call[y],
         UNCHANGED school, history'.lost = history.lost, history'.held = history.held,
         reserved \subseteq reserved',
         \A c \in Courses : Open(c)' /\ c \notin reserved' =>
           Opens(x, c)' \/ (Open(c) /\ ~Opens(x, c)),
         \A c \in Courses : Accepts(x, c) => Accepts(x, c)' \/ c \in reserved',
         Fine(x)'
  PROVE  Kept'
<1>1. /\ school'.listed = school.listed
      /\ history'.held \subseteq school'.enrolled \cap Contested
      /\ \A c \in history'.held \ history.held : Accepts(x, c)'
  BY DEF Kept, HeldShown
<1>2. \A c \in reserved \ reserved' :
        ~Open(c)' /\ (c \in history'.held => c \in school.listed)
  OBVIOUS
<1>3. QED BY <1>1, <1>2, KeptByOne

\* One that moves x with the rows as they are.
LEMMA SameRows ==
  ASSUME rows' = rows
  PROVE  \A c : Open(c)' = Open(c)
BY DEF Open, Group

LEMMA KeptByLeave ==
  ASSUME TypeOK, CallOK, Kept, NEW x \in Callers,
         holder \in {x, Nobody} \/ call[x].pc \in Inside, Leave(x),
         UNCHANGED school, history'.lost = history.lost, history'.held = history.held,
         reserved \subseteq reserved',
         \A c \in Courses : Open(c)' /\ c \notin reserved' => Open(c) /\ ~Opens(x, c),
         \A c \in Courses : Accepts(x, c) => c \in reserved'
  PROVE  Kept'
<1>1. call'[x].pc = "idle" /\ \A y \in Callers \ {x} : call'[y] = call[y]
  BY LeaveStep
<1>2. Fine(x)'
  BY <1>1, FineOutsideThen DEF Inside
<1>3. QED BY <1>1, <1>2, KeptByQuiet

\* What x is at a place before its claim, and behind its answer.
LEMMA NothingYet ==
  ASSUME NEW x \in Callers, call[x].pc \notin {"quota", "post", "reserve"}
  PROVE  \A c : ~Opens(x, c) /\ ~Accepts(x, c)
BY DEF Opens, Accepts, At

LEMMA FineFromThere ==
  ASSUME NEW x \in Callers,
         call'[x].pc \in {"idle", "lock", "list", "reserve", "verify"}
           \/ (call'[x].pc = "submit" /\ ~Automatic(x)')
  PROVE  Fine(x)'
BY DEF Fine, SeenFine, OneRow, Clear, Unsent, At

LEMMA KeptStep == IInv /\ Kept /\ [Next]_vars => Kept'
<1> SUFFICES ASSUME IInv, Kept, [Next]_vars PROVE Kept'
  OBVIOUS
<1>a. TypeOK /\ CallOK
  BY DEF IInv
<1>b. /\ history.held \subseteq school.enrolled /\ history.held \subseteq Contested
      /\ Contested \subseteq Courses
      /\ \A x \in Callers : Fine(x) /\ CallFine(x)
  BY <1>a, RivalsContested DEF Kept, HeldShown, CallOK
<1>1. ASSUME NEW x \in Callers, NEW ask \in Asked[x], Ask(x, ask[1], ask[2]) PROVE Kept'
  <2>1. /\ call[x].pc \notin Inside /\ call'[x].pc \notin Inside
        /\ \A y \in Callers \ {x} : call'[y] = call[y]
    BY <1>1, <1>a DEF Ask, TypeOK, Idle, Inside, At
  <2>2. UNCHANGED <<rows, reserved, school, history>>
    BY <1>1 DEF Ask, durable
  <2>3. QED BY <1>b, <2>1, <2>2, KeptOutside
<1>2. ASSUME NEW x \in Callers, Enter(x) PROVE Kept'
  <2>1. /\ UNCHANGED <<rows, reserved, school>> /\ holder = Nobody
        /\ history'.lost = history.lost /\ history'.held = history.held
    BY <1>2, <1>a DEF Enter, TypeOK
  <2>2. \A c : ~Opens(x, c) /\ ~Accepts(x, c)
    BY <1>2, NothingYet DEF Enter, At
  <2>3. CASE Leave(x)
    BY <1>a, <2>1, <2>2, <2>3, KeptByLeave, SameRows
  <2>4. CASE call' = [call EXCEPT ![x].pc = "list",
               ![x].late = Automatic(x) /\ Course(x) \in history.declined]
    <3>1. call'[x].pc = "list" /\ \A y \in Callers \ {x} : call'[y] = call[y]
      BY <1>a, <2>4 DEF TypeOK, CallType
    <3>2. QED BY <1>a, <2>1, <2>2, <3>1, FineFromThere, KeptByQuiet, SameRows
  <2>5. QED BY <1>2, <2>3, <2>4 DEF Enter
<1>3. ASSUME NEW x \in Callers, ListReplies(x) PROVE Kept'
  <2>1. /\ UNCHANGED <<rows, reserved, school, history>>
        /\ call[x].pc \in {"list", "verify"} /\ call[x].pc \in Inside
    BY <1>3 DEF ListReplies, durable, Inside, Places
  <2>2. /\ call'[x].pc = IF At(x, "list") THEN "observe" ELSE "verified"
        /\ call'[x].seen = school.listed
        /\ \A y \in Callers \ {x} : call'[y] = call[y]
    BY <1>3, <1>a DEF ListReplies, TypeOK, CallType
  <2>3. \A c : \A y \in Callers : ~Accepts(y, c)
    <3>1. \A y \in Callers \ {x} : call[y].pc \notin Inside
      BY <1>a, <2>1, Alone
    <3>2. QED BY <2>1, <3>1, FineOutside, NothingYet
  <2>4. history.held \ history.lost \subseteq school.listed \cup reserved
    BY <2>3 DEF Kept, HeldShown
  <2>5. Fine(x)'
    BY <2>1, <2>2, <2>4 DEF Fine, SeenFine, OneRow, Clear, Unsent, At
  <2>6. \A c : ~Opens(x, c) /\ ~Accepts(x, c)
    BY <2>1, NothingYet
  <2>7. QED BY <1>a, <2>1, <2>2, <2>5, <2>6, KeptByQuiet, SameRows
<1>4. ASSUME NEW x \in Callers, Abandoned(x) PROVE Kept'
  <2>1. /\ UNCHANGED <<rows, reserved, school, history>> /\ Leave(x)
        /\ holder \in {x, Nobody} \/ call[x].pc \in Inside
        /\ call[x].pc \notin {"quota", "post", "reserve"}
    BY <1>4 DEF Abandoned, durable, At, Inside, Places
  <2>2. QED BY <1>a, <2>1, NothingYet, KeptByLeave, SameRows
<1>5. ASSUME NEW x \in Callers, Observed(x) PROVE Kept'
  <2> DEFINE settled == SettledFor(rows["select"], call[x].seen)
  <2>1. /\ call[x].pc = "observe" /\ call[x].pc \in Inside
        /\ reserved' = reserved \ call[x].seen /\ UNCHANGED school
        /\ history'.lost = history.lost /\ history'.held = history.held
    BY <1>5, <1>a DEF Observed, TypeOK, At, Inside, Places
  <2>2. \A c \in Courses : Open(c)' => Open(c) /\ c \notin call[x].seen
    <3> SUFFICES ASSUME NEW c \in Courses, Open(c)' PROVE Open(c) /\ c \notin call[x].seen
      OBVIOUS
    <3>1. PICK s \in Scopes : rows'["select"][c][s].state \in Unsettled
      BY DEF Open, Group, Unsettled
    <3>2. /\ rows["select"] \in [Courses -> [Scopes -> Row]]
          /\ settled \in [Courses -> [Scopes -> Row]]
      BY <1>a, TableTypes DEF TypeOK, Writes
    <3>3. rows'["select"] \in {settled, ForgottenFor(settled, {Course(x)})}
      BY <1>5, <1>a DEF Observed, TypeOK, Writes
    <3>4. settled[c][s].state \in Unsettled
      <4> HIDE DEF settled
      <4>1. QED BY <3>1, <3>2, <3>3, OpenTables
    <3>5. rows["select"][c][s].state \in Unsettled /\ c \notin call[x].seen
      BY <3>2, <3>4, OpenTables
    <3>6. QED BY <3>5, OpenRows
  <2>3. \A c : ~Opens(x, c) /\ ~Accepts(x, c)
    BY <2>1, NothingYet
  <2>4. \A y \in Callers \ {x} : call'[y] = call[y]
    BY <1>5, <1>a, GotoStep, ToSubmitStep, LeaveStep DEF Observed, Places, Same
  <2>5. Fine(x)'
    <3>1. CASE Goto(x, "pool")
      <4>1. call'[x].pc = "pool" /\ call'[x].seen = call[x].seen
        BY <1>a, <3>1 DEF Goto, TypeOK, CallType
      <4>2. SeenFine(x)'
        BY <1>b, <2>1, <4>1 DEF Fine, SeenFine
      <4>3. QED BY <4>1, <4>2 DEF Fine, OneRow, Clear, Unsent, At
    <3>2. CASE Action(x) = "drop" /\ ToSubmit(x)
      BY <1>a, <3>2, ToSubmitStep, FineFromThere DEF Automatic, At
    <3>3. CASE Leave(x)
      BY <1>a, <3>3, LeaveStep, FineFromThere
    <3>4. QED BY <1>5, <3>1, <3>2, <3>3 DEF Observed
  <2>6. \A c \in reserved \ reserved' : ~Open(c)' /\ (c \in history'.held => c \in school.listed)
    BY <1>a, <1>b, <2>1, <2>2 DEF Fine, SeenFine, TypeOK
  <2>7. history'.held \subseteq school'.enrolled \cap Contested
    BY <1>b, <2>1
  <2>8. QED BY <1>a, <2>1, <2>2, <2>3, <2>4, <2>5, <2>6, <2>7, KeptByOne
<1>6. ASSUME NEW x \in Callers, PoolReplies(x) PROVE Kept'
  <2>1. /\ UNCHANGED <<rows, reserved, school, history>>
        /\ call[x].pc = "pool" /\ call[x].pc \in Inside
    BY <1>6 DEF PoolReplies, durable, At, Inside, Places
  <2>2. \A c : ~Opens(x, c) /\ ~Accepts(x, c)
    BY <2>1, NothingYet
  <2>3. CASE Leave(x)
    BY <1>a, <2>1, <2>2, <2>3, KeptByLeave, SameRows
  <2>4. CASE /\ ToSubmit(x)
             /\ Automatic(x) => Exclusive[Course(x)] \cap (call[x].seen \cup reserved) = {}
    <3>1. /\ call'[x].pc = "submit" /\ Automatic(x)' = Automatic(x)
          /\ \A y \in Callers \ {x} : call'[y] = call[y]
      BY <1>a, <2>4, ToSubmitStep DEF At, Automatic
    <3>2. Course(x)' = Course(x)
      BY <1>a, <2>4 DEF ToSubmit, TypeOK, CallType, Course
    <3>3. \A c : \A y \in Callers : ~Opens(y, c)
      <4>1. \A y \in Callers \ {x} : call[y].pc \notin Inside
        BY <1>a, <2>1, Alone
      <4>2. QED BY <2>2, <4>1, FineOutside
    <3>4. ASSUME Automatic(x), NEW c \in Exclusive[Course(x)] \ {Course(x)}, c \notin history.lost
          PROVE  ~Open(c) /\ c \notin history.held
      <4>1. c \in Contested
        BY <1>a, <3>4, RecordTypes, RivalsContested
      <4>2. c \notin call[x].seen \cup reserved
        BY <2>4, <3>4
      <4>3. ~Open(c)
        BY <3>3, <3>4, <4>1, <4>2 DEF Kept, OpenReserved
      <4>4. QED BY <1>b, <2>1, <3>4, <4>2, <4>3 DEF Fine, SeenFine
    <3>5. \A c : Open(c)' = Open(c)
      BY <2>1, SameRows
    <3>6. Clear(x)'
      BY <2>1, <3>1, <3>2, <3>4, <3>5 DEF Clear
    <3>7. Fine(x)'
      BY <3>1, <3>6 DEF Fine, SeenFine, OneRow
    <3>8. QED BY <1>a, <2>1, <2>2, <3>1, <3>5, <3>7, KeptByQuiet
  <2>5. QED BY <1>6, <2>3, <2>4 DEF PoolReplies
<1>c. ASSUME NEW x \in Callers, call[x].pc \in {"submit", "quota", "post", "reserve", "verified"}
      PROVE  Action(x) \in Writes /\ Key(x) \in Row /\ call[x].pc \in Inside /\ Course(x) \in Courses
  BY <1>a, <1>b, <1>c, RecordTypes DEF CallFine, Inside, Places
<1>7. ASSUME NEW x \in Callers, Claim(x) PROVE Kept'
  <2>1. /\ UNCHANGED <<reserved, school, history>> /\ call[x].pc = "submit"
        /\ SetKey(x, Claimed(Key(x), 0)) /\ Verdict(x) = "granted"
    BY <1>7 DEF Claim, At
  <2>2. Claimed(Key(x), 0) \in Row
    BY <1>c, <2>1, RowTypes
  <2>3. \A c \in Courses : Action(x) # "select" \/ c # Course(x) => Open(c)' = Open(c)
    BY <1>a, <1>c, <2>1, <2>2, OpenSet
  <2>4. /\ call'[x].pc = IF Action(x) = "select" THEN "quota" ELSE "post"
        /\ Same(x)
    <3>1. CASE Action(x) = "select"
      <4>1. call' = [call EXCEPT ![x].pc = "quota"]
        BY <1>7, <3>1 DEF Claim
      <4>2. QED BY <1>a, <3>1, <4>1, PlaceStep DEF Places
    <3>2. CASE Action(x) # "select"
      <4>1. call' = [call EXCEPT ![x].pc = "post", ![x].wire = "unsent"]
        BY <1>7, <3>2 DEF Claim
      <4>2. QED BY <1>a, <3>2, <4>1, MoveStep DEF Places, Wires
    <3>3. QED BY <3>1, <3>2
  <2>5. OneRow(x)'
    <3> SUFFICES ASSUME Action(x) = "select", NEW s \in Scopes,
                        rows'["select"][Course(x)][s].state \in Unsettled
                 PROVE  s = call[x].scope
      BY <2>4 DEF OneRow, Same
    <3>1. rows["select"][Course(x)][s].state \notin Unsettled
      BY <2>1 DEF Verdict, ClaimVerdict, Group
    <3>2. QED BY <1>a, <1>c, <2>1, <2>2, <3>1, SetKeyStep DEF Writes
  <2>6. Clear(x)'
    <3> SUFFICES ASSUME Automatic(x), NEW c \in Exclusive[Course(x)] \ {Course(x)},
                        c \notin history.lost
                 PROVE  ~Open(c)' /\ c \notin history.held
      BY <2>1, <2>4 DEF Clear, Same, Automatic
    <3>1. ~Open(c) /\ c \notin history.held
      BY <1>b, <2>1 DEF Fine, Clear, At
    <3>2. c \in Courses
      BY <1>c, <2>1, RivalsContested
    <3>3. QED BY <2>3, <3>1, <3>2
  <2>7. Fine(x)'
    BY <2>4, <2>5, <2>6 DEF Fine, SeenFine
  <2>8. \A c \in Courses : Open(c)' => Opens(x, c)' \/ (Open(c) /\ ~Opens(x, c))
    <3>1. \A c : ~Opens(x, c)
      BY <2>1, NothingYet
    <3>2. Action(x) = "select" => Opens(x, Course(x))'
      BY <2>4 DEF Opens, Same
    <3>3. Course(x)' = Course(x)
      BY <2>4 DEF Same
    <3>4. QED BY <2>3, <3>1, <3>2, <3>3
  <2>9. \A c : ~Accepts(x, c)
    BY <2>1, NothingYet
  <2>10. QED BY <1>a, <1>c, <2>1, <2>4, <2>7, <2>8, <2>9, KeptByQuiet DEF Same
<1>8. ASSUME NEW x \in Callers, AlreadyAccepted(x) PROVE Kept'
  <2>1. /\ UNCHANGED <<rows, reserved, school, history>>
        /\ call[x].pc = "submit" /\ call[x].pc \in Inside
    BY <1>8 DEF AlreadyAccepted, durable, At, Inside, Places
  <2>2. /\ call'[x].pc \in {"reserve", "verify"}
        /\ \A y \in Callers \ {x} : call'[y] = call[y]
    BY <1>8, <1>a, GotoStep, ToVerifyStep DEF AlreadyAccepted, Places, Same, At
  <2>3. QED BY <1>a, <2>1, <2>2, NothingYet, FineFromThere, KeptByQuiet, SameRows
<1>9. ASSUME NEW x \in Callers, Refused(x) PROVE Kept'
  <2>1. /\ UNCHANGED <<rows, school, history>> /\ reserved \subseteq reserved' /\ Leave(x)
        /\ call[x].pc = "submit" /\ call[x].pc \in Inside
    BY <1>9 DEF Refused, KeepReserved, At, Inside, Places
  <2>2. QED BY <1>a, <2>1, NothingYet, KeptByLeave, SameRows
\* The row of x is closed and x leaves: nothing has been accepted of it.
<1>d. ASSUME NEW x \in Callers, call[x].pc \in {"quota", "post"}, call[x].wire # "accepted" \/ At(x, "quota"),
             NEW row \in Row, row.state \notin Unsettled, SetKey(x, row), Leave(x),
             UNCHANGED <<reserved, school>>,
             history'.lost = history.lost, history'.held = history.held
      PROVE  Kept'
  <2>1. /\ \A c \in Courses : Action(x) # "select" \/ c # Course(x) => Open(c)' = Open(c)
        /\ Action(x) = "select" => \A c \in Courses : c = Course(x) => ~Open(c)'
    <3>1. Action(x) \in Writes /\ OneRow(x)
      BY <1>b, <1>c, <1>d DEF Fine
    <3>2. QED BY <1>a, <1>d, <3>1, OpenSet
  <2>2. \A c \in Courses : Open(c)' => Open(c) /\ ~Opens(x, c)
    BY <2>1 DEF Opens
  <2>3. \A c : ~Accepts(x, c)
    BY <1>d DEF Accepts, At
  <2>4. QED BY <1>a, <1>c, <1>d, <2>2, <2>3, KeptByLeave
<1>10. ASSUME NEW x \in Callers, ClaimQuota(x) PROVE Kept'
  <2>1. /\ UNCHANGED <<reserved, school, history>> /\ call[x].pc = "quota"
    BY <1>10 DEF ClaimQuota, At
  <2>2. CASE /\ call' = [call EXCEPT ![x].pc = "post", ![x].wire = "unsent"]
             /\ UNCHANGED rows
    <3>1. call'[x].pc = "post" /\ call'[x].wire = "unsent" /\ Same(x)
      BY <1>a, <2>2, MoveStep DEF Places, Wires
    <3>2. \A c : Open(c)' = Open(c)
      BY <2>2, SameRows
    <3>3. \A c : (Opens(x, c) => Opens(x, c)') /\ ~Accepts(x, c)
      BY <2>1, <3>1 DEF Opens, Accepts, Same, At
    <3>4. OneRow(x)'
      BY <1>b, <2>1, <2>2, <3>1 DEF Fine, OneRow, Same
    <3>5. Clear(x)'
      BY <1>b, <2>1, <3>1, <3>2 DEF Fine, Clear, Same, Automatic, Unsent, At
    <3>6. Fine(x)'
      BY <3>1, <3>4, <3>5 DEF Fine, SeenFine
    <3>7. QED BY <1>a, <1>c, <2>1, <3>1, <3>2, <3>3, <3>6, KeptByQuiet DEF Same
  <2>3. CASE SetKey(x, Finished(Key(x), "failed", 0)) /\ Leave(x)
    <3>1. Key(x) \in Row /\ Key(x).state = "pending"
      BY <1>b, <1>c, <2>1 DEF CallFine
    <3>2. Finished(Key(x), "failed", 0) \in Row /\ Finished(Key(x), "failed", 0).state \notin Unsettled
      BY <3>1, RowTypes DEF Finished, Unsettled, Row
    <3>3. QED BY <1>d, <2>1, <2>3, <3>2 DEF At
  <2>4. QED BY <1>10, <2>2, <2>3 DEF ClaimQuota
<1>11. ASSUME NEW x \in Callers, ConnectFails(x) PROVE Kept'
  <2>1. /\ UNCHANGED <<reserved, school, history>> /\ call[x].pc = "post" /\ call[x].wire = "unsent"
        /\ SetKey(x, FailedBeforeSend(Key(x), 0)) /\ Leave(x)
    BY <1>11 DEF ConnectFails, At
  <2>2. Key(x) \in Row /\ Key(x).state = "pending"
    BY <1>b, <1>c, <2>1 DEF CallFine
  <2>3. /\ FailedBeforeSend(Key(x), 0) \in Row
        /\ FailedBeforeSend(Key(x), 0).state \notin Unsettled
    BY <2>2, RowTypes DEF FailedBeforeSend, Unsettled
  <2>4. QED BY <1>d, <2>1, <2>3
\* The request of x is on its way, or is dealt with by the school.
<1>e. ASSUME NEW x \in Callers, call[x].pc = "post", call[x].wire # "accepted",
             NEW w \in Wires \ {"unsent"}, call' = [call EXCEPT ![x].wire = w],
             UNCHANGED <<rows, reserved>>, school'.listed = school.listed,
             history'.lost = history.lost, history'.held \subseteq school'.enrolled \cap Contested,
             \A c \in history'.held \ history.held :
               w = "accepted" /\ Action(x) = "select" /\ c = Course(x)
      PROVE  Kept'
  <2>1. call'[x].pc = "post" /\ call'[x].wire = w /\ Same(x)
    BY <1>a, <1>e, WireStep
  <2>2. \A c : /\ Open(c)' = Open(c)
               /\ Opens(x, c) => Opens(x, c)'
               /\ ~Accepts(x, c)
    BY <1>e, <2>1, SameRows DEF Opens, Accepts, Same, At
  <2>3. \A c \in history'.held \ history.held : Accepts(x, c)'
    BY <1>e, <2>1 DEF Accepts, Same, At
  <2>4. OneRow(x)'
    BY <1>b, <1>e, <2>1 DEF Fine, OneRow, Same
  <2>5. Fine(x)'
    BY <1>e, <2>1, <2>4 DEF Fine, SeenFine, Clear, Unsent, At
  <2>6. call[x].pc \in Inside
    BY <1>c, <1>e
  <2>7. /\ \A c \in reserved \ reserved' :
             ~Open(c)' /\ (c \in history'.held => c \in school.listed)
        /\ \A c \in Courses : Open(c)' /\ c \notin reserved' =>
             Opens(x, c)' \/ (Open(c) /\ ~Opens(x, c))
    BY <1>e, <2>2
  <2>8. QED BY <1>a, <1>e, <2>1, <2>2, <2>3, <2>5, <2>6, <2>7, KeptByOne DEF Same
<1>12. ASSUME NEW x \in Callers, Transmit(x) PROVE Kept'
  <2>1. /\ UNCHANGED <<rows, reserved, school>> /\ call[x].pc = "post" /\ call[x].wire = "unsent"
        /\ call' = [call EXCEPT ![x].wire = "sent"]
    BY <1>12 DEF Transmit, durable, At
  <2>2. history'.lost = history.lost /\ history'.held = history.held
    BY <1>12, <1>a DEF Transmit, TypeOK
  <2>3. QED BY <1>b, <1>e, <2>1, <2>2 DEF Wires
<1>13. ASSUME NEW x \in Callers, NEW answer \in {"accepted", "refused", "already"},
              SchoolHandles(x, answer)
       PROVE  Kept'
  <2>1. /\ UNCHANGED <<rows, reserved>> /\ call[x].pc = "post" /\ call[x].wire = "sent"
        /\ call' = [call EXCEPT ![x].wire = answer]
    BY <1>13 DEF SchoolHandles, durable, At
  <2>2. Action(x) \in Writes
    BY <1>c, <2>1
  <2>3. CASE answer # "accepted"
    <3>1. UNCHANGED <<school, history>>
      BY <1>13, <2>3 DEF SchoolHandles
    <3>2. QED BY <1>b, <1>e, <2>1, <3>1 DEF Wires
  <2>4. CASE answer = "accepted" /\ Action(x) = "select"
    <3>1. /\ school'.enrolled = school.enrolled \cup {Course(x)} /\ school'.listed = school.listed
          /\ history'.held = history.held \cup ({Course(x)} \cap Contested)
          /\ history'.lost = history.lost
      BY <1>13, <1>a, <2>4 DEF SchoolHandles, Applied, HeldAfter, TypeOK
    <3>2. /\ history'.held \subseteq school'.enrolled \cap Contested
          /\ \A c \in history'.held \ history.held : c = Course(x)
      BY <1>b, <3>1
    <3>3. QED BY <1>e, <2>1, <2>4, <3>1, <3>2 DEF Wires
  <2>5. CASE answer = "accepted" /\ Action(x) = "drop"
    <3>1. /\ school'.enrolled = school.enrolled \ {Course(x)} /\ school'.listed = school.listed
          /\ history'.held = history.held \ {Course(x)}
          /\ history'.lost = history.lost
      BY <1>13, <1>a, <2>5 DEF SchoolHandles, Applied, HeldAfter, TypeOK
    <3>2. /\ history'.held \subseteq school'.enrolled \cap Contested
          /\ \A c \in history'.held : c \in history.held
      BY <1>b, <3>1
    <3>3. QED BY <1>e, <2>1, <2>5, <3>1, <3>2 DEF Wires
  <2>6. QED BY <2>2, <2>3, <2>4, <2>5 DEF Writes
\* The row of x is written and x goes on to reserve, or had nothing to reserve.
<1>f. ASSUME NEW x \in Callers, call[x].pc \in {"post", "reserve"},
             NEW row \in Row, SetKey(x, row), UNCHANGED <<reserved, school>>,
             history'.lost = history.lost, history'.held = history.held,
             \A y \in Callers \ {x} : call'[y] = call[y],
             \/ call'[x].pc = "reserve" /\ Action(x)' = Action(x) /\ Course(x)' = Course(x)
             \/ Action(x) # "select" /\ call'[x].pc \in {"idle", "verify"}
      PROVE  Kept'
  <2>1. \A c \in Courses : Action(x) # "select" \/ c # Course(x) => Open(c)' = Open(c)
    BY <1>a, <1>c, <1>f, OpenSet
  <2>2. \A c : (Opens(x, c) => Opens(x, c)') /\ (Accepts(x, c) => Accepts(x, c)')
    BY <1>f DEF Opens, Accepts, At
  <2>3. \A c \in Courses : Action(x) = "select" /\ c = Course(x) => Opens(x, c)
    BY <1>f DEF Opens
  <2>4. \A c \in Courses : Open(c)' => Opens(x, c)' \/ (Open(c) /\ ~Opens(x, c))
    BY <2>1, <2>2, <2>3
  <2>5. Fine(x)'
    BY <1>f, FineFromThere
  <2>6. QED BY <1>a, <1>c, <1>f, <2>2, <2>4, <2>5, KeptByQuiet
<1>14. ASSUME NEW x \in Callers, Reply(x) PROVE Kept'
  <2>1. /\ UNCHANGED <<reserved, school>> /\ call[x].pc = "post"
        /\ history'.lost = history.lost /\ history'.held = history.held
    BY <1>14, <1>a DEF Reply, TypeOK, At
  <2>2. Key(x) \in Row /\ Key(x).state = "pending"
    BY <1>b, <1>c, <2>1 DEF CallFine
  <2>3. /\ Finished(Key(x), "success", 0) \in Row /\ Finished(Key(x), "failed", 0) \in Row
        /\ Finished(Key(x), "failed", 0).state \notin Unsettled
    BY <2>2, RowTypes DEF Finished, Unsettled, Row
  <2>4. CASE call[x].wire = "refused"
    <3>1. SetKey(x, Finished(Key(x), "failed", 0)) /\ Leave(x)
      BY <1>14, <2>4 DEF Reply
    <3>2. QED BY <1>d, <2>1, <2>3, <2>4, <3>1
  <2>5. CASE call[x].wire # "refused"
    <3>1. /\ SetKey(x, Finished(Key(x), "success", 0)) \/ SetKey(x, Finished(Key(x), "failed", 0))
          /\ Goto(x, "reserve") \/ (Action(x) # "select" /\ ToVerify(x))
      BY <1>14, <2>5 DEF Reply
    <3>2. /\ \A y \in Callers \ {x} : call'[y] = call[y]
          /\ \/ call'[x].pc = "reserve" /\ Action(x)' = Action(x) /\ Course(x)' = Course(x)
             \/ Action(x) # "select" /\ call'[x].pc \in {"idle", "verify"}
      BY <1>a, <3>1, GotoStep, ToVerifyStep DEF Places, Same, At
    <3>3. QED BY <1>f, <2>1, <2>3, <3>1, <3>2
  <2>6. QED BY <2>4, <2>5
<1>15. ASSUME NEW x \in Callers, ReplyLost(x) PROVE Kept'
  <2>1. /\ UNCHANGED <<reserved, school, history>> /\ call[x].pc = "post"
        /\ SetKey(x, Finished(Key(x), "uncertain", 0))
    BY <1>15 DEF ReplyLost, At
  <2>2. Finished(Key(x), "uncertain", 0) \in Row
    BY <1>c, <2>1, RowTypes DEF Unsettled, OpStates
  <2>3. /\ \A y \in Callers \ {x} : call'[y] = call[y]
        /\ \/ call'[x].pc = "reserve" /\ Action(x)' = Action(x) /\ Course(x)' = Course(x)
           \/ Action(x) # "select" /\ call'[x].pc \in {"idle", "verify"}
    BY <1>15, <1>a, MoveStep, LeaveStep DEF ReplyLost, Places, Wires, Same
  <2>4. QED BY <1>f, <2>1, <2>2, <2>3
<1>16. ASSUME NEW x \in Callers, Confirm(x) PROVE Kept'
  <2>1. /\ UNCHANGED <<reserved, school, history>> /\ call[x].pc = "reserve"
        /\ SetKey(x, Confirmed(Key(x), 0))
    BY <1>16 DEF Confirm, At
  <2>2. Confirmed(Key(x), 0) \in Row
    BY <1>c, <2>1, RowTypes
  <2>3. /\ \A y \in Callers \ {x} : call'[y] = call[y]
        /\ call'[x].pc = "reserve" /\ Action(x)' = Action(x) /\ Course(x)' = Course(x)
    BY <1>16, <1>a, <2>1, WireStep DEF Confirm, Wires, Same
  <2>4. QED BY <1>f, <2>1, <2>2, <2>3
<1>17. ASSUME NEW x \in Callers, Reserve(x) PROVE Kept'
  <2>1. /\ UNCHANGED <<rows, school, history>> /\ call[x].pc = "reserve"
        /\ reserved' = reserved \cup {Course(x)}
    BY <1>17 DEF Reserve, At
  <2>2. /\ call'[x].pc \in {"idle", "verify"}
        /\ \A y \in Callers \ {x} : call'[y] = call[y]
    BY <1>17, <1>a, LeaveStep, ToVerifyStep DEF Reserve, At
  <2>3. \A c : (Opens(x, c) \/ Accepts(x, c)) => c \in reserved'
    BY <2>1 DEF Opens, Accepts
  <2>4. QED BY <1>a, <1>c, <2>1, <2>2, <2>3, FineFromThere, SameRows, KeptByQuiet
<1>18. ASSUME NEW x \in Callers, Verified(x) PROVE Kept'
  <2> DEFINE selected == Action(x) = "select" /\ Course(x) \in call[x].seen
             settled == SettledFor(rows["select"], {Course(x)})
             forgotten == ForgottenFor(rows["select"], {Course(x)})
  <2>1. /\ call[x].pc = "verified" /\ UNCHANGED school /\ Leave(x)
        /\ reserved' = IF selected THEN reserved \ {Course(x)} ELSE reserved
        /\ history'.lost = history.lost /\ history'.held = history.held
    BY <1>18, <1>a DEF Verified, TypeOK, At
  <2>2. \A c \in Courses : Open(c)' => Open(c) /\ ~(selected /\ c = Course(x))
    <3> SUFFICES ASSUME NEW c \in Courses, Open(c)'
                 PROVE  Open(c) /\ ~(selected /\ c = Course(x))
      OBVIOUS
    <3>1. PICK s \in Scopes : rows'["select"][c][s].state \in Unsettled
      BY DEF Open, Group, Unsettled
    <3>2. rows["select"] \in [Courses -> [Scopes -> Row]]
      BY <1>a DEF TypeOK, Writes
    <3>3. \/ rows'["select"] = settled
          \/ ~selected /\ rows'["select"] \in {forgotten, rows["select"]}
      BY <1>18, <1>a DEF Verified, TypeOK, Writes
    <3>4. /\ rows["select"][c][s].state \in Unsettled
          /\ rows'["select"] = settled => c # Course(x)
      BY <3>1, <3>2, <3>3, OpenTables
    <3>5. QED BY <3>3, <3>4, OpenRows
  <2>3. \A c : ~Opens(x, c) /\ ~Accepts(x, c)
    BY <2>1, NothingYet
  <2>4. /\ \A y \in Callers \ {x} : call'[y] = call[y]
        /\ call'[x].pc = "idle"
    BY <1>a, <2>1, LeaveStep
  <2>5. \A c \in reserved \ reserved' : ~Open(c)' /\ (c \in history'.held => c \in school.listed)
    BY <1>b, <1>c, <2>1, <2>2 DEF Fine, SeenFine
  <2>6. history'.held \subseteq school'.enrolled \cap Contested
    BY <1>b, <2>1
  <2> HIDE DEF selected, settled, forgotten
  <2>7. QED BY <1>a, <1>c, <2>1, <2>2, <2>3, <2>4, <2>5, <2>6, FineFromThere, KeptByOne
<1>19. ASSUME UNCHANGED <<rows, reserved, call>>, history'.lost = history.lost,
              history'.held \subseteq history.held, history'.held \subseteq school'.enrolled,
              \A c \in history'.held : c \in school.listed => c \in school'.listed
       PROVE  Kept'
  BY <1>19, KeptOutside
<1>20. ASSUME \/ \E r \in Readers : PageReads(r) \/ PageObserves(r)
              \/ \E c \in Courses : EnrolElsewhere(c)
              \/ Published \/ UNCHANGED vars
       PROVE  Kept'
  <2>1. UNCHANGED <<rows, reserved, call, history>>
    BY <1>20 DEF PageReads, PageObserves, EnrolElsewhere, Published, durable, vars
  <2>2. \/ school' = school
        \/ school.enrolled \subseteq school'.enrolled /\ school'.listed = school.listed
        \/ school'.enrolled = school.enrolled /\ school'.listed = school.enrolled
    BY <1>20, <1>a DEF PageReads, PageObserves, EnrolElsewhere, Published, durable, vars, TypeOK
  <2>3. QED BY <1>19, <1>b, <2>1, <2>2
<1>21. ASSUME NEW c \in Courses, DropElsewhere(c) PROVE Kept'
  <2>1. /\ UNCHANGED <<rows, reserved, call>> /\ history'.lost = history.lost
        /\ history'.held = history.held \ {c} /\ school'.listed = school.listed
        /\ school'.enrolled = school.enrolled \ {c}
    BY <1>21, <1>a DEF DropElsewhere, durable, TypeOK
  <2>2. QED BY <1>19, <1>b, <2>1
<1>22. ASSUME NEW a \in Writes, NEW c \in Courses, StrayHandled(a, c) PROVE Kept'
  <2>1. UNCHANGED <<rows, reserved, call>>
    BY <1>22 DEF StrayHandled, durable
  <2>2. CASE UNCHANGED <<school, history>>
    BY <1>19, <1>b, <2>1, <2>2
  <2>3. CASE /\ school' = Applied(a, c)
             /\ history' = [history EXCEPT !.held = IF a = "drop" THEN @ \ {c} ELSE @]
    <3>1. /\ history'.lost = history.lost /\ school'.listed = school.listed
          /\ history'.held = IF a = "drop" THEN history.held \ {c} ELSE history.held
          /\ school'.enrolled = IF a = "drop" THEN school.enrolled \ {c} ELSE school.enrolled \cup {c}
      BY <1>a, <2>3 DEF Applied, TypeOK, Writes
    <3>2. QED BY <1>19, <1>b, <2>1, <3>1
  <2>4. QED BY <1>22, <2>2, <2>3 DEF StrayHandled
<1>23. CASE Crash
  <2> DEFINE cut == {x \in Callers : call[x].pc \in {"quota", "post", "reserve"}}
             more == Contested \cap {Course(x) : x \in {y \in cut : Action(y) = "select"}}
  <2>1. /\ UNCHANGED <<rows, reserved, school>> /\ \A x \in Callers : call'[x].pc = "idle"
        /\ history'.held = history.held /\ history'.lost = history.lost \cup more
    BY <1>23, <1>a DEF Crash, durable, TypeOK, Idle
  <2>2. \A c \in Contested : (\E x \in Callers : Opens(x, c) \/ Accepts(x, c)) => c \in more
    BY DEF Opens, Accepts, At
  <2> HIDE DEF more
  <2>3. \A x \in Callers : Fine(x)'
    BY <2>1, FineFromThere
  <2>4. HeldShown'
    BY <1>b, <2>1, <2>2 DEF Kept, HeldShown, Contested
  <2>5. OpenReserved'
    BY <2>1, <2>2, SameRows DEF Kept, OpenReserved, Contested
  <2>6. QED BY <2>3, <2>4, <2>5 DEF Kept
<1>24. QED
  BY <1>1, <1>2, <1>3, <1>4, <1>5, <1>6, <1>7, <1>8, <1>9, <1>10, <1>11, <1>12, <1>13,
     <1>14, <1>15, <1>16, <1>17, <1>18, <1>20, <1>21, <1>22, <1>23
     DEF Next, Thread, Network

\* A request leaves by Transmit alone.
LEMMA SentByTransmit ==
  ASSUME TypeOK, Next, NEW x \in Callers, call[x].wire # "sent", call'[x].wire = "sent"
  PROVE  Transmit(x)
<1>1. ASSUME NEW y \in Callers, NEW r, r.wire # "sent" \/ r.wire = call[y].wire,
             call' = [call EXCEPT ![y] = r]
      PROVE  FALSE
  BY <1>1 DEF TypeOK
<1>2. ASSUME NEW y \in Callers,
             Leave(y) \/ ToVerify(y) \/ \E a \in Writes \cup {"sync"}, c \in Courses : Ask(y, a, c)
      PROVE  FALSE
  <2>1. Idle.wire = "none" /\ Idle \in CallType
    BY IdleType DEF Idle
  <2>2. ASSUME NEW p, NEW a, NEW c, call' = [call EXCEPT ![y] = [Idle EXCEPT
                 !.pc = p, !.action = a, !.course = c]]
        PROVE  FALSE
    <3> DEFINE r == [Idle EXCEPT !.pc = p, !.action = a, !.course = c]
    <3>1. r.wire = "none"
      BY <2>1 DEF CallType
    <3>2. call' = [call EXCEPT ![y] = r]
      BY <2>2
    <3> HIDE DEF r
    <3>3. QED BY <1>1, <3>1, <3>2
  <2>3. CASE Leave(y)
    BY <1>1, <2>1, <2>3 DEF Leave
  <2>4. CASE ToVerify(y)
    BY <2>2, <2>4 DEF ToVerify
  <2>5. CASE \E a \in Writes \cup {"sync"}, c \in Courses : Ask(y, a, c)
    <3>1. PICK a \in Writes \cup {"sync"}, c \in Courses : Ask(y, a, c)
      BY <2>5
    <3>2. call' = [call EXCEPT ![y] = [Idle EXCEPT !.pc = "lock", !.action = a, !.course = c]]
      BY <3>1 DEF Ask
    <3>3. QED BY <2>2, <3>2
  <2>6. QED BY <1>2, <2>3, <2>4, <2>5
<1>4. ASSUME NEW y \in Callers, NEW s, NEW late,
             \/ call' = [call EXCEPT ![y].pc = "submit", ![y].scope = s, ![y].seen = {}]
             \/ call' = [call EXCEPT ![y].pc = "list", ![y].late = late]
             \/ \E p : call' = [call EXCEPT ![y].seen = s, ![y].pc = p]
      PROVE  FALSE
  <2>1. call[y] \in CallType
    BY RecordTypes
  <2>2. CASE call' = [call EXCEPT ![y].pc = "submit", ![y].scope = s, ![y].seen = {}]
    <3> DEFINE r == [call[y] EXCEPT !.pc = "submit", !.scope = s, !.seen = {}]
    <3>1. r.wire = call[y].wire
      BY <2>1 DEF CallType
    <3>2. call' = [call EXCEPT ![y] = r]
      BY <2>2 DEF TypeOK
    <3> HIDE DEF r
    <3>3. QED BY <1>1, <3>1, <3>2
  <2>3. CASE call' = [call EXCEPT ![y].pc = "list", ![y].late = late]
    <3> DEFINE r == [call[y] EXCEPT !.pc = "list", !.late = late]
    <3>1. r.wire = call[y].wire
      BY <2>1 DEF CallType
    <3>2. call' = [call EXCEPT ![y] = r]
      BY <2>3 DEF TypeOK
    <3> HIDE DEF r
    <3>3. QED BY <1>1, <3>1, <3>2
  <2>4. ASSUME NEW p, call' = [call EXCEPT ![y].seen = s, ![y].pc = p] PROVE FALSE
    <3> DEFINE r == [call[y] EXCEPT !.seen = s, !.pc = p]
    <3>1. r.wire = call[y].wire
      BY <2>1 DEF CallType
    <3>2. call' = [call EXCEPT ![y] = r]
      BY <2>4 DEF TypeOK
    <3> HIDE DEF r
    <3>3. QED BY <1>1, <3>1, <3>2
  <2>5. QED BY <1>4, <2>2, <2>3, <2>4
<1>3. ASSUME NEW y \in Callers, NEW p \in Places, call' = [call EXCEPT ![y].pc = p]
      PROVE  FALSE
  BY <1>3, PlaceStep DEF Same
<1>w. ASSUME NEW y \in Callers, NEW p \in Places, NEW w \in Wires \ {"sent"},
             \/ call' = [call EXCEPT ![y].pc = p, ![y].wire = w]
             \/ call' = [call EXCEPT ![y].wire = w]
      PROVE  FALSE
  BY <1>w, MoveStep, WireStep DEF Same
<1>5. call' # call
  OBVIOUS
<1>6. ~Crash
  BY DEF Crash, Idle
<1>7. PICK y \in Callers : Thread(y) \/ Network(y)
  BY <1>5, <1>6 DEF Next, PageReads, PageObserves, EnrolElsewhere, DropElsewhere,
                    StrayHandled, Published
<1>8. CASE Network(y)
  <2>1. CASE Transmit(y)
    <3>1. call'[y].wire = "sent" /\ Same(y)
      BY <2>1, WireStep DEF Transmit, Wires
    <3>2. QED BY <2>1, <3>1 DEF Same
  <2>2. CASE \E answer \in {"accepted", "refused", "already"} : SchoolHandles(y, answer)
        <3>1. PICK answer \in {"accepted", "refused", "already"} :
            call' = [call EXCEPT ![y].wire = answer]
      BY <2>2 DEF SchoolHandles
    <3>2. answer \in Wires \ {"sent"} /\ "post" \in Places
      BY DEF Wires, Places
    <3>3. QED BY <1>w, <3>1, <3>2
  <2>3. QED BY <1>8, <2>1, <2>2 DEF Network
<1>9. /\ ~Leave(y) /\ ~ToVerify(y) /\ ~ToSubmit(y)
      /\ \A p \in Places : ~Goto(y, p)
  <2>1. ~Leave(y) /\ ~ToVerify(y)
    BY <1>2
  <2>2. ASSUME ToSubmit(y) PROVE FALSE
    <3>1. PICK s \in Scopes : call' = [call EXCEPT ![y].pc = "submit", ![y].scope = s, ![y].seen = {}]
      BY <2>2 DEF ToSubmit
    <3>2. QED BY <1>4, <3>1
  <2>3. ASSUME NEW p \in Places, Goto(y, p) PROVE FALSE
    BY <1>3, <2>3 DEF Goto
  <2>4. QED BY <2>1, <2>2, <2>3
<1>p. /\ {"pool", "quota", "post", "reserve"} \subseteq Places
      /\ {"unsent", "lost", "accepted"} \subseteq Wires \ {"sent"}
  BY DEF Places, Wires
<1>10. CASE Thread(y)
  <2>1. CASE \E ask \in Asked[y] : Ask(y, ask[1], ask[2])
    BY <1>2, <2>1, BoyaAssumption
  <2>2. CASE Enter(y)
    <3>1. call' = [call EXCEPT ![y].pc = "list",
             ![y].late = Automatic(y) /\ Course(y) \in history.declined]
      BY <1>9, <2>2 DEF Enter
    <3>2. QED BY <1>4, <3>1
  <2>3. CASE ListReplies(y)
    <3> DEFINE p == IF At(y, "list") THEN "observe" ELSE "verified"
    <3>1. call' = [call EXCEPT ![y].seen = school.listed, ![y].pc = p]
      BY <2>3 DEF ListReplies
    <3>2. QED BY <1>4, <3>1
  <2>4. CASE Observed(y) \/ PoolReplies(y) \/ Abandoned(y) \/ Refused(y) \/ AlreadyAccepted(y)
    BY <1>9, <1>p, <2>4 DEF Observed, PoolReplies, Abandoned, Refused, AlreadyAccepted
  <2>5. CASE Claim(y)
    <3>1. \/ call' = [call EXCEPT ![y].pc = "quota"]
          \/ call' = [call EXCEPT ![y].pc = "post", ![y].wire = "unsent"]
      BY <2>5 DEF Claim
    <3>2. QED BY <1>3, <1>w, <1>p, <3>1
  <2>6. CASE ClaimQuota(y)
    <3>1. call' = [call EXCEPT ![y].pc = "post", ![y].wire = "unsent"]
      BY <1>9, <2>6 DEF ClaimQuota
    <3>2. QED BY <1>w, <1>p, <3>1
  <2>7. CASE ConnectFails(y) \/ Reply(y) \/ Reserve(y) \/ Verified(y)
    BY <1>9, <1>p, <2>7 DEF ConnectFails, Reply, Reserve, Verified
  <2>8. CASE ReplyLost(y)
    <3>1. call' = [call EXCEPT ![y].pc = "reserve", ![y].wire = "lost"]
      BY <1>9, <2>8 DEF ReplyLost
    <3>2. QED BY <1>w, <1>p, <3>1
  <2>9. CASE Confirm(y)
    <3>1. call' = [call EXCEPT ![y].wire = "accepted"]
      BY <2>9 DEF Confirm
    <3>2. QED BY <1>w, <1>p, <3>1
  <2>10. QED BY <1>10, <2>1, <2>2, <2>3, <2>4, <2>5, <2>6, <2>7, <2>8, <2>9 DEF Thread
<1>11. QED BY <1>7, <1>8, <1>10

\* The daemon requests the selection of no lecture whose rival the program has
\* selected or may have selected: what perform_boya_action reserves, and the
\* official list it reads, are known before the request is built.
THEOREM BoyaNoConflict == Spec => NoConflictingHold
<1>1. Init => IInv /\ Kept
  BY InvInit, KeptInit
<1>2. (IInv /\ Kept) /\ [Next]_vars => (IInv /\ Kept)'
  BY InvStep, KeptStep
<1> DEFINE Step == \A x \in Callers :
             call[x].wire = "unsent" /\ call'[x].wire = "sent" /\ Automatic(x) =>
               \A c \in Exclusive[Course(x)] \ {Course(x)} :
                 c \notin history.lost => ~Open(c) /\ c \notin history.held
<1>3. (IInv /\ Kept) /\ [Next]_vars => [Step]_vars
  <2> SUFFICES ASSUME IInv, Kept, Next, NEW x \in Callers,
                      call[x].wire = "unsent", call'[x].wire = "sent", Automatic(x),
                      NEW c \in Exclusive[Course(x)] \ {Course(x)}, c \notin history.lost
               PROVE  ~Open(c) /\ c \notin history.held
    OBVIOUS
  <2>1. Transmit(x)
    BY SentByTransmit DEF IInv
  <2>2. Fine(x) /\ Unsent(x)
    BY <2>1 DEF Transmit, Kept, Unsent
  <2>3. QED BY <2>2 DEF Fine, Clear
<1>4. QED BY <1>1, <1>2, <1>3, PTL DEF Spec, NoConflictingHold
=============================================================================
