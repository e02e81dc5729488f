----------------------- MODULE SigninScheduler_proofs -----------------------
(***************************************************************************)
(* Proofs about the whole sign-in system: the daemon, the account's        *)
(* handlers, the button and perform_signin together, for any number of     *)
(* lessons, buttons, handlers and clients.                                 *)
(***************************************************************************)
EXTENDS SigninScheduler, IclassSignin_proofs

(***************************************************************************)
(* Who calls: the buttons, and the daemon for the lesson of its pass; a    *)
(* handler never calls perform_signin.                                     *)
(***************************************************************************)
Linked ==
  /\ \A x \in Callers : ~At(x, "idle") => x \in Buttons \/ (x = Caller /\ PassAt("signing"))
  /\ PassAt("signing") => ~At(Caller, "idle") /\ Course(Caller) = pass.course

\* What is taken for signed is signed.
Truthful ==
  /\ \A c \in Courses : ledger[c].state = "success" => signed[c]
  /\ \A x \in Callers :
       \/ call[x].wire = "accepted"
       \/ At(x, "returned") /\ call[x].result = "true"
       => signed[Course(x)]

Remembered == \A c \in pass.shown \cup memory.signed : signed[c]

\* A pause the student counts on is in force.
PauseKept == \A c \in Courses : wanted[c] => pause[c].saved \/ pause[c].failsafe

(***************************************************************************)
(* Custody: of the handlers, the holder of auth_lock alone is at work, on  *)
(* the account's client, and in maintenance unless it removes the account. *)
(***************************************************************************)
AtWork(a) == admin[a].pc \in {"sign", "work"}

Custody ==
  \A a \in Admins :
    /\ AtWork(a) <=> authLock = a
    /\ AtWork(a) => admin[a].client = account.client
    /\ AtWork(a) /\ admin[a].kind # "dispose" => account.maintenance
    /\ AdminAt(a, "work") => lock[admin[a].client] = a

\* The pass has an epoch that means something, and will not take a new one first.
Dated ==
  \/ pass.pc \in {"list", "courses", "signing", "refresh"}
  \/ PassAt("reconnect") /\ pass.site = "after"

PassFresh ==
  /\ Dated =>
       /\ pass.epoch <= account.epoch
       /\ pass.epoch = account.epoch =>
            /\ pass.client = account.client
            /\ \A a \in Admins : AtWork(a) => admin[a].kind = "dispose"
  /\ PassAt("reconnect") /\ AdminAt(Reconnector, "idle") /\ ~account.removed
       => authLock = Nobody

\* Who is inside perform_signin is so on the account's present client.
InsidePresent == \A x \in Callers : Entered(x) => Client(x) = account.client

\* A call whose authority was withdrawn finds its guard closed from then on.
Barred ==
  /\ \A x \in Callers : born[x] <= account.epoch
  /\ \A x \in revoked :
       /\ ~At(x, "idle")
       /\ x \in Buttons => account.removed \/ born[x] < account.epoch
       /\ x \notin Buttons =>
            pass.cancelled \/ account.removed \/ pass.epoch < account.epoch

SysInv ==
  /\ IInv /\ AccountTypeOK /\ SchedulerTypeOK
  /\ Linked /\ LockHeld /\ Truthful /\ Remembered /\ PauseKept
  /\ Custody /\ PassFresh /\ InsidePresent /\ Barred

(***************************************************************************)
(* Lessons given up.                                                       *)
(***************************************************************************)
\* No refund can come any more.
Spent(c) ==
  /\ ledger[c].attempts >= MaxPosts
  /\ \A x \in Callers : Sending(x) => Course(x) # c

\* What was given up is spent, unless the count was not final; and a count that
\* reached the limit without a row was not.
GivenUp ==
  /\ \A c \in memory.failed \ memory.misjudged : Spent(c)
  /\ \A c \in Courses :
       memory.retry[c] >= MaxPosts /\ ledger[c].state = "none" => c \in memory.misjudged

(***************************************************************************)
(* The quiet day.                                                          *)
(***************************************************************************)
OneLesson == \A c, d \in Courses : c = d

Timely ==
  /\ Interval > 0
  /\ \A c \in Courses :
       /\ Lesson[c].opens + Interval + Margin <= Lesson[c].starts
       /\ Lesson[c].starts <= Lesson[c].ends

Half == Margin \div 2

Undisturbed ==
  /\ daemon.enabled /\ account.auto /\ RequestGuard
  /\ pass.pc \in {"idle", "queued", "list", "courses", "signing"}
  /\ pass.client = account.client /\ ~pass.cancelled /\ pass.shown = {}
  /\ ~PassAt("idle") => pass.generation = daemon.generation
  /\ pass.pc \in {"list", "courses"} => pass.epoch = account.epoch
  /\ \A k \in Clients : session[k]
  /\ \A c \in Courses : /\ ~pause[c].saved /\ ~pause[c].failsafe
                       /\ ledger[c] = NoRow
  /\ memory.signed = {} /\ memory.failed = {}
  /\ pass.course # NoCourse <=> PassAt("signing")

\* The pass under way has been over the lesson.
LookedAt(c) == PassAt("courses") /\ c \notin pass.todo

InTime ==
  /\ now <= daemon.wake + (IF PassAt("idle") THEN 0 ELSE Half)
  /\ ~PassAt("idle") => daemon.wake <= now
  /\ ~PassAt("signing") => \A c \in Courses :
       /\ memory.planned[c] # NoTarget =>
            memory.planned[c] + Interval + Margin <= Lesson[c].starts
       /\ IF LookedAt(c) THEN daemon.wake + Interval + Margin < Lesson[c].starts
          ELSE daemon.wake + Half < Lesson[c].starts
-----------------------------------------------------------------------------
(***************************************************************************)
(* Who is who.                                                             *)
(***************************************************************************)
LEMMA WhoIsWho ==
  /\ Buttons \subseteq Callers /\ Admins \subseteq Callers
  /\ Buttons \cap Admins = {} /\ Reconnector \in Admins
  /\ \A k \in Clients : /\ DaemonOf[k] \in Callers
                        /\ DaemonOf[k] \notin Buttons /\ DaemonOf[k] \notin Admins
                        /\ ClientOf[DaemonOf[k]] = k
BY SchedulerAssumption, AccountAssumption

LEMMA TheCaller ==
  ASSUME SchedulerTypeOK
  PROVE  /\ pass.client \in Clients
         /\ Caller \in Callers /\ Caller \notin Buttons /\ Caller \notin Admins
         /\ Client(Caller) = pass.client
BY WhoIsWho DEF SchedulerTypeOK, Caller, Client

(***************************************************************************)
(* Types.                                                                  *)
(***************************************************************************)
PassPlaces == {"idle", "queued", "reconnect", "list", "courses", "signing", "refresh"}

PassType ==
  [pc : PassPlaces, site : {"none", "first", "again", "after"}, generation : Nat,
   epoch : Nat, client : Clients, todo : SUBSET Courses,
   shown : SUBSET Courses, course : Courses \cup {NoCourse},
   others : Int, relisted : BOOLEAN, cancelled : BOOLEAN]

MemoryType ==
  [signed : SUBSET Courses, failed : SUBSET Courses,
   retry : [Courses -> Nat], planned : [Courses -> Nat \cup {NoTarget}],
   misjudged : SUBSET Courses]

DaemonType == [enabled : BOOLEAN, generation : Nat, wake : Nat]

AccountType == [removed : BOOLEAN, maintenance : BOOLEAN, auto : BOOLEAN,
                epoch : Nat, client : Clients, spare : SUBSET Clients]

AdminType == [pc : {"idle", "leaving", "auth", "sign", "work"},
              kind : {"connect"} \cup Kinds, client : Clients]

LEMMA TypesNamed ==
  /\ SchedulerTypeOK <=>
       /\ daemon \in DaemonType /\ pass \in PassType /\ memory \in MemoryType
       /\ pause \in [Courses -> [saved : BOOLEAN, failsafe : BOOLEAN]]
       /\ wanted \in [Courses -> BOOLEAN]
  /\ AccountTypeOK <=>
       /\ account \in AccountType /\ authLock \in Admins \cup {Nobody}
       /\ admin \in [Admins -> AdminType] /\ born \in [Callers -> Nat]
       /\ revoked \subseteq Callers
BY DEF SchedulerTypeOK, AccountTypeOK, PassType, PassPlaces, MemoryType, DaemonType,
       AccountType, AdminType

LEMMA NoMemoryType == NoMemory \in MemoryType
BY DEF NoMemory, MemoryType, NoTarget

LEMMA NoPassType ==
  ASSUME account \in AccountType
  PROVE  NoPass \in PassType
BY DEF NoPass, PassType, PassPlaces, AccountType

LEMMA PassOverType ==
  ASSUME account \in AccountType, pass \in PassType
  PROVE  /\ PassOver \in PassType
         /\ PassOver = [NoPass EXCEPT !.client = pass.client]
BY NoPassType DEF PassOver, PassType

LEMMA EndPassType ==
  ASSUME SchedulerTypeOK, AccountTypeOK, TypeOK, EndPass
  PROVE  daemon' \in DaemonType /\ pass' \in PassType
<1>1. pass' \in PassType
  BY TypesNamed, PassOverType DEF EndPass
<1>2. now \in Nat /\ Interval \in Nat
  BY SchedulerAssumption DEF TypeOK
<1>3. daemon' \in DaemonType
  BY <1>2, TypesNamed DEF EndPass, DaemonType
<1>4. QED BY <1>1, <1>3

LEMMA ReconnectType ==
  ASSUME SchedulerTypeOK, AccountTypeOK, NEW p \in PassType,
         NEW site \in {"first", "again", "after"}, Reconnect(p, site)
  PROVE  pass' \in PassType /\ admin' \in [Admins -> AdminType]
<1>1. pass' \in PassType
  BY DEF Reconnect, PassType, PassPlaces
<1>2. account.client \in Clients /\ admin \in [Admins -> AdminType]
  BY TypesNamed DEF AccountType
<1>3. [pc |-> "auth", kind |-> "connect", client |-> account.client] \in AdminType
  BY <1>2 DEF AdminType
<1>4. admin' = [admin EXCEPT ![Reconnector] =
                  [pc |-> "auth", kind |-> "connect", client |-> account.client]]
  BY DEF Reconnect
<1>5. QED BY <1>1, <1>2, <1>3, <1>4

Types == SchedulerTypeOK /\ AccountTypeOK

LEMMA WithdrawType ==
  ASSUME AccountTypeOK, NEW a \in Admins, Withdraw(a)
  PROVE  AccountTypeOK'
<1>1. admin' = [admin EXCEPT ![a].pc = "auth"]
  BY DEF Withdraw, AdminGoto
<1>2. account' = [account EXCEPT !.epoch = @ + 1, !.auto = FALSE]
  BY DEF Withdraw
<1>3. revoked' = revoked \cup InFlight /\ InFlight \subseteq Callers
  BY DEF Withdraw, InFlight
<1>4. UNCHANGED <<authLock, born>>
  BY DEF Withdraw
<1>5. account' \in AccountType
  <2>a. account \in AccountType
    BY TypesNamed
  <2>b. account.epoch \in Nat
    BY <2>a DEF AccountType
  <2>c. account.epoch + 1 \in Nat
    BY <2>b
  <2>d. QED BY <1>2, <2>a, <2>c DEF AccountType
<1>6. admin' \in [Admins -> AdminType]
  BY <1>1, TypesNamed DEF AdminType
<1>7. QED BY <1>3, <1>4, <1>5, <1>6 DEF AccountTypeOK, AdminType, AccountType

LEMMA BeginType ==
  ASSUME AccountTypeOK, NEW a \in Admins, NEW kind \in Kinds, Begin(a, kind)
  PROVE  AccountTypeOK'
<1>1. \E p \in {"leaving", "auth"} :
        admin' = [admin EXCEPT ![a] = [pc |-> p, kind |-> kind, client |-> account.client]]
  BY DEF Begin
<1>2. account' = account \/ account' = [account EXCEPT !.removed = TRUE]
  BY DEF Begin
<1>3. revoked' \subseteq Callers
  BY DEF Begin, InFlight, AccountTypeOK
<1>4. UNCHANGED <<authLock, born>>
  BY DEF Begin
<1>5. account' \in AccountType
  BY <1>2, TypesNamed DEF AccountType
<1>7. admin' \in [Admins -> AdminType]
  <2>1. PICK p \in {"leaving", "auth"} :
          admin' = [admin EXCEPT ![a] = [pc |-> p, kind |-> kind, client |-> account.client]]
    BY <1>1
  <2>2. account.client \in Clients /\ admin \in [Admins -> AdminType]
    BY TypesNamed DEF AccountType
  <2>3. [pc |-> p, kind |-> kind, client |-> account.client] \in AdminType
    BY <2>2 DEF AdminType
  <2>4. QED BY <2>1, <2>2, <2>3
<1>6. QED BY <1>3, <1>4, <1>5, <1>7 DEF AccountTypeOK, AdminType, AccountType

LEMMA AuthLockedType ==
  ASSUME AccountTypeOK, NEW a \in Admins, AuthLocked(a)
  PROVE  AccountTypeOK'
<1>1. \/ admin' = [admin EXCEPT ![a].pc = "idle"]
      \/ admin' = [admin EXCEPT ![a].pc = "sign", ![a].client = account.client]
  BY DEF AuthLocked, AdminGoto
<1>2. account' = account \/ account' = [account EXCEPT !.maintenance = TRUE, !.epoch = @ + 1]
  BY DEF AuthLocked
<1>3. revoked' = revoked \/ revoked' = revoked \cup InFlight
  BY DEF AuthLocked
<1>4. authLock' = authLock \/ authLock' = a
  BY DEF AuthLocked
<1>5. born' = born /\ InFlight \subseteq Callers
  BY DEF AuthLocked, InFlight
<1>6. account' \in AccountType
  <2>a. account \in AccountType
    BY TypesNamed
  <2>b. account.epoch \in Nat
    BY <2>a DEF AccountType
  <2>c. account.epoch + 1 \in Nat
    BY <2>b
  <2>d. QED BY <1>2, <2>a, <2>c DEF AccountType
<1>9. admin' \in [Admins -> AdminType]
  <2>1. account.client \in Clients /\ admin \in [Admins -> AdminType]
    BY TypesNamed DEF AccountType
  <2>2. QED BY <1>1, <2>1 DEF AdminType
<1>7. authLock' \in Admins \cup {Nobody} /\ revoked' \subseteq Callers /\ born' \in [Callers -> Nat]
  BY <1>3, <1>4, <1>5 DEF AccountTypeOK
<1>8. QED BY <1>6, <1>7, <1>9 DEF AccountTypeOK, AdminType, AccountType

LEMMA ReleaseType ==
  ASSUME AccountTypeOK, NEW a \in Admins, Release(a)
  PROVE  authLock' \in Admins \cup {Nobody} /\ admin' \in [Admins -> AdminType]
BY TypesNamed DEF Release, AdminGoto, AccountTypeOK, AdminType

LEMMA AbandonedType ==
  ASSUME AccountTypeOK, NEW a \in Admins, Abandoned(a)
  PROVE  AccountTypeOK'
<1>1. account' = account \/ account' = [account EXCEPT !.maintenance = FALSE]
  BY DEF Abandoned
<1>2. account' \in AccountType
  BY <1>1, TypesNamed DEF AccountType
<1>3. QED BY <1>2, ReleaseType DEF Abandoned, AccountTypeOK, AccountType, AdminType

LEMMA WorkDoneType ==
  ASSUME AccountTypeOK, TypeOK, NEW a \in Admins, WorkDone(a)
  PROVE  AccountTypeOK' /\ session' \in [Clients -> BOOLEAN]
<1>1. admin[a].client \in Clients /\ account.spare \subseteq Clients /\ account \in AccountType
  BY TypesNamed DEF AdminType, AccountType
<1>2. ASSUME NEW k \in account.spare \cup {admin[a].client}, NEW on \in BOOLEAN,
             account' = Resumed(a, k, on)
      PROVE  account' \in AccountType
  BY <1>1, <1>2 DEF Resumed, AccountType
<1>3. account' \in AccountType
  <2>1. account.auto \in BOOLEAN
    BY <1>1 DEF AccountType
  <2>2. CASE account' = account
    BY <1>1, <2>2
  <2>3. CASE admin[a].kind \in {"connect", "login"}
    BY <1>2, <2>3 DEF WorkDone
  <2>4. CASE admin[a].kind = "switch"
    BY <1>2, <2>1, <2>4 DEF WorkDone
  <2>5. QED BY <2>2, <2>3, <2>4 DEF WorkDone
<1>4. session' \in [Clients -> BOOLEAN]
  BY DEF WorkDone, TypeOK
<1>5. QED BY <1>3, <1>4, ReleaseType DEF WorkDone, AccountTypeOK, AccountType, AdminType

LEMMA CrashTypes ==
  ASSUME Types, TypeOK, SystemCrash
  PROVE  AccountTypeOK' /\ SchedulerTypeOK'
<1>1. account \in AccountType /\ pass \in PassType /\ admin \in [Admins -> AdminType]
  BY TypesNamed DEF Types
<1>2. AccountTypeOK'
  <2>1. account' \in AccountType
    <3>1. PICK gone \in {FALSE, account.removed}, on \in BOOLEAN :
            account' = [NewAccount(account.client) EXCEPT !.removed = gone, !.auto = on]
      BY DEF SystemCrash, AccountCrash
    <3>2. gone \in BOOLEAN /\ account.client \in Clients
      BY <1>1 DEF AccountType
    <3>3. NewAccount(account.client) \in AccountType
      BY <3>2 DEF NewAccount, AccountType
    <3>4. QED BY <3>1, <3>2, <3>3 DEF AccountType
  <2>2. admin' \in [Admins -> AdminType]
    BY <1>1 DEF SystemCrash, AccountCrash, AdminType
  <2>3. authLock' = Nobody /\ born' = [x \in Callers |-> 0] /\ revoked' = {}
    BY DEF SystemCrash, AccountCrash
  <2>4. QED BY <2>1, <2>2, <2>3 DEF AccountTypeOK, AccountType, AdminType
<1>3. daemon' \in DaemonType
  BY DEF SystemCrash, DaemonType, TypeOK
<1>4. pass' \in PassType
  BY <1>1, NoPassType DEF SystemCrash
<1>5. memory' \in MemoryType
  BY NoMemoryType DEF SystemCrash
<1>6. /\ pause' \in [Courses -> [saved : BOOLEAN, failsafe : BOOLEAN]]
      /\ wanted' \in [Courses -> BOOLEAN]
  BY DEF SystemCrash, Types, SchedulerTypeOK
<1>7. QED BY <1>2, <1>3, <1>4, <1>5, <1>6
          DEF SchedulerTypeOK, DaemonType, PassType, PassPlaces, MemoryType

(***************************************************************************)
(* Steps of the pass.                                                      *)
(***************************************************************************)
LEMMA TargetType ==
  ASSUME TypeOK, NEW c \in Courses
  PROVE  /\ \A n \in Nat : MinimumRetryDelay(n, Before(c)) \in Nat /\ Later(c, n) \in Nat
         /\ FirstTargets(c) \subseteq Nat
         /\ SchedulerTypeOK => Targets(c) \subseteq Nat \cup {NoTarget}
<1>1. \A n \in Nat : MinimumRetryDelay(n, Before(c)) \in Nat
  BY PolicyAssumption DEF MinimumRetryDelay
<1>2. now \in Nat /\ Backoff \in Nat /\ ledger[c].updated \in Nat /\ ledger[c].attempts \in Nat
  BY SchedulerAssumption DEF TypeOK, Row
<1>3. \A n \in Nat : Later(c, n) \in Nat
  BY <1>1, <1>2 DEF Later
<1>4. FirstTargets(c) \subseteq Nat
  BY <1>2 DEF FirstTargets
<1>5. ASSUME SchedulerTypeOK PROVE Targets(c) \subseteq Nat \cup {NoTarget}
  <2>1. memory.planned[c] \in Nat \cup {NoTarget}
    BY <1>5 DEF SchedulerTypeOK
  <2>2. ledger[c].updated + MinimumRetryDelay(ledger[c].attempts, Before(c)) \in Nat
    BY <1>1, <1>2
  <2>3. QED BY <1>2, <1>4, <2>1, <2>2 DEF Targets
<1>6. QED BY <1>1, <1>3, <1>4, <1>5

\* What an action of the pass leaves for the types of the other variables.
LEMMA PassTypes ==
  ASSUME Types, pass' \in PassType, memory' = memory \/ memory' \in MemoryType,
         daemon' = daemon \/ daemon' \in DaemonType, UNCHANGED <<pause, wanted>>
  PROVE  SchedulerTypeOK'
BY DEF Types, SchedulerTypeOK, PassType, PassPlaces, MemoryType, DaemonType

LEMMA AdminTypes ==
  ASSUME Types, admin' = admin \/ admin' \in [Admins -> AdminType],
         UNCHANGED <<account, authLock, born>>, revoked' \subseteq revoked
  PROVE  AccountTypeOK'
BY DEF Types, AccountTypeOK, AdminType

LEMMA PassStepTypes ==
  ASSUME Types, TypeOK,
         \/ PassBegins \/ PassAdmitted \/ PassCancelled
         \/ Listed \/ ListExpired \/ ListFails \/ LoopEnds
         \/ \E ok \in BOOLEAN : Reconnected(ok)
         \/ Refreshed
  PROVE  AccountTypeOK' /\ SchedulerTypeOK'
<1>0. /\ pass \in PassType /\ account \in AccountType /\ memory \in MemoryType
      /\ daemon \in DaemonType /\ daemon.generation \in Nat
      /\ account.client \in Clients /\ account.epoch \in Nat
  BY TypesNamed DEF Types, AccountType, DaemonType
<1>e. EndPass => daemon' \in DaemonType /\ pass' \in PassType
  BY EndPassType DEF Types
<1>1. CASE PassBegins
  <2>1. NoPass \in PassType
    BY <1>0, NoPassType
  <2>2. pass' \in PassType /\ (daemon' = daemon \/ daemon' \in DaemonType)
    BY <1>0, <1>1, <1>e, <2>1 DEF PassBegins, PassType, PassPlaces
  <2>3. QED BY <1>1, <2>2, PassTypes, AdminTypes DEF PassBegins, accountVars
<1>2. CASE PassAdmitted
  <2> DEFINE here == [pass EXCEPT !.pc = "list", !.epoch = account.epoch]
  <2>1. here \in PassType
    BY <1>0 DEF PassType, PassPlaces
  <2>2. \/ pass' = here /\ UNCHANGED <<admin, daemon>>
        \/ Reconnect(here, "first") /\ UNCHANGED daemon
        \/ EndPass /\ UNCHANGED admin
    BY <1>2 DEF PassAdmitted
  <2> HIDE DEF here
  <2>3. /\ pass' \in PassType /\ (daemon' = daemon \/ daemon' \in DaemonType)
        /\ admin' = admin \/ admin' \in [Admins -> AdminType]
    BY <1>e, <2>1, <2>2, ReconnectType DEF Types
  <2>4. QED BY <1>2, <2>3, PassTypes, AdminTypes DEF PassAdmitted
<1>3. CASE PassCancelled
  <2>1. pass' \in PassType
    BY <1>0, <1>3, PassOverType DEF PassCancelled
  <2>2. SchedulerTypeOK'
    BY <1>3, <2>1, PassTypes DEF PassCancelled
  <2>3. AccountTypeOK'
    <3>1. Reconnector \in Admins
      BY WhoIsWho
    <3>2. CASE Abandoned(Reconnector) \/ WorkDone(Reconnector)
      BY <3>1, <3>2, AbandonedType, WorkDoneType DEF Types
    <3>3. CASE UNCHANGED accountVars
      BY <3>3, AdminTypes DEF Types, accountVars
    <3>4. QED BY <1>3, <3>2, <3>3 DEF PassCancelled
  <2>4. QED BY <2>2, <2>3
<1>4. CASE Listed
  <2>1. PICK todo \in SUBSET Courses : \E shown \in SUBSET todo :
          pass' = [pass EXCEPT !.pc = "courses", !.todo = todo, !.shown = shown]
    BY <1>4, SchedulerAssumption DEF Listed
  <2>2. pass' \in PassType
    BY <1>0, <2>1 DEF PassType, PassPlaces
  <2>3. QED BY <1>4, <2>2, PassTypes, AdminTypes DEF Listed, accountVars
<1>5. CASE ListExpired
  <2>1. \/ EndPass /\ UNCHANGED admin
        \/ Reconnect(pass, "again") /\ UNCHANGED daemon
    BY <1>5 DEF ListExpired
  <2>2. /\ pass' \in PassType /\ (daemon' = daemon \/ daemon' \in DaemonType)
        /\ admin' = admin \/ admin' \in [Admins -> AdminType]
    BY <1>0, <1>e, <2>1, ReconnectType DEF Types
  <2>3. QED BY <1>5, <2>2, PassTypes, AdminTypes DEF ListExpired
<1>6. CASE ListFails \/ LoopEnds
  BY <1>6, <1>e, PassTypes, AdminTypes DEF ListFails, LoopEnds, accountVars
<1>7. ASSUME NEW ok \in BOOLEAN, Reconnected(ok) PROVE AccountTypeOK' /\ SchedulerTypeOK'
  <2>1. \/ pass' = [pass EXCEPT !.pc = "courses", !.site = "none"] /\ UNCHANGED daemon
        \/ /\ pass' = [pass EXCEPT !.pc = "list", !.site = "none",
                        !.client = account.client, !.epoch = account.epoch,
                        !.relisted = @ \/ pass.site = "again"]
           /\ UNCHANGED daemon
        \/ EndPass
    BY <1>7 DEF Reconnected
  <2>2. pass' \in PassType /\ (daemon' = daemon \/ daemon' \in DaemonType)
    <3>1. CASE EndPass
      BY <1>e, <3>1
    <3>2. CASE pass' = [pass EXCEPT !.pc = "courses", !.site = "none"] /\ UNCHANGED daemon
      BY <1>0, <3>2 DEF PassType, PassPlaces
    <3>3. CASE /\ pass' = [pass EXCEPT !.pc = "list", !.site = "none",
                            !.client = account.client, !.epoch = account.epoch,
                            !.relisted = @ \/ pass.site = "again"]
               /\ UNCHANGED daemon
      <4>1. (pass.relisted \/ pass.site = "again") \in BOOLEAN
        OBVIOUS
      <4>2. QED BY <1>0, <3>3, <4>1 DEF PassType, PassPlaces
    <3>4. QED BY <2>1, <3>1, <3>2, <3>3
  <2>3. QED BY <1>7, <2>2, PassTypes, AdminTypes DEF Reconnected, accountVars
<1>8. CASE Refreshed
  <2>1. pass' \in PassType
    BY <1>0, <1>8 DEF Refreshed, PassType, PassPlaces
  <2>2. QED BY <1>8, <2>1, PassTypes, AdminTypes DEF Refreshed, accountVars
<1>9. QED BY <1>1, <1>2, <1>3, <1>4, <1>5, <1>6, <1>7, <1>8

LEMMA CourseStepTypes ==
  ASSUME Types, TypeOK, NEW c \in Courses, SkipCourse(c) \/ SettledByRow(c) \/ Attempt(c)
  PROVE  AccountTypeOK' /\ SchedulerTypeOK'
<1>0. /\ pass \in PassType /\ memory \in MemoryType
      /\ ledger[c].attempts \in Nat /\ memory.retry \in [Courses -> Nat]
      /\ memory.planned \in [Courses -> Nat \cup {NoTarget}]
      /\ memory.signed \subseteq Courses /\ memory.failed \subseteq Courses
  BY TypesNamed DEF Types, MemoryType, TypeOK, Row
<1>a. AccountTypeOK'
  BY AdminTypes DEF SkipCourse, SettledByRow, Attempt, accountVars
<1>s. Skip(c) => pass' \in PassType
  BY <1>0 DEF Skip, PassType
<1>1. CASE SkipCourse(c)
  <2>1. \/ memory' = [memory EXCEPT !.planned[c] = NoTarget]
        \/ memory' = [memory EXCEPT !.signed = @ \cup {c}]
        \/ memory' = memory
    BY <1>1 DEF SkipCourse
  <2>2. memory' \in MemoryType
    BY <1>0, <2>1 DEF MemoryType
  <2>3. QED BY <1>1, <1>a, <1>s, <2>2, PassTypes DEF SkipCourse
<1>2. CASE SettledByRow(c)
  <2> DEFINE known == [memory EXCEPT !.retry[c] = ledger[c].attempts]
  <2>1. known \in MemoryType /\ known.signed \subseteq Courses /\ known.failed \subseteq Courses
    BY <1>0 DEF MemoryType
  <2>2. \/ memory' = [known EXCEPT !.signed = @ \cup {c}]
        \/ memory' = known
        \/ memory' = [known EXCEPT !.failed = @ \cup {c}]
    BY <1>2 DEF SettledByRow
  <2> HIDE DEF known
  <2>3. memory' \in MemoryType
    BY <2>1, <2>2 DEF MemoryType
  <2>4. QED BY <1>2, <1>a, <1>s, <2>3, PassTypes DEF SettledByRow
<1>3. CASE Attempt(c)
  <2>1. PICK target \in Targets(c) :
          /\ memory' = [memory EXCEPT
               !.planned[c] = target,
               !.retry[c] = IF ledger[c].state = "none" THEN @ ELSE ledger[c].attempts]
          /\ IF now < target
             THEN Skip(c) /\ UNCHANGED vars
             ELSE /\ pass' = [pass EXCEPT !.pc = "signing", !.todo = @ \ {c}, !.course = c,
                                             !.others = 0]
                  /\ Call(Caller, c)
    BY <1>3 DEF Attempt
  <2>2. target \in Nat \cup {NoTarget}
    BY TargetType DEF Types
  <2>3. PICK n \in Nat : memory' = [memory EXCEPT !.planned[c] = target, !.retry[c] = n]
    BY <1>0, <2>1
  <2>4. memory' \in MemoryType
    BY <1>0, <2>2, <2>3 DEF MemoryType
  <2>5. pass' \in PassType
    <3>1. pass.todo \ {c} \in SUBSET Courses
      BY <1>0 DEF PassType
    <3>2. CASE pass' = [pass EXCEPT !.pc = "signing", !.todo = @ \ {c}, !.course = c,
                                    !.others = 0]
      <4> DEFINE p == [pass EXCEPT !.pc = "signing", !.todo = @ \ {c}]
      <4>1. p \in PassType
        BY <1>0, <3>1 DEF PassType, PassPlaces
      <4> DEFINE q == [p EXCEPT !.course = c]
      <4>2. pass' = [q EXCEPT !.others = 0]
        BY <3>2
      <4> HIDE DEF p
      <4>3. q \in PassType
        BY <4>1 DEF PassType
      <4> HIDE DEF q
      <4>4. QED BY <4>2, <4>3 DEF PassType
    <3>3. QED BY <1>s, <2>1, <3>2
  <2>6. QED BY <1>3, <1>a, <2>4, <2>5, PassTypes DEF Attempt
<1>4. QED BY <1>1, <1>2, <1>3

\* How often a lesson was tried, as DaemonReturns has it.
LEMMA TriedType ==
  ASSUME Types, TypeOK, NEW c \in Courses
  PROVE  TriedSoFar(c) \in Nat
BY DEF TriedSoFar, Types, SchedulerTypeOK, TypeOK, Row

LEMMA DaemonReturnsTypes ==
  ASSUME Types, TypeOK, DaemonReturns, pass.course \in Courses
  PROVE  AccountTypeOK' /\ SchedulerTypeOK'
<1> DEFINE c == pass.course
           next == [pass EXCEPT !.pc = "courses", !.course = NoCourse, !.others = 0]
<1>0. /\ pass \in PassType /\ memory \in MemoryType /\ account \in AccountType
      /\ memory.retry \in [Courses -> Nat]
      /\ memory.planned \in [Courses -> Nat \cup {NoTarget}]
      /\ memory.signed \subseteq Courses /\ memory.failed \subseteq Courses
      /\ memory.misjudged \subseteq Courses
  BY TypesNamed DEF Types, MemoryType
<1>1. next \in PassType /\ [next EXCEPT !.pc = "refresh"] \in PassType
  <2>1. next \in PassType
    <3> DEFINE p == [pass EXCEPT !.pc = "courses", !.course = NoCourse]
    <3>1. p \in PassType
      BY <1>0 DEF PassType, PassPlaces
    <3>2. next = [p EXCEPT !.others = 0]
      OBVIOUS
    <3> HIDE DEF p, next
    <3>3. QED BY <3>1, <3>2 DEF PassType
  <2> HIDE DEF next
  <2>2. QED BY <2>1 DEF PassType, PassPlaces
<1>2. PICK counted \in Nat : counted = TriedSoFar(c)
  BY TriedType
<1>3. /\ \/ pass' = [next EXCEPT !.pc = "refresh"] /\ UNCHANGED admin
         \/ pass' = next /\ UNCHANGED admin
         \/ Reconnect(next, "after")
         \/ pass' = PassOver /\ UNCHANGED admin
      /\ \/ memory' = memory
         \/ memory' = [memory EXCEPT !.signed = @ \cup {c}]
         \/ memory' = [memory EXCEPT !.planned[c] = Later(c, memory.retry[c])]
         \/ memory' = [memory EXCEPT !.retry[c] = counted,
                !.failed = IF counted >= MaxPosts THEN @ \cup {c} ELSE @,
                !.planned[c] = IF counted >= MaxPosts THEN @ ELSE Later(c, counted),
                !.misjudged = IF counted >= MaxPosts /\ Open(c) THEN @ \cup {c} ELSE @]
      /\ UNCHANGED <<account, authLock, born, daemon, pause, wanted>>
      /\ revoked' = revoked \ {Caller}
  BY <1>2 DEF DaemonReturns
<1> HIDE DEF c, next
<1>4. c \in Courses
  BY DEF c
<1>5. Later(c, memory.retry[c]) \in Nat /\ Later(c, counted) \in Nat
  BY <1>0, <1>2, <1>4, TargetType
<1>6. memory' \in MemoryType
  <2>1. CASE memory' = memory \/ memory' = [memory EXCEPT !.signed = @ \cup {c}]
    BY <1>0, <1>4, <2>1 DEF MemoryType
  <2>2. CASE memory' = [memory EXCEPT !.planned[c] = Later(c, memory.retry[c])]
    BY <1>0, <1>4, <1>5, <2>2 DEF MemoryType
  <2>3. CASE memory' = [memory EXCEPT !.retry[c] = counted,
                !.failed = IF counted >= MaxPosts THEN @ \cup {c} ELSE @,
                !.planned[c] = IF counted >= MaxPosts THEN @ ELSE Later(c, counted),
                !.misjudged = IF counted >= MaxPosts /\ Open(c) THEN @ \cup {c} ELSE @]
    <3>1. PICK failed \in SUBSET Courses, n \in Nat \cup {NoTarget}, judged \in SUBSET Courses :
            memory' = [memory EXCEPT !.retry[c] = counted, !.failed = failed,
                                     !.planned[c] = n, !.misjudged = judged]
      BY <1>0, <1>4, <1>5, <2>3
    <3>2. QED BY <1>0, <1>2, <1>4, <3>1 DEF MemoryType
  <2>4. QED BY <1>3, <2>1, <2>2, <2>3
<1>7. /\ pass' \in PassType
      /\ admin' = admin \/ admin' \in [Admins -> AdminType]
  BY <1>0, <1>1, <1>3, PassOverType, ReconnectType DEF Types
<1>8. QED BY <1>3, <1>6, <1>7, PassTypes, AdminTypes

LEMMA ControlTypes ==
  ASSUME Types, TypeOK,
         \/ Start \/ Stop
         \/ \E c \in Pausable, on, stored \in BOOLEAN : SetPause(c, on, stored)
  PROVE  AccountTypeOK' /\ SchedulerTypeOK'
<1>0. /\ pass \in PassType /\ memory \in MemoryType /\ daemon \in DaemonType
      /\ daemon.generation \in Nat /\ now \in Nat
      /\ memory.planned \in [Courses -> Nat \cup {NoTarget}]
  BY TypesNamed DEF Types, MemoryType, DaemonType, TypeOK
<1>1. CASE Start
  <2>1. daemon' \in DaemonType
    BY <1>0, <1>1 DEF Start, DaemonType
  <2>2. QED BY <1>0, <1>1, <2>1, PassTypes, AdminTypes DEF Start, accountVars
<1>2. CASE Stop
  <2>1. daemon' \in DaemonType
    <3>1. daemon.generation + 1 \in Nat
      BY <1>0
    <3>2. QED BY <1>0, <1>2, <3>1 DEF Stop, DaemonType
  <2>2. pass' \in PassType
    <3>1. (~PassAt("idle")) \in BOOLEAN
      BY DEF PassAt
    <3>2. QED BY <1>0, <1>2, <3>1 DEF Stop, PassType
  <2>3. AccountTypeOK'
    BY <1>2 DEF Stop, InFlight, Types, AccountTypeOK
  <2>4. QED BY <1>2, <2>1, <2>2, <2>3, PassTypes DEF Stop
<1>3. ASSUME NEW c \in Pausable, NEW on \in BOOLEAN, NEW stored \in BOOLEAN,
             SetPause(c, on, stored)
      PROVE  AccountTypeOK' /\ SchedulerTypeOK'
  <2>1. c \in Courses
    BY SchedulerAssumption
  <2>2. memory' \in MemoryType
    BY <1>0, <1>3, <2>1 DEF SetPause, MemoryType
  <2>3. pause' \in [Courses -> [saved : BOOLEAN, failsafe : BOOLEAN]]
    BY <1>3, <2>1 DEF SetPause, Types, SchedulerTypeOK
  <2>4. wanted' \in [Courses -> BOOLEAN]
    BY <1>3, <2>1 DEF SetPause, Types, SchedulerTypeOK
  <2>5. AccountTypeOK'
    BY <1>3, AdminTypes DEF SetPause, accountVars
  <2>6. QED
    BY <1>0, <1>3, <2>2, <2>3, <2>4, <2>5
       DEF SetPause, SchedulerTypeOK, MemoryType, PassType, PassPlaces, DaemonType
<1>4. QED BY <1>1, <1>2, <1>3

LEMMA ButtonTypes ==
  ASSUME Types, TypeOK, NEW x \in Buttons, Button(x)
  PROVE  AccountTypeOK' /\ SchedulerTypeOK'
<1>1. PICK n \in Int : pass' = [pass EXCEPT !.others = n]
  <2>1. pass.others \in Int
    BY DEF Types, SchedulerTypeOK
  <2>2. PostsCounted(x) \in Int
    BY DEF PostsCounted
  <2>3. PICK d \in Int : d = PostsCounted(x)
    BY <2>2
  <2>4. \/ pass' = [pass EXCEPT !.others = @ + d]
        \/ pass' = [pass EXCEPT !.others = @ + 0]
    BY <2>3 DEF Button
  <2>5. pass.others + d \in Int /\ pass.others + 0 \in Int
    BY <2>1
  <2>6. QED BY <2>4, <2>5
<1>2. pass' \in PassType
  BY <1>1, TypesNamed DEF Types, PassType
<1>3. SchedulerTypeOK'
  BY <1>2, PassTypes DEF Button
<1>4. AccountTypeOK'
  <2>1. CASE ButtonSteps(x) \/ ButtonReturns(x)
    BY <2>1, AdminTypes DEF ButtonSteps, ButtonReturns, accountVars
  <2>2. ASSUME NEW c \in Courses, Press(x, c) PROVE AccountTypeOK'
    <3>1. born' = [born EXCEPT ![x] = account.epoch] /\ account.epoch \in Nat
      BY <2>2 DEF Press, Types, AccountTypeOK
    <3>2. born' \in [Callers -> Nat]
      BY <3>1 DEF Types, AccountTypeOK
    <3>3. QED BY <2>2, <3>2 DEF Press, Types, AccountTypeOK
  <2>3. QED BY <2>1, <2>2 DEF Button
<1>5. QED BY <1>3, <1>4

LEMMA TypesStep ==
  ASSUME Types, IInv, Linked, [SystemNext]_allVars
  PROVE  Types'
<1>0. TypeOK
  BY DEF IInv
<1>1. ASSUME UNCHANGED <<accountVars, schedulerVars>> PROVE Types'
  BY <1>1 DEF Types, AccountTypeOK, SchedulerTypeOK, accountVars, schedulerVars
<1>2. CASE Pass
  <2>1. DaemonReturns => pass.course \in Courses
    BY TheCaller, CourseKnown DEF DaemonReturns, Linked, IInv, Types
  <2>2. QED
    BY <1>0, <1>1, <1>2, <2>1, PassStepTypes, CourseStepTypes, DaemonReturnsTypes
       DEF Pass, DaemonSteps, Types
<1>3. CASE Start \/ Stop \/ \E c \in Pausable, on, stored \in BOOLEAN : SetPause(c, on, stored)
  BY <1>0, <1>3, ControlTypes DEF Types
<1>4. CASE World
  BY <1>1, <1>4 DEF World
<1>5. CASE Administration
  <2>1. AccountTypeOK'
    <3>1. ASSUME NEW on \in BOOLEAN, SetAuto(on) PROVE AccountTypeOK'
      BY <3>1 DEF SetAuto, Types, AccountTypeOK
    <3>2. QED BY <1>5, <3>1, BeginType DEF Administration, Types
  <2>2. SchedulerTypeOK'
    BY <1>5 DEF Administration, Types, SchedulerTypeOK, schedulerVars
  <2>3. QED BY <2>1, <2>2 DEF Types
<1>6. ASSUME NEW x \in Buttons, Button(x) PROVE Types'
  BY <1>0, <1>6, ButtonTypes DEF Types
<1>7. ASSUME NEW a \in Admins, Handler(a) PROVE Types'
  <2>1. CASE Dispose(a)
    <3>1. memory' \in MemoryType /\ UNCHANGED <<daemon, pass, pause, wanted>>
      BY <2>1, NoMemoryType DEF Dispose
    <3>2. SchedulerTypeOK'
      BY <3>1, TypesNamed, PassTypes DEF Types
    <3>3. QED BY <2>1, <3>2, WithdrawType DEF Dispose, Types
  <2>2. CASE AuthLocked(a) \/ SignLocked(a) \/ WorkDone(a)
    <3>1. CASE UNCHANGED schedulerVars
      <4>1. SchedulerTypeOK'
        BY <3>1 DEF Types, SchedulerTypeOK, schedulerVars
      <4>2. CASE SignLocked(a)
        <5>1. admin' = [admin EXCEPT ![a].pc = "work"]
          BY <4>2 DEF SignLocked, AdminGoto
        <5>2. admin' \in [Admins -> AdminType]
          BY <5>1, TypesNamed DEF Types, AdminType
        <5>3. QED BY <4>1, <4>2, <5>2, AdminTypes DEF SignLocked, Types
      <4>3. QED BY <1>0, <2>2, <4>1, <4>2, AuthLockedType, WorkDoneType DEF Types
    <3>2. QED BY <1>7, <2>1, <3>1 DEF Handler
  <2>3. QED BY <1>7, <2>1, <2>2 DEF Handler
<1>8. CASE SystemCrash
  BY <1>0, <1>8, CrashTypes DEF Types
<1>9. QED
  BY <1>1, <1>2, <1>3, <1>4, <1>5, <1>6, <1>7, <1>8 DEF SystemNext, LifeNext, allVars

-----------------------------------------------------------------------------
(***************************************************************************)
(* What the system does to perform_signin: a step of IclassSignin, or a    *)
(* handler borrows a lock or a session and leaves the calls, the ledger    *)
(* and the school alone.                                                   *)
(***************************************************************************)
Locks(a) ==
  \/ \E k \in Clients : lock[k] = Nobody /\ lock' = [lock EXCEPT ![k] = a]
  \/ lock' = [k \in Clients |-> IF lock[k] = a THEN Nobody ELSE lock[k]]

Borrow ==
  /\ UNCHANGED WriteVars
  /\ session' \in [Clients -> BOOLEAN]
  /\ UNCHANGED lock \/ \E a \in Admins : Locks(a)

LEMMA GuardsAnswer ==
  /\ DaemonGuard \in BOOLEAN
  /\ \A x \in Callers : ButtonGuard(x) \in BOOLEAN
BY DEF DaemonGuard, ButtonGuard

LEMMA DaemonWrites ==
  ASSUME SchedulerTypeOK, DaemonSteps
  PROVE  Coroutine(Caller)
<1>1. DaemonGuard \in BOOLEAN
  BY GuardsAnswer
<1>2. QED BY <1>1 DEF DaemonSteps, Coroutine

LEMMA ButtonWrites ==
  ASSUME NEW x \in Buttons, Button(x)
  PROVE  Coroutine(x)
<1>1. ButtonGuard(x) \in BOOLEAN
  BY GuardsAnswer, WhoIsWho
<1>2. CASE ButtonSteps(x)
  BY <1>1, <1>2 DEF ButtonSteps, Coroutine
<1>3. QED BY <1>2 DEF Button, ButtonReturns, Press, Coroutine

LEMMA HandlerBorrows ==
  ASSUME Types, TypeOK, NEW a \in Admins,
         \/ AuthLocked(a) \/ SignLocked(a) \/ WorkDone(a) \/ Withdraw(a) \/ Abandoned(a)
         \/ \E kind \in Kinds : Begin(a, kind)
  PROVE  Borrow
<1>0. session \in [Clients -> BOOLEAN]
  BY DEF TypeOK
<1>1. CASE AuthLocked(a) \/ Withdraw(a) \/ \E kind \in Kinds : Begin(a, kind)
  BY <1>0, <1>1 DEF AuthLocked, Withdraw, Begin, Borrow
<1>2. CASE SignLocked(a)
  <2>1. admin[a].client \in Clients
    BY DEF Types, AccountTypeOK
  <2>2. Locks(a)
    BY <1>2, <2>1 DEF SignLocked, Locks
  <2>3. QED BY <1>0, <1>2, <2>2 DEF SignLocked, Borrow
<1>3. CASE WorkDone(a)
  <2>1. session' \in [Clients -> BOOLEAN]
    BY <1>3, WorkDoneType DEF Types
  <2>2. QED BY <1>3, <2>1 DEF WorkDone, Release, Locks, Borrow
<1>4. CASE Abandoned(a)
  BY <1>0, <1>4 DEF Abandoned, Release, Locks, Borrow
<1>5. QED BY <1>1, <1>2, <1>3, <1>4

LEMMA SystemSteps ==
  ASSUME Types, TypeOK, [SystemNext]_allVars
  PROVE  Next \/ UNCHANGED vars \/ Borrow
<1>0. Caller \in Callers /\ Buttons \subseteq Callers /\ session \in [Clients -> BOOLEAN]
  BY TheCaller, WhoIsWho DEF Types, TypeOK
<1>1. CASE Pass
  <2>1. CASE \/ PassBegins \/ ListFails \/ LoopEnds \/ \E ok \in BOOLEAN : Reconnected(ok)
             \/ \E c \in Courses : SkipCourse(c) \/ SettledByRow(c)
    BY <2>1 DEF PassBegins, ListFails, LoopEnds, Reconnected, SkipCourse, SettledByRow
  <2>2. CASE PassAdmitted
    BY <2>2 DEF PassAdmitted
  <2>3. CASE PassCancelled
    BY <2>3, HandlerBorrows, WhoIsWho DEF PassCancelled
  <2>4. CASE Listed \/ ListExpired \/ Refreshed
    <3>1. UNCHANGED WriteVars /\ UNCHANGED lock
      BY <2>4 DEF Listed, ListExpired, Refreshed
    <3>2. session' \in [Clients -> BOOLEAN]
      BY <1>0, <2>4 DEF Listed, ListExpired, Refreshed, DropSession
    <3>3. QED BY <3>1, <3>2 DEF Borrow
  <2>5. ASSUME NEW c \in Courses, Attempt(c) PROVE Next \/ UNCHANGED vars
    <3>1. UNCHANGED vars \/ Call(Caller, c)
      BY <2>5 DEF Attempt
    <3>2. QED BY <1>0, <3>1 DEF Next, Coroutine
  <2>6. CASE DaemonSteps
    BY <1>0, <2>6, DaemonWrites DEF Next, Types
  <2>7. CASE DaemonReturns
    BY <1>0, <2>7 DEF DaemonReturns, Next, Coroutine
  <2>8. QED BY <1>1, <2>1, <2>2, <2>3, <2>4, <2>5, <2>6, <2>7 DEF Pass
<1>2. CASE Start \/ Stop \/ \E c \in Pausable, on, stored \in BOOLEAN : SetPause(c, on, stored)
  BY <1>2 DEF Start, Stop, SetPause
<1>3. CASE World
  <2>1. account.client \in Clients /\ Daemons \subseteq Callers
    BY WhoIsWho DEF Types, AccountTypeOK, Daemons
  <2>2. QED BY <1>0, <1>3, <2>1 DEF World, Next, Network
<1>4. CASE Administration
  <2>1. ASSUME NEW on \in BOOLEAN, SetAuto(on) PROVE Borrow
    BY <1>0, <2>1 DEF SetAuto, Borrow
  <2>2. QED BY <1>4, <2>1, HandlerBorrows DEF Administration
<1>5. ASSUME NEW x \in Buttons, Button(x) PROVE Next
  BY <1>0, <1>5, ButtonWrites DEF Next
<1>6. ASSUME NEW a \in Admins, Handler(a) PROVE Borrow
  BY <1>6, HandlerBorrows DEF Handler, Dispose
<1>7. CASE SystemCrash
  BY <1>7 DEF SystemCrash, AccountCrash, Next
<1>8. QED
  BY <1>1, <1>2, <1>3, <1>4, <1>5, <1>6, <1>7 DEF SystemNext, LifeNext, allVars

\* A borrowed lock or session matters neither to the ledger nor to who sends.
LEMMA BorrowKeeps ==
  ASSUME IInv, Borrow
  PROVE  IInv' /\ (SInv => SInv')
<1>1. UNCHANGED <<ledger, signed, call, stray, now, sentAt, answered>>
  BY DEF Borrow, WriteVars, history
<1>2. TypeOK'
  <2>1. lock' \in [Clients -> Callers \cup {Nobody}]
    <3>1. lock \in [Clients -> Callers \cup {Nobody}] /\ Admins \subseteq Callers
      BY WhoIsWho DEF IInv, TypeOK
    <3>2. QED BY <3>1 DEF Borrow, Locks
  <2>2. QED BY <1>1, <2>1 DEF IInv, TypeOK, Borrow
<1>3. /\ \A x \in Callers : Sending(x)' = Sending(x) /\ Unsent(x)' = Unsent(x)
                           /\ Course(x)' = Course(x)
  BY <1>1 DEF Sending, Unsent, Course
<1>4. OneSender' /\ CallOK' /\ Counted' /\ AnswerKnown'
  BY <1>1, <1>3 DEF IInv, OneSender, CallOK, Counted, AnswerKnown, At
<1>5. ASSUME SInv PROVE SInv'
  <2>1. Attempted' /\ Timed'
    <3>1. \A c, j : PauseAfter(c, j)' = PauseAfter(c, j)
      BY <1>1 DEF PauseAfter, GroupPause
    <3>2. QED BY <1>1, <1>3, <1>5, <3>1 DEF SInv, Attempted, Timed
  <2>2. Spaced'
    <3>1. \A c, j : GroupPause(c, j)' = GroupPause(c, j)
      BY <1>1 DEF GroupPause
    <3>2. QED BY <1>1, <1>5, <3>1 DEF SInv, Spaced
  <2>3. QED BY <2>1, <2>2 DEF SInv
<1>6. QED BY <1>2, <1>4, <1>5 DEF IInv

LEMMA WriteInvStep ==
  ASSUME Types, IInv, [SystemNext]_allVars
  PROVE  IInv' /\ (SInv => SInv')
<1>1. Next \/ UNCHANGED vars \/ Borrow
  BY SystemSteps DEF IInv
<1>2. QED BY <1>1, InvStep, SpacingStep, BorrowKeeps

-----------------------------------------------------------------------------
(***************************************************************************)
(* Steps of the pass outside the daemon's call.                            *)
(***************************************************************************)
PassMoves ==
  \/ PassBegins \/ PassAdmitted \/ PassCancelled
  \/ Listed \/ ListExpired \/ ListFails \/ LoopEnds
  \/ \E ok \in BOOLEAN : Reconnected(ok)
  \/ Refreshed

PassSkips(c) ==
  \/ SkipCourse(c) \/ SettledByRow(c)
  \/ Attempt(c) /\ Skip(c) /\ UNCHANGED vars

PassCalls(c) ==
  /\ Attempt(c) /\ Call(Caller, c)
  /\ pass' = [pass EXCEPT !.pc = "signing", !.todo = @ \ {c}, !.course = c, !.others = 0]

LEMMA PassSplits ==
  Pass => \/ PassMoves
          \/ \E c \in Courses : PassSkips(c) \/ PassCalls(c)
          \/ DaemonSteps \/ DaemonReturns
<1>1. ASSUME NEW c \in Courses, Attempt(c) PROVE PassSkips(c) \/ PassCalls(c)
  BY <1>1 DEF Attempt, PassSkips, PassCalls
<1>2. QED BY <1>1 DEF Pass, PassMoves, PassSkips

LEMMA PassMovesFacts ==
  ASSUME SchedulerTypeOK, PassMoves
  PROVE  /\ ~PassAt("signing") /\ ~PassAt("signing")'
         /\ UNCHANGED WriteVars /\ UNCHANGED <<born, revoked, memory, pause, wanted>>
<1>0. pass \in PassType
  BY TypesNamed
<1>1. UNCHANGED WriteVars /\ UNCHANGED <<born, revoked, memory, pause, wanted>>
  BY DEF PassMoves, PassBegins, PassAdmitted, PassCancelled, Listed, ListExpired, ListFails,
         LoopEnds, Reconnected, Refreshed, Abandoned, WorkDone, vars, accountVars, WriteVars,
         history
<1>2. ~PassAt("signing")
  BY DEF PassMoves, PassBegins, PassAdmitted, PassCancelled, Listed, ListExpired, ListFails,
         LoopEnds, Reconnected, Refreshed, PassAt
<1>3. (pass' = PassOver \/ EndPass) => pass'.pc = "idle"
  BY DEF EndPass, PassOver, NoPass
<1>4. \A p, site : p \in PassType /\ Reconnect(p, site) => pass'.pc = "reconnect"
  BY DEF Reconnect, PassType
<1> SUFFICES ~PassAt("signing")'
  BY <1>1, <1>2
<1>5. CASE PassBegins
  BY <1>3, <1>5 DEF PassBegins, NoPass, PassAt
<1>6. CASE PassAdmitted
  <2>1. [pass EXCEPT !.pc = "list", !.epoch = account.epoch].pc = "list"
    BY <1>0 DEF PassType
  <2>2. \A site : Reconnect([pass EXCEPT !.pc = "list", !.epoch = account.epoch], site)
          => pass'.pc = "reconnect"
    BY <1>0 DEF Reconnect, PassType
  <2>3. QED BY <1>2, <1>3, <1>6, <2>1, <2>2 DEF PassAdmitted, PassAt
<1>7. CASE PassCancelled
  BY <1>2, <1>3, <1>7 DEF PassCancelled, PassAt
<1>8. CASE Listed \/ Refreshed
  BY <1>0, <1>2, <1>8 DEF Listed, Refreshed, PassAt, PassType
<1>9. CASE ListExpired
  BY <1>0, <1>2, <1>3, <1>4, <1>9 DEF ListExpired, PassAt
<1>10. CASE ListFails \/ LoopEnds
  BY <1>2, <1>3, <1>10 DEF ListFails, LoopEnds, PassAt
<1>11. ASSUME NEW ok \in BOOLEAN, Reconnected(ok) PROVE ~PassAt("signing")'
  BY <1>0, <1>2, <1>3, <1>11 DEF Reconnected, PassAt, PassType
<1>12. QED BY <1>5, <1>6, <1>7, <1>8, <1>9, <1>10, <1>11 DEF PassMoves

LEMMA PassSkipsFacts ==
  ASSUME SchedulerTypeOK, NEW c \in Courses, PassSkips(c)
  PROVE  /\ PassAt("courses") /\ pass' = [pass EXCEPT !.todo = @ \ {c}]
         /\ UNCHANGED <<vars, accountVars, daemon, pause, wanted>>
BY DEF PassSkips, SkipCourse, SettledByRow, Attempt, Considered, Skip

\* A coroutine and its network leave all other callers as they are.
LEMMA OneCallMoves ==
  ASSUME TypeOK, NEW x \in Callers, Coroutine(x) \/ Network(x)
  PROVE  \A y \in Callers \ {x} : call'[y] = call[y]
<1>1. \A r : Leave(x, r) => \A y \in Callers \ {x} : call'[y] = call[y]
  BY DEF Leave, TypeOK
<1>2. \A p : Goto(x, p) => \A y \in Callers \ {x} : call'[y] = call[y]
  BY DEF Goto, TypeOK
<1>3. ASSUME NEW ok \in BOOLEAN, Recheck(x, ok) PROVE \A y \in Callers \ {x} : call'[y] = call[y]
  <2>1. \/ \E r : Leave(x, r)
        \/ call' = [call EXCEPT ![x].pc = "post", ![x].wire = "unsent"]
    BY <1>3 DEF Recheck
  <2>2. QED BY <1>1, <2>1 DEF TypeOK
<1>4. ASSUME NEW ok \in BOOLEAN, NEW t \in 0 .. Horizon, TimeDone(x, ok, t)
      PROVE \A y \in Callers \ {x} : call'[y] = call[y]
  <2>1. \/ \E r : Leave(x, r)
        \/ call' = [call EXCEPT ![x].pc = "claimed", ![x].schoolNow = t]
    BY <1>4 DEF TimeDone
  <2>2. QED BY <1>1, <2>1 DEF TypeOK
<1>5. ASSUME NEW ok \in BOOLEAN, Enter(x, ok) PROVE \A y \in Callers \ {x} : call'[y] = call[y]
  BY <1>1, <1>2, <1>5 DEF Enter
<1>6. CASE LoginDone(x) \/ ListDone(x) \/ ConnectFails(x) \/ Response(x)
  BY <1>1, <1>2, <1>6 DEF LoginDone, ListDone, ConnectFails, Response
<1>7. CASE \E r \in {"error", "cancelled"} : ReadFails(x, r) \/ ResponseLost(x, r)
  BY <1>1, <1>7 DEF ReadFails, ResponseLost
<1>8. CASE CancelWait(x) \/ Return(x) \/ \E c \in Courses : Call(x, c)
  BY <1>8 DEF CancelWait, Return, Call, TypeOK
<1>9. CASE Network(x)
  BY <1>9 DEF Network, Transmit, SchoolHandles, TypeOK
<1>10. QED BY <1>3, <1>4, <1>5, <1>6, <1>7, <1>8, <1>9 DEF Coroutine

\* The daemon's call: what it does while not cancelled, and what is left then.
LEMMA DaemonMoves ==
  ASSUME DaemonSteps, NEW x, x = Caller
  PROVE  \/ \E ok \in BOOLEAN : Enter(x, ok) \/ Recheck(x, ok)
         \/ LoginDone(x) \/ ListDone(x)
         \/ \E ok \in BOOLEAN, t \in 0 .. Horizon : TimeDone(x, ok, t)
         \/ ConnectFails(x) \/ Response(x) \/ CancelWait(x)
         \/ \E outcome \in {"error", "cancelled"} :
              ReadFails(x, outcome) \/ ResponseLost(x, outcome)
BY GuardsAnswer DEF DaemonSteps

\* A call under way that neither begins nor is over keeps its lesson.
LEMMA CallKeepsLesson ==
  ASSUME TypeOK, NEW x \in Callers,
         \/ \E ok \in BOOLEAN : Enter(x, ok) \/ Recheck(x, ok)
         \/ LoginDone(x) \/ ListDone(x)
         \/ \E ok \in BOOLEAN, t \in 0 .. Horizon : TimeDone(x, ok, t)
         \/ ConnectFails(x) \/ Response(x) \/ CancelWait(x)
         \/ \E outcome \in {"error", "cancelled"} :
              ReadFails(x, outcome) \/ ResponseLost(x, outcome)
         \/ Network(x)
  PROVE  ~At(x, "idle") /\ ~At(x, "idle")' /\ Course(x)' = Course(x)
<1>0. ~At(x, "idle")
  BY DEF Enter, Recheck, LoginDone, ListDone, TimeDone, ConnectFails, Response, CancelWait,
         ReadFails, ResponseLost, Network, Transmit, SchoolHandles, At
<1> DEFINE Kept == ~At(x, "idle")' /\ Course(x)' = Course(x)
<1> SUFFICES Kept
  BY <1>0
<1>1. \A r : Leave(x, r) => Kept
  BY DEF Leave, TypeOK, Returned, At, Course
<1>2. \A p : Goto(x, p) /\ p # "idle" => Kept
  BY DEF Goto, TypeOK, CallType, At, Course
<1>3. ASSUME NEW ok \in BOOLEAN, Recheck(x, ok) PROVE Kept
  <2>1. \/ \E r : Leave(x, r)
        \/ call' = [call EXCEPT ![x].pc = "post", ![x].wire = "unsent"]
    BY <1>3 DEF Recheck
  <2>2. QED BY <1>1, <2>1 DEF TypeOK, CallType, At, Course
<1>4. ASSUME NEW ok \in BOOLEAN, NEW t \in 0 .. Horizon, TimeDone(x, ok, t) PROVE Kept
  <2>1. \/ \E r : Leave(x, r)
        \/ call' = [call EXCEPT ![x].pc = "claimed", ![x].schoolNow = t]
    BY <1>4 DEF TimeDone
  <2>2. QED BY <1>1, <2>1 DEF TypeOK, CallType, At, Course
<1>5. ASSUME NEW ok \in BOOLEAN, Enter(x, ok) PROVE Kept
  BY <1>1, <1>2, <1>5 DEF Enter
<1>6. CASE LoginDone(x) \/ ListDone(x) \/ ConnectFails(x) \/ Response(x)
  BY <1>1, <1>2, <1>6 DEF LoginDone, ListDone, ConnectFails, Response
<1>7. CASE \E r \in {"error", "cancelled"} : ReadFails(x, r) \/ ResponseLost(x, r)
  BY <1>1, <1>7 DEF ReadFails, ResponseLost
<1>8. CASE CancelWait(x)
  BY <1>8 DEF CancelWait, TypeOK, CallType, At, Course
<1>9. CASE Network(x)
  BY <1>0, <1>9 DEF Network, Transmit, SchoolHandles, TypeOK, CallType, At, Course
<1>10. QED BY <1>3, <1>4, <1>5, <1>6, <1>7, <1>8, <1>9

-----------------------------------------------------------------------------
(***************************************************************************)
(* Who calls.                                                              *)
(***************************************************************************)
\* A step of one call that goes on, the pass where it was.
LEMMA LinkedOnward ==
  ASSUME Types, TypeOK, Linked, NEW x \in Callers,
         pass'.pc = pass.pc, pass'.client = pass.client, pass'.course = pass.course,
         \A y \in Callers \ {x} : call'[y] = call[y],
         \/ x \in Buttons
         \/ ~At(x, "idle") /\ ~At(x, "idle")' /\ Course(x)' = Course(x)
  PROVE  Linked'
<1>1. Caller' = Caller /\ PassAt("signing")' = PassAt("signing")
      /\ Caller \in Callers /\ Caller \notin Buttons
  BY TheCaller DEF Caller, PassAt, Types
<1>2. \A y \in Callers \ {x} : At(y, "idle")' = At(y, "idle") /\ Course(y)' = Course(y)
  BY DEF At, Course
<1>3. \A y \in Callers : ~At(y, "idle")' => ~At(y, "idle") \/ y \in Buttons
  BY <1>2
<1>4. PassAt("signing") => ~At(Caller, "idle")' /\ Course(Caller)' = pass.course
  BY <1>1, <1>2 DEF Linked
<1>5. QED BY <1>1, <1>3, <1>4 DEF Linked, Course, At

LEMMA LinkedStill ==
  ASSUME Linked, UNCHANGED call,
         pass'.pc = pass.pc, pass'.client = pass.client, pass'.course = pass.course
  PROVE  Linked'
BY DEF Linked, Caller, PassAt, At, Course

LEMMA LinkedAway ==
  ASSUME Linked, UNCHANGED call, ~PassAt("signing"), ~PassAt("signing")'
  PROVE  Linked'
BY DEF Linked, At

LEMMA LinkedStep ==
  ASSUME Types, IInv, Linked, [SystemNext]_allVars
  PROVE  Linked'
<1>0. /\ TypeOK /\ pass \in PassType /\ SchedulerTypeOK
      /\ Caller \in Callers /\ Caller \notin Buttons /\ Buttons \subseteq Callers
  BY TheCaller, TypesNamed, WhoIsWho DEF IInv, Types
<1>1. CASE PassMoves
  BY <1>0, <1>1, PassMovesFacts, LinkedAway DEF WriteVars
<1>2. ASSUME NEW c \in Courses, PassSkips(c) PROVE Linked'
  <2>1. pass' = [pass EXCEPT !.todo = @ \ {c}] /\ UNCHANGED call
    BY <1>0, <1>2, PassSkipsFacts DEF vars
  <2>2. pass'.pc = pass.pc /\ pass'.client = pass.client /\ pass'.course = pass.course
    BY <1>0, <2>1 DEF PassType
  <2>3. QED BY <2>1, <2>2, LinkedStill
<1>3. ASSUME NEW c \in Courses, PassCalls(c) PROVE Linked'
  <2>1. pass'.pc = "signing" /\ pass'.client = pass.client /\ pass'.course = c
    BY <1>0, <1>3 DEF PassCalls, PassType
  <2>2. ~PassAt("signing") /\ Caller' = Caller
    BY <1>3, <2>1 DEF PassCalls, Attempt, Considered, PassAt, Caller
  <2>3. /\ call'[Caller] = [call[Caller] EXCEPT !.pc = "lock", !.course = c]
        /\ \A y \in Callers \ {Caller} : call'[y] = call[y]
    BY <1>0, <1>3 DEF PassCalls, Call, TypeOK
  <2>4. call'[Caller].pc = "lock" /\ call'[Caller].course = c
    BY <1>0, <2>3 DEF TypeOK, CallType
  <2>5. \A y \in Callers : ~At(y, "idle")' => y \in Buttons \/ y = Caller
    BY <2>2, <2>3 DEF Linked, At
  <2>6. QED BY <2>1, <2>2, <2>4, <2>5 DEF Linked, PassAt, At, Course
<1>4. CASE DaemonSteps
  <2>1. PassAt("signing") /\ UNCHANGED pass
    BY <1>4 DEF DaemonSteps, schedulerVars
  <2>2. PICK x \in Callers : x = Caller
    BY <1>0
  <2>3. ~At(x, "idle") /\ ~At(x, "idle")' /\ Course(x)' = Course(x)
    BY <1>0, <1>4, <2>2, DaemonMoves, CallKeepsLesson
  <2>4. \A y \in Callers \ {x} : call'[y] = call[y]
    BY <1>0, <1>4, <2>2, DaemonWrites, OneCallMoves
  <2>5. QED BY <1>0, <2>1, <2>3, <2>4, LinkedOnward
<1>5. CASE DaemonReturns
  <2>1. call' = [call EXCEPT ![Caller] = Idle]
    BY <1>5 DEF DaemonReturns, Return
  <2>2. ~PassAt("signing")'
    <3> DEFINE next == [pass EXCEPT !.pc = "courses", !.course = NoCourse, !.others = 0]
    <3>1. \/ pass' = [next EXCEPT !.pc = "refresh"]
          \/ pass' = next
          \/ pass' = [next EXCEPT !.pc = "reconnect", !.site = "after"]
          \/ pass' = PassOver
      BY <1>5 DEF DaemonReturns, Reconnect
    <3>2. QED BY <1>0, <3>1 DEF PassType, PassOver, NoPass, PassAt
  <2>3. \A y \in Callers : ~At(y, "idle")' => y \in Buttons
    BY <1>0, <2>1 DEF Linked, At, Idle, TypeOK
  <2>4. QED BY <2>2, <2>3 DEF Linked
<1>6. CASE UNCHANGED <<call, pass>>
  BY <1>6, LinkedStill
<1>7. CASE Stop
  <2>1. UNCHANGED call /\ pass' = [pass EXCEPT !.cancelled = ~PassAt("idle")]
    BY <1>7 DEF Stop, vars
  <2>2. pass'.pc = pass.pc /\ pass'.client = pass.client /\ pass'.course = pass.course
    BY <1>0, <2>1 DEF PassType
  <2>3. QED BY <2>1, <2>2, LinkedStill
<1>8. CASE World
  <2>1. UNCHANGED <<call, pass>> \/ (UNCHANGED pass /\ \E x \in Buttons \cup Daemons : Network(x))
    BY <1>8 DEF World, StrayHandled, SignedElsewhere, SessionRefreshed, Tick, Network,
                schedulerVars
  <2>2. Buttons \cup Daemons \subseteq Callers
    BY WhoIsWho DEF Daemons
  <2>3. ASSUME NEW x \in Callers, Network(x), UNCHANGED pass PROVE Linked'
    BY <1>0, <2>3, CallKeepsLesson, OneCallMoves, LinkedOnward
  <2>4. QED BY <1>6, <2>1, <2>2, <2>3
<1>9. ASSUME NEW x \in Buttons, Button(x) PROVE Linked'
  <2>1. \E n : pass' = [pass EXCEPT !.others = n]
    BY <1>9 DEF Button
  <2>2. pass'.pc = pass.pc /\ pass'.client = pass.client /\ pass'.course = pass.course
    BY <1>0, <2>1 DEF PassType
  <2>3. QED BY <1>0, <1>9, <2>2, ButtonWrites, OneCallMoves, LinkedOnward
<1>10. CASE SystemCrash
  BY <1>10 DEF SystemCrash, AccountCrash, Crash, Linked, At, Idle, PassAt, NoPass
<1>11. QED
  <2>1. Start \/ Administration \/ (\E a \in Admins : Handler(a))
          \/ (\E c \in Pausable, on, stored \in BOOLEAN : SetPause(c, on, stored))
          \/ UNCHANGED allVars
        => UNCHANGED <<call, pass>>
    BY DEF Start, Administration, Begin, SetAuto, Handler, AuthLocked, SignLocked, WorkDone,
           Dispose, Withdraw, SetPause, vars, WriteVars, schedulerVars, allVars
  <2>2. QED
    BY <1>1, <1>2, <1>3, <1>4, <1>5, <1>6, <1>7, <1>8, <1>9, <1>10, <2>1, PassSplits
       DEF SystemNext, LifeNext

-----------------------------------------------------------------------------
(***************************************************************************)
(* The locks of the clients, and what is taken for signed.                 *)
(***************************************************************************)
LEMMA NotAHandler ==
  ASSUME Types, Linked, NEW x \in Callers, ~At(x, "idle")
  PROVE  x \notin Admins
BY TheCaller, WhoIsWho DEF Linked, Types

LEMMA HeldInSystem ==
  ASSUME Types, IInv, Linked, LockHeld, [SystemNext]_allVars
  PROVE  LockHeld'
<1>1. Next \/ UNCHANGED vars \/ Borrow
  BY SystemSteps DEF IInv
<1>2. CASE Borrow
  <2>1. \A x \in Callers : Entered(x)' = Entered(x)
    BY <1>2 DEF Borrow, WriteVars, Entered
  <2>2. \A x \in Callers : Entered(x) => x \notin Admins /\ x # Nobody /\ Client(x) \in Clients
    BY NotAHandler, SigninAssumption DEF Entered, Inside, At, Client
  <2>3. ASSUME NEW x \in Callers, Entered(x) PROVE lock'[Client(x)] = x
    <3>1. lock[Client(x)] = x /\ x \notin Admins /\ x # Nobody /\ Client(x) \in Clients
      BY <2>2, <2>3 DEF LockHeld
    <3>2. lock \in [Clients -> Callers \cup {Nobody}]
      BY DEF IInv, TypeOK
    <3>3. QED BY <1>2, <3>1, <3>2 DEF Borrow, Locks
  <2>4. QED BY <2>1, <2>3 DEF LockHeld, Client
<1>3. QED BY <1>1, <1>2, HeldStep


LEMMA TruthLeaves ==
  ASSUME TypeOK, Truthful, NEW x \in Callers, NEW r, Leave(x, r), Course(x) \in Courses,
         UNCHANGED signed,
         r = "true" => signed[Course(x)],
         \/ UNCHANGED ledger
         \/ \E row : SetRow(Course(x), row) /\ (row.state = "success" => signed[Course(x)])
  PROVE  Truthful'
<1>1. /\ call'[x] = Returned(x, r)
      /\ \A y \in Callers \ {x} : call'[y] = call[y]
  BY DEF Leave, TypeOK
<1>2. call'[x].wire = "none" /\ call'[x].result = r /\ call'[x].course = Course(x)
  BY <1>1 DEF Returned
<1>3. \A y \in Callers :
        \/ call'[y].wire = "accepted"
        \/ At(y, "returned")' /\ call'[y].result = "true"
        => signed[Course(y)']
  BY <1>1, <1>2 DEF Truthful, Course, At
<1>4. \A c \in Courses : ledger'[c].state = "success" => signed[c]
  BY DEF SetRow, Truthful, TypeOK
<1>5. QED BY <1>3, <1>4 DEF Truthful

\* A call that goes on, not to its return, and is not told of an acceptance.
LEMMA TruthGoes ==
  ASSUME Truthful, NEW x \in Callers, UNCHANGED signed,
         \A y \in Callers \ {x} : call'[y] = call[y],
         call'[x].pc = "returned" => call'[x].result # "true",
         call'[x].wire # "accepted",
         \A c \in Courses : ledger'[c].state = "success" => ledger[c].state = "success"
  PROVE  Truthful'
BY DEF Truthful, Course, At

LEMMA TruthStep ==
  ASSUME IInv, Truthful, [Next]_vars
  PROVE  Truthful'
<1>0. TypeOK /\ CallOK
  BY DEF IInv
<1>l. ASSUME NEW x \in Callers, NEW r, Leave(x, r), ~At(x, "idle"), UNCHANGED signed,
             r = "true" => signed[Course(x)],
             \/ UNCHANGED ledger
             \/ \E row : SetRow(Course(x), row) /\ (row.state = "success" => signed[Course(x)])
      PROVE  Truthful'
  BY <1>0, <1>l, CourseKnown, TruthLeaves
<1>c. ASSUME NEW x \in Callers, ~At(x, "post")
      PROVE  call[x].wire = "none"
  BY <1>0, <1>c DEF CallOK
<1>g. ASSUME NEW x \in Callers, NEW p \in Places, p # "returned", Goto(x, p), ~At(x, "post"),
             UNCHANGED <<ledger, signed>>
      PROVE  Truthful'
  <2>1. /\ \A y \in Callers \ {x} : call'[y] = call[y]
        /\ call'[x].pc = p /\ call'[x].wire = call[x].wire
    BY <1>0, <1>g DEF Goto, TypeOK, CallType
  <2>2. QED BY <1>c, <1>g, <2>1, TruthGoes
<1>1. ASSUME NEW x \in Callers, NEW c \in Courses, Call(x, c) PROVE Truthful'
  <2>1. /\ \A y \in Callers \ {x} : call'[y] = call[y]
        /\ call'[x].pc = "lock" /\ call'[x].wire = call[x].wire
    BY <1>0, <1>1 DEF Call, TypeOK, CallType
  <2>2. call[x].wire = "none"
    BY <1>1, <1>c DEF Call, At
  <2>3. QED BY <1>1, <2>1, <2>2, TruthGoes DEF Call
<1>2. ASSUME NEW x \in Callers, NEW ok \in BOOLEAN, Enter(x, ok) PROVE Truthful'
  <2>1. CASE ok
    <3>1. Goto(x, "list") \/ Goto(x, "login")
      BY <1>2, <2>1 DEF Enter
    <3>2. QED BY <1>2, <1>g, <3>1 DEF Enter, Places, At
  <2>2. CASE ~ok
    BY <1>2, <1>l, <2>2 DEF Enter, At
  <2>3. QED BY <2>1, <2>2
<1>3. ASSUME NEW x \in Callers, NEW ok \in BOOLEAN, Recheck(x, ok) PROVE Truthful'
  <2>1. CASE /\ call' = [call EXCEPT ![x].pc = "post", ![x].wire = "unsent"]
             /\ UNCHANGED <<ledger, lock>>
    <3>1. /\ \A y \in Callers \ {x} : call'[y] = call[y]
          /\ call'[x].pc = "post" /\ call'[x].wire = "unsent"
      BY <1>0, <2>1 DEF TypeOK, CallType
    <3>2. QED BY <1>3, <2>1, <3>1, TruthGoes DEF Recheck
  <2>2. CASE /\ SetRow(Course(x), Finished(ledger[Course(x)], "uncertain", now))
             /\ Leave(x, "error")
    <3>1. Finished(ledger[Course(x)], "uncertain", now).state # "success"
      BY <1>0, <1>3, CourseKnown DEF Finished, TypeOK, Row, Recheck, At
    <3>2. QED BY <1>3, <1>l, <2>2, <3>1 DEF Recheck, At
  <2>3. CASE /\ SetRow(Course(x), FailedBeforeSend(ledger[Course(x)], now))
             /\ Leave(x, "false")
    BY <1>0, <1>3, <1>l, <2>3, CourseKnown DEF Recheck, At, FailedBeforeSend, Truthful
  <2>4. QED BY <1>3, <2>1, <2>2, <2>3 DEF Recheck
<1>4. ASSUME NEW x \in Callers, LoginDone(x) PROVE Truthful'
  BY <1>4, <1>g, <1>l DEF LoginDone, Places, At
<1>5. ASSUME NEW x \in Callers, ListDone(x) PROVE Truthful'
  BY <1>5, <1>g, <1>l DEF ListDone, Places, At
<1>6. ASSUME NEW x \in Callers, NEW ok \in BOOLEAN, NEW t \in 0 .. Horizon, TimeDone(x, ok, t)
      PROVE  Truthful'
  <2>0. Course(x) \in Courses /\ ledger[Course(x)] \in Row
    BY <1>0, <1>6, CourseKnown DEF TimeDone, At, TypeOK
  <2>1. CASE /\ SetRow(Course(x), Claimed(ledger[Course(x)], now))
             /\ call' = [call EXCEPT ![x].pc = "claimed", ![x].schoolNow = t]
    <3>1. /\ \A y \in Callers \ {x} : call'[y] = call[y]
          /\ call'[x].pc = "claimed" /\ call'[x].wire = call[x].wire
      BY <1>0, <2>1 DEF TypeOK, CallType
    <3>2. call[x].wire = "none"
      BY <1>6, <1>c DEF TimeDone, At
    <3>3. \A c \in Courses : ledger'[c].state = "success" => ledger[c].state = "success"
      BY <1>0, <2>0, <2>1 DEF SetRow, Claimed, TypeOK
    <3>4. QED BY <1>6, <3>1, <3>2, <3>3, TruthGoes DEF TimeDone
  <2>2. CASE SigninVerdict(x, t) = "accepted" /\ Leave(x, "true") /\ UNCHANGED ledger
    <3>1. ledger[Course(x)].state = "success"
      BY <2>2 DEF SigninVerdict, ClaimVerdict
    <3>2. signed[Course(x)]
      BY <2>0, <3>1 DEF Truthful
    <3>3. QED BY <1>6, <1>l, <2>2, <3>2 DEF TimeDone, At
  <2>3. CASE Leave(x, "false") /\ UNCHANGED ledger
    BY <1>6, <1>l, <2>3 DEF TimeDone, At
  <2>4. QED BY <1>6, <2>1, <2>2, <2>3 DEF TimeDone
<1>7. ASSUME NEW x \in Callers, ConnectFails(x) PROVE Truthful'
  <2>1. Course(x) \in Courses
    BY <1>7, <1>0, CourseKnown DEF ConnectFails, At
  <2>2. FailedBeforeSend(ledger[Course(x)], now).state = "success" => signed[Course(x)]
    BY <2>1 DEF FailedBeforeSend, Truthful
  <2>3. QED BY <1>7, <1>l, <2>2 DEF ConnectFails, At
<1>8. ASSUME NEW x \in Callers, Response(x) PROVE Truthful'
  <2>0. Course(x) \in Courses /\ ledger[Course(x)] \in Row
    BY <1>0, <1>8, CourseKnown DEF Response, At, TypeOK
  <2>1. Finished(ledger[Course(x)], "failed", now).state # "success"
    BY <2>0 DEF Finished, Row
  <2>2. call[x].wire = "accepted" => signed[Course(x)]
    BY DEF Truthful
  <2>3. \/ /\ call[x].wire = "accepted"
           /\ SetRow(Course(x), Finished(ledger[Course(x)], "success", now))
           /\ Leave(x, "true")
        \/ /\ SetRow(Course(x), Finished(ledger[Course(x)], "failed", now))
           /\ Leave(x, "false")
    BY <1>8 DEF Response
  <2>4. QED BY <1>8, <1>l, <2>1, <2>2, <2>3 DEF Response, At
<1>9. ASSUME NEW x \in Callers, NEW r \in {"error", "cancelled"},
             ReadFails(x, r) \/ ResponseLost(x, r)
      PROVE  Truthful'
  <2>0. Course(x) \in Courses /\ ledger[Course(x)] \in Row
    BY <1>0, <1>9, CourseKnown DEF ReadFails, ResponseLost, At, TypeOK
  <2>1. Finished(ledger[Course(x)], "uncertain", now).state # "success"
    BY <2>0 DEF Finished, Row
  <2>2. QED BY <1>9, <1>l, <2>1 DEF ReadFails, ResponseLost, At
<1>10. ASSUME NEW x \in Callers, CancelWait(x) PROVE Truthful'
  <2>1. /\ \A y \in Callers \ {x} : call'[y] = call[y]
        /\ call'[x].result = "cancelled" /\ call'[x].wire = call[x].wire
    BY <1>0, <1>10 DEF CancelWait, TypeOK, CallType
  <2>2. QED BY <1>10, <1>c, <2>1, TruthGoes DEF CancelWait, At
<1>11. ASSUME NEW x \in Callers, Return(x) PROVE Truthful'
  <2>1. /\ \A y \in Callers \ {x} : call'[y] = call[y]
        /\ call'[x] = Idle
    BY <1>0, <1>11 DEF Return, TypeOK
  <2>2. QED BY <1>11, <2>1, TruthGoes DEF Return, Idle
<1>12. ASSUME NEW x \in Callers, Transmit(x) PROVE Truthful'
  <2>1. /\ \A y \in Callers \ {x} : call'[y] = call[y]
        /\ call'[x].pc = "post" /\ call'[x].wire = "sent"
    BY <1>0, <1>12 DEF Transmit, TypeOK, CallType, At
  <2>2. QED BY <1>12, <2>1, TruthGoes DEF Transmit
<1>13. ASSUME NEW x \in Callers, NEW answer \in {"accepted", "refused", "denied"},
              SchoolHandles(x, answer)
       PROVE  Truthful'
  <2>1. /\ \A y \in Callers \ {x} : call'[y] = call[y]
        /\ call'[x].pc = "post" /\ call'[x].wire = answer /\ call'[x].course = Course(x)
    BY <1>0, <1>13 DEF SchoolHandles, TypeOK, CallType, At, Course
  <2>2. Course(x) \in Courses
    BY <1>0, <1>13, CourseKnown DEF SchoolHandles, At
  <2>3. \A c \in Courses : signed[c] => signed'[c]
    BY <1>0, <1>13, <2>2 DEF SchoolHandles, TypeOK
  <2>4. answer = "accepted" => signed'[Course(x)]
    BY <1>0, <1>13, <2>2 DEF SchoolHandles, TypeOK
  <2>5. \A y \in Callers : call[y].wire = "accepted" \/ At(y, "returned") => Course(y) \in Courses
    BY <1>0, <1>c, CourseKnown DEF At
  <2>6. UNCHANGED ledger
    BY <1>13 DEF SchoolHandles
  <2>7. QED BY <2>1, <2>2, <2>3, <2>4, <2>5, <2>6 DEF Truthful, Course, At
<1>14. ASSUME UNCHANGED <<ledger, call>>, \A c \in Courses : signed[c] => signed'[c]
       PROVE  Truthful'
  <2>1. \A y \in Callers : call[y].wire = "accepted" \/ At(y, "returned") => Course(y) \in Courses
    BY <1>0, <1>c, CourseKnown DEF At
  <2>2. QED BY <1>14, <2>1 DEF Truthful, Course, At
<1>15. CASE \/ \E c \in Courses : StrayHandled(c) \/ SignedElsewhere(c)
            \/ \E k \in Clients : SessionRefreshed(k)
            \/ Tick \/ UNCHANGED vars
  <2>1. UNCHANGED <<ledger, call>>
    BY <1>15 DEF StrayHandled, SignedElsewhere, SessionRefreshed, Tick, vars
  <2>2. \A c \in Courses : signed[c] => signed'[c]
    BY <1>0, <1>15 DEF StrayHandled, SignedElsewhere, SessionRefreshed, Tick, vars, TypeOK
  <2>3. QED BY <1>14, <2>1, <2>2
<1>16. CASE Crash
  BY <1>16 DEF Crash, Idle, Truthful, At
<1>17. QED
  BY <1>1, <1>2, <1>3, <1>4, <1>5, <1>6, <1>7, <1>8, <1>9, <1>10, <1>11, <1>12, <1>13,
     <1>15, <1>16
     DEF Next, Coroutine, Network

\* What the school has recorded it never takes back.
LEMMA SignedStays ==
  ASSUME TypeOK, CallOK, [Next]_vars \/ Borrow, NEW c \in Courses, signed[c]
  PROVE  signed'[c]
<1>1. UNCHANGED signed \/ \E d, b : signed' = [signed EXCEPT ![d] = b] /\ (signed[d] => b)
  BY DEF Next, Coroutine, Network, Call, Enter, Recheck, LoginDone, ListDone, TimeDone,
         ConnectFails, Response, CancelWait, Return, ReadFails, ResponseLost, Transmit,
         SchoolHandles, StrayHandled, SignedElsewhere, SessionRefreshed, Tick, Crash, vars,
         Borrow, WriteVars
<1>2. QED BY <1>1 DEF TypeOK

LEMMA TruthInSystem ==
  ASSUME Types, IInv, Truthful, [SystemNext]_allVars
  PROVE  Truthful'
<1>1. Next \/ UNCHANGED vars \/ Borrow
  BY SystemSteps DEF IInv
<1>2. CASE Borrow
  BY <1>2 DEF Borrow, WriteVars, Truthful, Course, At
<1>3. QED BY <1>1, <1>2, TruthStep

\* The pass shows what the list showed, or nothing.
LEMMA ShownInMoves ==
  ASSUME Types, PassMoves
  PROVE  \A c \in pass'.shown : c \in pass.shown \/ signed[c]
<1>0. pass \in PassType
  BY TypesNamed DEF Types
<1>1. (pass' = PassOver \/ EndPass) => pass'.shown = {}
  BY DEF EndPass, PassOver, NoPass
<1>2. \A site : Reconnect(pass, site) => pass'.shown = pass.shown
  BY <1>0 DEF Reconnect, PassType
<1>3. CASE PassBegins
  BY <1>1, <1>3 DEF PassBegins, NoPass
<1>4. CASE PassAdmitted
  <2>1. [pass EXCEPT !.pc = "list", !.epoch = account.epoch].shown = pass.shown
    BY <1>0 DEF PassType
  <2>2. \A site : Reconnect([pass EXCEPT !.pc = "list", !.epoch = account.epoch], site)
          => pass'.shown = pass.shown
    BY <1>0 DEF Reconnect, PassType
  <2>3. QED BY <1>1, <1>4, <2>1, <2>2 DEF PassAdmitted
<1>5. CASE PassCancelled
  BY <1>1, <1>5 DEF PassCancelled
<1>6. CASE Listed
  <2>1. PICK todo \in SUBSET Courses : \E shown \in SUBSET todo :
          /\ \A c \in shown : signed[c]
          /\ pass' = [pass EXCEPT !.pc = "courses", !.todo = todo, !.shown = shown]
    BY <1>6, SchedulerAssumption DEF Listed
  <2>2. QED BY <1>0, <2>1 DEF PassType
<1>7. CASE ListExpired
  BY <1>0, <1>1, <1>2, <1>7 DEF ListExpired
<1>8. CASE ListFails \/ LoopEnds
  BY <1>1, <1>8 DEF ListFails, LoopEnds
<1>9. ASSUME NEW ok \in BOOLEAN, Reconnected(ok)
      PROVE  \A c \in pass'.shown : c \in pass.shown \/ signed[c]
  BY <1>0, <1>1, <1>9 DEF Reconnected, PassType
<1>10. CASE Refreshed
  BY <1>0, <1>10 DEF Refreshed, PassType
<1>11. QED BY <1>3, <1>4, <1>5, <1>6, <1>7, <1>8, <1>9, <1>10 DEF PassMoves

LEMMA RememberedInSystem ==
  ASSUME Types, IInv, Linked, Truthful, Remembered, [SystemNext]_allVars
  PROVE  Remembered'
<1>0. /\ pass \in PassType /\ memory \in MemoryType /\ SchedulerTypeOK /\ TypeOK /\ CallOK
      /\ pass.shown \subseteq Courses /\ memory.signed \subseteq Courses
  BY TypesNamed DEF Types, PassType, MemoryType, IInv
<1>s. \A c \in Courses : signed[c] => signed'[c]
  BY <1>0, SystemSteps, SignedStays DEF Types
<1>a. ASSUME \A c \in pass'.shown \cup memory'.signed :
               c \in pass.shown \/ c \in memory.signed \/ (c \in Courses /\ signed[c])
      PROVE  Remembered'
  BY <1>0, <1>s, <1>a DEF Remembered
<1>b. ASSUME UNCHANGED memory, pass'.shown = pass.shown PROVE Remembered'
  BY <1>a, <1>b
<1>1. CASE PassMoves
  <2>1. UNCHANGED memory
    BY <1>0, <1>1, PassMovesFacts
  <2>2. pass'.shown \subseteq Courses
    BY TypesStep DEF Types, SchedulerTypeOK
  <2>3. QED BY <1>1, <1>a, <2>1, <2>2, ShownInMoves
<1>2. ASSUME NEW c \in Courses, PassSkips(c) PROVE Remembered'
  <2>1. pass'.shown = pass.shown
    <3>1. pass' = [pass EXCEPT !.todo = @ \ {c}]
      BY <1>0, <1>2, PassSkipsFacts
    <3>2. QED BY <1>0, <3>1 DEF PassType
  <2>2. CASE SkipCourse(c)
    <3>1. /\ memory'.signed \in {memory.signed, memory.signed \cup {c}}
          /\ memory'.signed # memory.signed => c \in pass.shown
      BY <1>0, <2>2 DEF SkipCourse, MemoryType
    <3>2. QED BY <1>a, <2>1, <3>1 DEF Remembered
  <2>3. CASE SettledByRow(c)
    <3> DEFINE known == [memory EXCEPT !.retry[c] = ledger[c].attempts]
    <3>2. \/ ledger[c].state = "success" /\ memory' = [known EXCEPT !.signed = @ \cup {c}]
          \/ memory' = known
          \/ memory' = [known EXCEPT !.failed = @ \cup {c}]
      BY <2>3 DEF SettledByRow
    <3>3. \/ memory'.signed = memory.signed
          \/ ledger[c].state = "success" /\ memory'.signed = memory.signed \cup {c}
      BY <1>0, <3>2 DEF MemoryType
    <3>4. QED BY <1>a, <2>1, <3>3 DEF Truthful
  <2>4. CASE Attempt(c)
    <3>1. memory'.signed = memory.signed
      BY <1>0, <2>4 DEF Attempt, MemoryType
    <3>2. QED BY <1>a, <2>1, <3>1
  <2>5. QED BY <1>2, <2>2, <2>3, <2>4 DEF PassSkips
<1>3. ASSUME NEW c \in Courses, PassCalls(c) PROVE Remembered'
  <2>1. pass'.shown = pass.shown
    BY <1>0, <1>3 DEF PassCalls, PassType
  <2>2. memory'.signed = memory.signed
    BY <1>0, <1>3 DEF PassCalls, Attempt, MemoryType
  <2>3. QED BY <1>a, <2>1, <2>2
<1>4. CASE DaemonSteps
  BY <1>4, <1>b DEF DaemonSteps, schedulerVars
<1>5. CASE DaemonReturns
  <2> DEFINE c == pass.course
             next == [pass EXCEPT !.pc = "courses", !.course = NoCourse, !.others = 0]
  <2>1. \/ pass' = [next EXCEPT !.pc = "refresh"]
        \/ pass' = next
        \/ pass' = [next EXCEPT !.pc = "reconnect", !.site = "after"]
        \/ pass' = PassOver
    BY <1>5 DEF DaemonReturns, Reconnect
  <2>2. pass'.shown = pass.shown \/ pass'.shown = {}
    BY <1>0, <2>1 DEF PassType, PassOver, NoPass
  <2>3. \/ memory'.signed = memory.signed
        \/ Outcome = "true" /\ memory'.signed = memory.signed \cup {c}
    BY <1>0, <1>5 DEF DaemonReturns, MemoryType
  <2>4. c \in Courses /\ c = Course(Caller) /\ Caller \in Callers
    BY <1>0, <1>5, TheCaller, CourseKnown DEF DaemonReturns, Linked
  <2>5. Outcome = "true" => signed[c]
    BY <1>5, <2>4 DEF DaemonReturns, Truthful, Outcome
  <2> HIDE DEF c
  <2>6. QED BY <1>a, <2>2, <2>3, <2>4, <2>5
<1>6. CASE Start \/ World \/ Administration
  BY <1>6, <1>b DEF Start, World, Administration, schedulerVars
<1>7. CASE Stop
  <2>1. UNCHANGED memory /\ pass' = [pass EXCEPT !.cancelled = ~PassAt("idle")]
    BY <1>7 DEF Stop
  <2>2. QED BY <1>0, <1>b, <2>1 DEF PassType
<1>8. ASSUME NEW x \in Buttons, Button(x) PROVE Remembered'
  <2>1. UNCHANGED memory /\ \E n : pass' = [pass EXCEPT !.others = n]
    BY <1>8 DEF Button
  <2>2. QED BY <1>0, <1>b, <2>1 DEF PassType
<1>9. ASSUME NEW a \in Admins, Handler(a) PROVE Remembered'
  <2>1. UNCHANGED pass /\ (memory' = memory \/ memory' = NoMemory)
    BY <1>9 DEF Handler, Dispose, schedulerVars
  <2>2. NoMemory.signed = {}
    BY DEF NoMemory
  <2>3. QED BY <1>a, <2>1, <2>2
<1>10. ASSUME NEW c \in Pausable, NEW on \in BOOLEAN, NEW stored \in BOOLEAN,
              SetPause(c, on, stored)
       PROVE  Remembered'
  <2>1. UNCHANGED pass /\ memory'.signed = memory.signed
    BY <1>0, <1>10 DEF SetPause, MemoryType
  <2>2. QED BY <1>a, <2>1
<1>11. CASE SystemCrash
  BY <1>11 DEF SystemCrash, NoPass, NoMemory, Remembered
<1>12. CASE UNCHANGED allVars
  BY <1>12, <1>b DEF allVars, schedulerVars
<1>13. QED
  BY <1>1, <1>2, <1>3, <1>4, <1>5, <1>6, <1>7, <1>8, <1>9, <1>10, <1>11, <1>12, PassSplits
     DEF SystemNext, LifeNext

\* The student's pauses.
LEMMA PauseKeptInSystem ==
  ASSUME Types, PauseKept, [SystemNext]_allVars
  PROVE  PauseKept'
<1>0. /\ pause \in [Courses -> [saved : BOOLEAN, failsafe : BOOLEAN]]
      /\ wanted \in [Courses -> BOOLEAN] /\ SchedulerTypeOK /\ Pausable \subseteq Courses
  BY SchedulerAssumption DEF Types, SchedulerTypeOK
<1>1. CASE UNCHANGED <<pause, wanted>>
  BY <1>1 DEF PauseKept
<1>2. ASSUME NEW c \in Pausable, NEW on \in BOOLEAN, NEW stored \in BOOLEAN,
             SetPause(c, on, stored)
      PROVE  PauseKept'
  <2>1. /\ pause' = [pause EXCEPT ![c] =
             IF stored THEN [saved |-> on, failsafe |-> FALSE]
             ELSE [saved |-> @.saved, failsafe |-> @.failsafe \/ on]]
        /\ wanted' = [wanted EXCEPT ![c] = on \/ (@ /\ ~stored)]
    BY <1>2 DEF SetPause
  <2>2. \A d \in Courses \ {c} : pause'[d] = pause[d] /\ wanted'[d] = wanted[d]
    BY <1>0, <2>1
  <2>3. /\ wanted'[c] => on \/ (wanted[c] /\ ~stored)
        /\ stored => pause'[c] = [saved |-> on, failsafe |-> FALSE]
        /\ ~stored => pause'[c] = [saved |-> pause[c].saved, failsafe |-> pause[c].failsafe \/ on]
    BY <1>0, <2>1
  <2>4. wanted'[c] => pause'[c].saved \/ pause'[c].failsafe
    <3>1. CASE stored
      BY <2>3, <3>1
    <3>2. CASE ~stored
      BY <1>0, <2>3, <3>2 DEF PauseKept
    <3>3. QED BY <3>1, <3>2
  <2>5. QED BY <2>2, <2>4 DEF PauseKept
<1>3. CASE SystemCrash
  BY <1>0, <1>3 DEF SystemCrash, PauseKept
<1>4. QED
  <2>1. \/ UNCHANGED <<pause, wanted>> \/ SystemCrash
        \/ \E c \in Pausable, on, stored \in BOOLEAN : SetPause(c, on, stored)
    <3>1. Pass => UNCHANGED <<pause, wanted>>
      BY <1>0, PassSplits, PassMovesFacts, PassSkipsFacts
         DEF PassCalls, Attempt, DaemonSteps, DaemonReturns, schedulerVars
    <3>2. QED
      BY <3>1 DEF SystemNext, LifeNext, Start, Stop, World, Administration, Button, Handler,
                  Dispose, schedulerVars, allVars
  <2>2. QED BY <1>1, <1>2, <1>3, <2>1

-----------------------------------------------------------------------------
(***************************************************************************)
(* The handlers and their locks.                                           *)
(***************************************************************************)
\* A call takes a free lock and gives back its own: it leaves those of others.
LEMMA OthersLocks ==
  ASSUME TypeOK, LockHeld, NEW x \in Callers, Coroutine(x) \/ Network(x),
         NEW k \in Clients, lock[k] # x, lock[k] # Nobody
  PROVE  lock'[k] = lock[k]
<1>0. Client(x) \in Clients
  BY CallTypes
<1>1. ASSUME NEW r, Leave(x, r), Entered(x) \/ lock[Client(x)] = Nobody
      PROVE  lock'[k] = lock[k]
  <2>1. Client(x) # k
    BY <1>1 DEF LockHeld
  <2>2. QED BY <1>1, <2>1 DEF Leave, TypeOK
<1>2. ASSUME NEW ok \in BOOLEAN, Enter(x, ok) PROVE lock'[k] = lock[k]
  <2>1. lock[Client(x)] = Nobody
    BY <1>2 DEF Enter
  <2>2. CASE ok
    <3>1. lock' = [lock EXCEPT ![Client(x)] = x]
      BY <1>2, <2>2 DEF Enter
    <3>2. QED BY <2>1, <3>1 DEF TypeOK
  <2>3. CASE ~ok
    BY <1>1, <1>2, <2>1, <2>3 DEF Enter
  <2>4. QED BY <2>2, <2>3
<1>3. CASE UNCHANGED lock
  BY <1>3
<1>4. ASSUME Entered(x), UNCHANGED lock \/ \E r : Leave(x, r) PROVE lock'[k] = lock[k]
  BY <1>1, <1>4
<1>5. ASSUME NEW ok \in BOOLEAN, Recheck(x, ok) PROVE lock'[k] = lock[k]
  BY <1>4, <1>5 DEF Recheck, Entered, Inside, At
<1>6. ASSUME NEW ok \in BOOLEAN, NEW t \in 0 .. Horizon, TimeDone(x, ok, t)
      PROVE  lock'[k] = lock[k]
  BY <1>4, <1>6 DEF TimeDone, Entered, Inside, At
<1>7. CASE LoginDone(x) \/ ListDone(x)
  BY <1>4, <1>7 DEF LoginDone, ListDone, Entered, Inside, At
<1>8. CASE ConnectFails(x) \/ Response(x)
  BY <1>4, <1>8 DEF ConnectFails, Response, Entered, Inside, At
<1>9. CASE \E r \in {"error", "cancelled"} : ReadFails(x, r) \/ ResponseLost(x, r)
  BY <1>4, <1>9 DEF ReadFails, ResponseLost, Entered, Inside, At
<1>10. CASE \/ CancelWait(x) \/ Return(x) \/ (\E c \in Courses : Call(x, c))
            \/ Network(x)
  BY <1>10 DEF CancelWait, Return, Call, Network, Transmit, SchoolHandles
<1>11. QED BY <1>2, <1>5, <1>6, <1>7, <1>8, <1>9, <1>10 DEF Coroutine

LEMMA CustodyKept ==
  ASSUME Types, Custody, UNCHANGED authLock,
         account'.client = account.client, account'.maintenance = account.maintenance,
         \A a \in Admins : \/ admin'[a] = admin[a]
                           \/ ~AtWork(a) /\ ~AtWork(a)',
         \A a \in Admins, k \in Clients : lock[k] = a => lock'[k] = a
  PROVE  Custody'
<1>0. \A a \in Admins : admin[a].client \in Clients
  BY DEF Types, AccountTypeOK
<1>1. \A a \in Admins : AtWork(a)' => admin'[a] = admin[a] /\ AtWork(a)
  BY DEF AtWork
<1>2. \A a \in Admins : AtWork(a) => AtWork(a)'
  BY DEF AtWork
<1>3. \A a \in Admins : AdminAt(a, "work")' => AtWork(a)' /\ admin'[a].client = admin[a].client
                                                /\ AdminAt(a, "work")
  BY <1>1 DEF AtWork, AdminAt
<1>4. QED BY <1>0, <1>1, <1>2, <1>3 DEF Custody

LEMMA AtWorkAlone ==
  ASSUME Types, Custody
  PROVE  /\ authLock = Nobody => \A a \in Admins : ~AtWork(a)
         /\ \A a, b \in Admins : AtWork(a) /\ AtWork(b) => a = b
<1>1. Nobody \notin Admins
  BY WhoIsWho, SigninAssumption
<1>2. QED BY <1>1 DEF Custody

\* A handler gives up its locks: nobody is at work, or it was not.
LEMMA CustodyReleased ==
  ASSUME Types, TypeOK, Custody, NEW a \in Admins, Release(a),
         AtWork(a) \/ UNCHANGED account
  PROVE  Custody'
<1>0. /\ admin \in [Admins -> AdminType] /\ Nobody \notin Admins
      /\ admin' = [admin EXCEPT ![a].pc = "idle"]
  BY TypesNamed, WhoIsWho, SigninAssumption DEF Types, Release, AdminGoto
<1>1. ~AtWork(a)' /\ \A b \in Admins \ {a} : admin'[b] = admin[b]
  BY <1>0 DEF AtWork, AdminType
<1>2. CASE AtWork(a)
  <2>1. authLock = a /\ authLock' = Nobody
    BY <1>2 DEF Custody, Release
  <2>2. \A b \in Admins : ~AtWork(b)'
    BY <1>1, <2>1 DEF Custody, AtWork
  <2>3. QED BY <1>0, <2>1, <2>2 DEF Custody, AtWork, AdminAt
<1>3. CASE ~AtWork(a)
  <2>1. UNCHANGED <<authLock, account>>
    BY <1>3 DEF Custody, Release
  <2>2. \A b \in Admins \ {a}, k \in Clients : lock[k] = b => lock'[k] = b
    BY DEF Release
  <2>3. \A b \in Admins : AdminAt(b, "work")' => b # a /\ AdminAt(b, "work")
    BY <1>1 DEF AtWork, AdminAt
  <2>4. \A b \in Admins : admin[b].client \in Clients
    BY <1>0 DEF AdminType
  <2>5. \A b \in Admins : AtWork(b)' => b # a /\ AtWork(b)
    BY <1>1 DEF AtWork
  <2>6. \A b \in Admins : AtWork(b) => AtWork(b)'
    BY <1>1, <1>3 DEF AtWork
  <2>7. QED BY <1>1, <2>1, <2>2, <2>3, <2>4, <2>5, <2>6 DEF Custody
<1>4. QED BY <1>2, <1>3

LEMMA CustodyHandler ==
  ASSUME Types, TypeOK, Custody, NEW a \in Admins,
         \/ AuthLocked(a) \/ SignLocked(a) \/ WorkDone(a) \/ Withdraw(a) \/ Abandoned(a)
         \/ \E kind \in Kinds : Begin(a, kind)
  PROVE  Custody'
<1>0. /\ admin \in [Admins -> AdminType] /\ account \in AccountType
      /\ Nobody \notin Admins /\ a # Nobody
  BY TypesNamed, WhoIsWho, SigninAssumption DEF Types
<1>1. ASSUME NEW p \in {"idle", "leaving", "auth"}, ~AtWork(a), AdminGoto(a, p),
             UNCHANGED <<authLock, lock>>, account'.client = account.client,
             account'.maintenance = account.maintenance
      PROVE  Custody'
  <2>1. \A b \in Admins : admin'[b] = admin[b] \/ (~AtWork(b) /\ ~AtWork(b)')
    BY <1>0, <1>1 DEF AdminGoto, AtWork, AdminType
  <2>2. QED BY <1>1, <2>1, CustodyKept
<1>2. CASE AuthLocked(a)
  <2>0. ~AtWork(a) /\ authLock = Nobody
    BY <1>2 DEF AuthLocked, AtWork, AdminAt
  <2>1. CASE AdminGoto(a, "idle") /\ UNCHANGED <<account, authLock, revoked>>
    BY <1>1, <1>2, <2>0, <2>1 DEF AuthLocked
  <2>2. CASE /\ admin' = [admin EXCEPT ![a].pc = "sign", ![a].client = account.client]
             /\ authLock' = a
             /\ IF admin[a].kind = "dispose"
                THEN UNCHANGED <<account, revoked>>
                ELSE /\ account' = [account EXCEPT !.maintenance = TRUE, !.epoch = @ + 1]
                     /\ revoked' = revoked \cup InFlight
    <3>1. /\ admin'[a].pc = "sign" /\ admin'[a].client = account.client
          /\ admin'[a].kind = admin[a].kind
          /\ \A b \in Admins \ {a} : admin'[b] = admin[b]
      BY <1>0, <2>2 DEF AdminType
    <3>2. \A b \in Admins \ {a} : ~AtWork(b)'
      BY <2>0, <3>1, AtWorkAlone DEF AtWork
    <3>3. account'.client = account.client
      BY <1>0, <2>2 DEF AccountType
    <3>4. admin[a].kind # "dispose" => account'.maintenance
      BY <1>0, <2>2 DEF AccountType
    <3>5. AtWork(a)' /\ ~AdminAt(a, "work")'
      BY <3>1 DEF AtWork, AdminAt
    <3>6. \A b \in Admins \ {a} : ~AdminAt(b, "work")'
      BY <3>2 DEF AtWork, AdminAt
    <3>7. QED BY <2>2, <3>1, <3>2, <3>3, <3>4, <3>5, <3>6 DEF Custody
  <2>3. QED BY <1>2, <2>1, <2>2 DEF AuthLocked
<1>3. CASE SignLocked(a)
  <2>1. /\ AdminAt(a, "sign") /\ admin' = [admin EXCEPT ![a].pc = "work"]
        /\ lock[admin[a].client] = Nobody /\ lock' = [lock EXCEPT ![admin[a].client] = a]
        /\ UNCHANGED <<account, authLock>>
    BY <1>3 DEF SignLocked, AdminGoto
  <2>2. /\ admin'[a].pc = "work" /\ admin'[a].client = admin[a].client
        /\ admin'[a].kind = admin[a].kind
        /\ \A b \in Admins \ {a} : admin'[b] = admin[b]
    BY <1>0, <2>1 DEF AdminType
  <2>3. /\ admin[a].client \in Clients /\ lock'[admin[a].client] = a
        /\ \A b \in Admins, k \in Clients : lock[k] = b => lock'[k] = b
    BY <1>0, <2>1 DEF AdminType, TypeOK
  <2>4. AtWork(a) /\ AtWork(a)'
    BY <2>1, <2>2 DEF AtWork, AdminAt
  <2>5. \A b \in Admins \ {a} : AtWork(b)' = AtWork(b) /\ AdminAt(b, "work")' = AdminAt(b, "work")
                                /\ admin[b].client \in Clients
    BY <1>0, <2>2 DEF AtWork, AdminAt, AdminType
  <2>6. QED BY <2>1, <2>2, <2>3, <2>4, <2>5 DEF Custody
<1>4. CASE WorkDone(a)
  BY <1>4, CustodyReleased DEF WorkDone, AtWork, AdminAt
<1>5. CASE Withdraw(a)
  <2>1. account'.client = account.client /\ account'.maintenance = account.maintenance
    BY <1>0, <1>5 DEF Withdraw, AccountType
  <2>2. QED BY <1>1, <1>5, <2>1 DEF Withdraw, AtWork, AdminAt
<1>6. CASE Abandoned(a)
  BY <1>6, CustodyReleased DEF Abandoned, Custody
<1>7. ASSUME NEW kind \in Kinds, Begin(a, kind) PROVE Custody'
  <2>1. account'.client = account.client /\ account'.maintenance = account.maintenance
    BY <1>0, <1>7 DEF Begin, AccountType
  <2>2. PICK p \in {"leaving", "auth"} :
          admin' = [admin EXCEPT ![a] = [pc |-> p, kind |-> kind, client |-> account.client]]
    BY <1>7 DEF Begin
  <2>3. \A b \in Admins : admin'[b] = admin[b] \/ (~AtWork(b) /\ ~AtWork(b)')
    BY <1>0, <1>7, <2>2 DEF Begin, AdminAt, AtWork
  <2>4. QED BY <1>7, <2>1, <2>3, CustodyKept DEF Begin
<1>8. QED BY <1>2, <1>3, <1>4, <1>5, <1>6, <1>7

\* A reconnection begins: its handler was idle and holds nothing yet.
LEMMA ReconnectStarts ==
  ASSUME Types, NEW p, NEW site, Reconnect(p, site)
  PROVE  /\ AdminAt(Reconnector, "idle") /\ AdminAt(Reconnector, "auth")'
         /\ \A a \in Admins : admin'[a] = admin[a] \/ (~AtWork(a) /\ ~AtWork(a)')
         /\ \A a \in Admins \ {Reconnector} : admin'[a] = admin[a]
<1>1. admin \in [Admins -> AdminType] /\ Reconnector \in Admins
  BY TypesNamed, WhoIsWho DEF Types
<1>2. QED BY <1>1 DEF Reconnect, AtWork, AdminAt

\* What a step of the pass that moves does to handlers: nothing, begin a
\* reconnection, or end one that is cancelled.
LEMMA MovesOfHandlers ==
  ASSUME PassMoves
  PROVE  \/ UNCHANGED <<admin, account, authLock, lock>>
         \/ UNCHANGED <<account, authLock, lock>> /\ \E p, site : Reconnect(p, site)
         \/ Abandoned(Reconnector) \/ WorkDone(Reconnector)
BY DEF PassMoves, PassBegins, PassAdmitted, PassCancelled, Listed, ListExpired, ListFails,
       LoopEnds, Reconnected, Refreshed, vars, accountVars

LEMMA CustodyInSystem ==
  ASSUME Types, IInv, Linked, LockHeld, Custody, [SystemNext]_allVars
  PROVE  Custody'
<1>0. /\ TypeOK /\ SchedulerTypeOK /\ account \in AccountType
      /\ Caller \in Callers /\ Caller \notin Admins
      /\ Buttons \subseteq Callers /\ Buttons \cap Admins = {}
      /\ Daemons \subseteq Callers /\ Daemons \cap Admins = {}
      /\ Reconnector \in Admins /\ Admins \subseteq Callers /\ Nobody \notin Callers
  BY TheCaller, WhoIsWho, TypesNamed, SigninAssumption DEF IInv, Types, Daemons
<1>k. ASSUME UNCHANGED <<admin, account, authLock>>, UNCHANGED lock
      PROVE  Custody'
  BY <1>k, CustodyKept
<1>c. ASSUME NEW x \in Callers, x \notin Admins, Coroutine(x) \/ Network(x),
             UNCHANGED <<admin, account, authLock>>
      PROVE  Custody'
  <2>1. \A a \in Admins, k \in Clients : lock[k] = a => lock'[k] = a
    BY <1>0, <1>c, OthersLocks
  <2>2. QED BY <1>c, <2>1, CustodyKept
<1>1. CASE PassMoves
  <2>1. ASSUME NEW p, NEW site, Reconnect(p, site), UNCHANGED <<account, authLock, lock>>
        PROVE  Custody'
    BY <2>1, ReconnectStarts, CustodyKept
  <2>2. QED BY <1>0, <1>1, <1>k, <2>1, MovesOfHandlers, CustodyHandler
<1>2. ASSUME NEW c \in Courses, PassSkips(c) PROVE Custody'
  BY <1>0, <1>2, <1>k, PassSkipsFacts DEF vars, accountVars
<1>3. ASSUME NEW c \in Courses, PassCalls(c) PROVE Custody'
  BY <1>k, <1>3 DEF PassCalls, Attempt, Call, accountVars
<1>4. CASE DaemonSteps
  BY <1>0, <1>4, <1>c, DaemonWrites DEF DaemonSteps, accountVars
<1>5. CASE DaemonReturns
  <2>1. UNCHANGED <<account, authLock, lock>>
    BY <1>5 DEF DaemonReturns, Return
  <2>2. UNCHANGED admin \/ \E p, site : Reconnect(p, site)
    BY <1>5 DEF DaemonReturns
  <2>3. QED BY <1>k, <2>1, <2>2, ReconnectStarts, CustodyKept
<1>6. CASE \/ Start \/ Stop
           \/ \E c \in Pausable, on, stored \in BOOLEAN : SetPause(c, on, stored)
           \/ UNCHANGED allVars
  BY <1>6, <1>k DEF Start, Stop, SetPause, vars, accountVars, allVars
<1>7. CASE World
  <2>1. UNCHANGED <<admin, account, authLock>>
    BY <1>7 DEF World, accountVars
  <2>2. \/ UNCHANGED lock
        \/ \E x \in Buttons \cup Daemons : Network(x)
    BY <1>7 DEF World, StrayHandled, SignedElsewhere, SessionRefreshed, Tick, Network
  <2>3. QED BY <1>0, <1>c, <1>k, <2>1, <2>2
<1>8. CASE Administration
  <2>1. ASSUME NEW on \in BOOLEAN, SetAuto(on) PROVE Custody'
    <3>1. account'.client = account.client /\ account'.maintenance = account.maintenance
      BY <1>0, <2>1 DEF SetAuto, AccountType
    <3>2. QED BY <2>1, <3>1, CustodyKept DEF SetAuto
  <2>2. QED BY <1>0, <1>8, <2>1, CustodyHandler DEF Administration
<1>9. ASSUME NEW x \in Buttons, Button(x) PROVE Custody'
  <2>1. UNCHANGED <<admin, account, authLock>>
    BY <1>9 DEF Button, ButtonSteps, ButtonReturns, Press, accountVars
  <2>2. QED BY <1>0, <1>9, <1>c, <2>1, ButtonWrites
<1>10. ASSUME NEW a \in Admins, Handler(a) PROVE Custody'
  BY <1>0, <1>10, CustodyHandler DEF Handler, Dispose
<1>11. CASE SystemCrash
  <2>1. authLock' = Nobody /\ admin' = [a \in Admins |-> [admin[a] EXCEPT !.pc = "idle"]]
    BY <1>11 DEF SystemCrash, AccountCrash
  <2>2. \A a \in Admins : ~AtWork(a)'
    BY <2>1, TypesNamed DEF Types, AdminType, AtWork
  <2>3. QED BY <1>0, <2>1, <2>2 DEF Custody, AtWork, AdminAt
<1>12. QED
  BY <1>1, <1>2, <1>3, <1>4, <1>5, <1>6, <1>7, <1>8, <1>9, <1>10, <1>11, PassSplits
     DEF SystemNext, LifeNext

-----------------------------------------------------------------------------
(***************************************************************************)
(* The epoch of the pass.                                                  *)
(***************************************************************************)
\* The pass keeps epoch and client; epochs of the account only grow.
LEMMA FreshKept ==
  ASSUME Types, Types', PassFresh, Dated' => Dated,
         pass'.epoch = pass.epoch, pass'.client = pass.client,
         account'.epoch >= account.epoch,
         account'.epoch = account.epoch /\ (\A a \in Admins : AtWork(a) => admin[a].kind = "dispose")
           => /\ account'.client = account.client
              /\ \A a \in Admins : AtWork(a)' => admin'[a].kind = "dispose",
         PassAt("reconnect")' /\ AdminAt(Reconnector, "idle")' /\ ~account'.removed
           => authLock' = Nobody
  PROVE  PassFresh'
<1>1. /\ pass.epoch \in Nat /\ account.epoch \in Nat /\ account'.epoch \in Nat
  BY DEF Types, SchedulerTypeOK, AccountTypeOK
<1>2. ASSUME Dated'
      PROVE  /\ pass'.epoch <= account'.epoch
             /\ pass'.epoch = account'.epoch =>
                  /\ pass'.client = account'.client
                  /\ \A a \in Admins : AtWork(a)' => admin'[a].kind = "dispose"
  <2>1. /\ pass.epoch <= account.epoch
        /\ pass.epoch = account.epoch =>
             /\ pass.client = account.client
             /\ \A a \in Admins : AtWork(a) => admin[a].kind = "dispose"
    BY <1>2 DEF PassFresh
  <2>2. pass'.epoch <= account'.epoch
    BY <1>1, <2>1
  <2>3. pass'.epoch = account'.epoch => account'.epoch = account.epoch /\ pass.epoch = account.epoch
    BY <1>1, <2>1
  <2>4. QED BY <2>1, <2>2, <2>3
<1>3. QED BY <1>2 DEF PassFresh

LEMMA FreshUndated ==
  ASSUME ~Dated', PassAt("reconnect")' => ~AdminAt(Reconnector, "idle")'
  PROVE  PassFresh'
BY DEF PassFresh

LEMMA ReconnectGoes ==
  ASSUME NEW p \in PassType, NEW site, Reconnect(p, site)
  PROVE  /\ pass'.pc = "reconnect" /\ pass'.site = site
         /\ pass'.epoch = p.epoch /\ pass'.client = p.client /\ pass'.course = p.course
         /\ pass'.cancelled = p.cancelled /\ pass'.others = p.others
BY DEF Reconnect, PassType

LEMMA FreshMoves ==
  ASSUME Types, Types', IInv, Custody, PassFresh, PassMoves
  PROVE  PassFresh'
<1>0. /\ pass \in PassType /\ account \in AccountType /\ account.epoch \in Nat
      /\ Reconnector \in Admins
  BY TypesNamed, WhoIsWho DEF Types, AccountType
<1>i. ASSUME pass' = PassOver \/ EndPass PROVE PassFresh'
  <2>1. pass'.pc = "idle"
    BY <1>i DEF EndPass, PassOver, NoPass
  <2>2. QED BY <2>1, FreshUndated DEF Dated, PassAt
<1>r. ASSUME NEW p \in PassType, NEW site, site # "after", Reconnect(p, site) PROVE PassFresh'
  <2>1. pass'.pc = "reconnect" /\ pass'.site # "after"
    BY <1>r, ReconnectGoes
  <2>2. ~AdminAt(Reconnector, "idle")'
    BY <1>r, ReconnectStarts DEF AdminAt
  <2>3. QED BY <2>1, <2>2, FreshUndated DEF Dated, PassAt
<1>k. ASSUME Dated, pass'.pc # "reconnect", pass'.epoch = pass.epoch, pass'.client = pass.client,
             UNCHANGED <<account, admin>>
      PROVE  PassFresh'
  BY <1>0, <1>k, FreshKept DEF PassAt, AtWork
<1>1. CASE PassBegins
  <2>1. EndPass \/ pass'.pc = "queued"
    BY <1>1 DEF PassBegins, NoPass
  <2>2. QED BY <1>i, <2>1, FreshUndated DEF Dated, PassAt
<1>2. CASE PassAdmitted
  <2> DEFINE here == [pass EXCEPT !.pc = "list", !.epoch = account.epoch]
  <2>1. here \in PassType /\ here.pc = "list" /\ here.epoch = account.epoch
          /\ here.client = pass.client
    BY <1>0 DEF PassType, PassPlaces
  <2>2. \/ /\ RequestGuard /\ pass.client = account.client
           /\ pass' = here /\ UNCHANGED <<admin, account>>
        \/ Reconnect(here, "first")
        \/ EndPass
    BY <1>2 DEF PassAdmitted
  <2> HIDE DEF here
  <2>3. CASE /\ RequestGuard /\ pass.client = account.client
             /\ pass' = here /\ UNCHANGED <<admin, account>>
    <3>1. \A a \in Admins : AtWork(a) => admin[a].kind = "dispose"
      BY <2>3 DEF RequestGuard, Custody
    <3>2. ~PassAt("reconnect")'
      BY <2>1, <2>3 DEF PassAt
    <3>3. \A a \in Admins : AtWork(a)' => admin'[a].kind = "dispose"
      BY <2>3, <3>1 DEF AtWork
    <3>4. pass'.epoch = account'.epoch /\ pass'.epoch <= account'.epoch
            /\ pass'.client = account'.client
      BY <1>0, <2>1, <2>3
    <3>5. QED BY <3>2, <3>3, <3>4 DEF PassFresh
  <2>4. QED BY <1>i, <1>r, <2>1, <2>2, <2>3
<1>3. CASE PassCancelled
  BY <1>3, <1>i DEF PassCancelled
<1>4. CASE Listed \/ Refreshed
  <2>1. /\ pass'.pc = "courses" /\ pass'.epoch = pass.epoch /\ pass'.client = pass.client
        /\ Dated /\ UNCHANGED <<account, admin>>
    BY <1>0, <1>4 DEF Listed, Refreshed, PassType, Dated, PassAt, accountVars
  <2>2. QED BY <1>k, <2>1
<1>5. CASE ListExpired
  BY <1>0, <1>5, <1>i, <1>r DEF ListExpired
<1>6. CASE ListFails \/ LoopEnds
  BY <1>6, <1>i DEF ListFails, LoopEnds
<1>7. ASSUME NEW ok \in BOOLEAN, Reconnected(ok) PROVE PassFresh'
  <2>0. PassAt("reconnect") /\ AdminAt(Reconnector, "idle") /\ UNCHANGED <<account, admin>>
    BY <1>7 DEF Reconnected, accountVars
  <2>1. CASE /\ pass.site = "after"
             /\ pass' = [pass EXCEPT !.pc = "courses", !.site = "none"]
    <3>1. pass'.pc = "courses" /\ pass'.epoch = pass.epoch /\ pass'.client = pass.client
      BY <1>0, <2>1 DEF PassType
    <3>2. QED BY <1>k, <2>0, <2>1, <3>1 DEF Dated
  <2>2. CASE /\ ok
             /\ pass' = [pass EXCEPT !.pc = "list", !.site = "none",
                          !.client = account.client, !.epoch = account.epoch,
                          !.relisted = @ \/ pass.site = "again"]
    <3>1. pass'.pc = "list" /\ pass'.epoch = account.epoch /\ pass'.client = account.client
      BY <1>0, <2>2 DEF PassType
    <3>2. authLock = Nobody
      BY <1>7, <2>0, <2>2 DEF Reconnected, PassFresh
    <3>3. \A a \in Admins : ~AtWork(a)'
      BY <2>0, <3>2, AtWorkAlone DEF AtWork
    <3>4. QED BY <1>0, <2>0, <3>1, <3>3 DEF PassFresh, PassAt
  <2>3. QED BY <1>7, <1>i, <2>1, <2>2 DEF Reconnected
<1>8. QED BY <1>1, <1>2, <1>3, <1>4, <1>5, <1>6, <1>7 DEF PassMoves

LEMMA FreshHandler ==
  ASSUME Types, Types', Custody, PassFresh, NEW a \in Admins, UNCHANGED pass, ~Running,
         \/ AuthLocked(a) \/ SignLocked(a) \/ WorkDone(a) \/ Withdraw(a)
         \/ \E kind \in Kinds : Begin(a, kind) /\ a # Reconnector
  PROVE  PassFresh'
<1>0. /\ admin \in [Admins -> AdminType] /\ account \in AccountType
      /\ account.epoch \in Nat /\ Reconnector \in Admins
  BY TypesNamed, WhoIsWho DEF Types, AccountType
<1>1. ASSUME PassAt("reconnect"), AdminAt(Reconnector, "idle")', ~account'.removed
      PROVE  authLock' = Nobody
  <2>1. ~AdminAt(Reconnector, "idle")
    BY <1>1 DEF Running
  <2>2. \A b \in Admins \ {a} : admin'[b] = admin[b]
    BY <1>0 DEF AuthLocked, SignLocked, WorkDone, Withdraw, Begin, Release, AdminGoto
  <2>3. a = Reconnector
    BY <1>0, <1>1, <2>1, <2>2 DEF AdminAt
  <2>4. CASE AuthLocked(a)
    <3>1. CASE UNCHANGED authLock
      BY <2>4, <3>1 DEF AuthLocked
    <3>2. CASE admin' = [admin EXCEPT ![a].pc = "sign", ![a].client = account.client]
      <4>1. admin'[a].pc = "sign"
        BY <1>0, <3>2 DEF AdminType
      <4>2. QED BY <1>1, <2>3, <4>1 DEF AdminAt
    <3>3. QED BY <2>4, <3>1, <3>2 DEF AuthLocked
  <2>5. CASE WorkDone(a)
    <3>1. authLock = a
      BY <2>5 DEF WorkDone, AdminAt, AtWork, Custody
    <3>2. QED BY <2>5, <3>1 DEF WorkDone, Release
  <2>6. CASE SignLocked(a) \/ Withdraw(a)
    <3>1. admin'[a].pc \in {"work", "auth"}
      BY <1>0, <2>6 DEF SignLocked, Withdraw, AdminGoto, AdminType
    <3>2. QED BY <1>1, <2>3, <3>1 DEF AdminAt
  <2>7. QED BY <2>3, <2>4, <2>5, <2>6
<1>2. /\ account'.epoch >= account.epoch
      /\ account'.epoch = account.epoch /\ (\A b \in Admins : AtWork(b) => admin[b].kind = "dispose")
           => /\ account'.client = account.client
              /\ \A b \in Admins : AtWork(b)' => admin'[b].kind = "dispose"
  <2>o. \A b \in Admins \ {a} : admin'[b] = admin[b]
    BY <1>0 DEF AuthLocked, SignLocked, WorkDone, Withdraw, Begin, Release, AdminGoto
  <2>a. ASSUME \A b \in Admins : AtWork(b) => admin[b].kind = "dispose",
               ~AtWork(a)' \/ admin'[a].kind = "dispose"
        PROVE  \A b \in Admins : AtWork(b)' => admin'[b].kind = "dispose"
    BY <2>o, <2>a DEF AtWork
  <2>1. CASE AuthLocked(a)
    <3>1. CASE UNCHANGED account /\ AdminGoto(a, "idle")
      BY <1>0, <2>a, <3>1 DEF AdminGoto, AdminType, AtWork
    <3>2. CASE /\ admin[a].kind = "dispose" /\ UNCHANGED account
               /\ admin' = [admin EXCEPT ![a].pc = "sign", ![a].client = account.client]
      <4>1. admin' = [admin EXCEPT ![a].pc = "sign", ![a].client = account.client]
        BY <3>2
      <4>2. admin'[a].kind = "dispose"
        BY <1>0, <3>2, <4>1 DEF AdminType
      <4>3. QED BY <1>0, <2>a, <3>2, <4>2
    <3>3. CASE account' = [account EXCEPT !.maintenance = TRUE, !.epoch = @ + 1]
      <4>1. account'.epoch = account.epoch + 1
        BY <1>0, <3>3 DEF AccountType
      <4>2. QED BY <1>0, <4>1
    <3>4. QED BY <2>1, <3>1, <3>2, <3>3 DEF AuthLocked
  <2>2. CASE SignLocked(a)
    <3>1. admin'[a].kind = admin[a].kind /\ AtWork(a) /\ UNCHANGED account
      BY <1>0, <2>2 DEF SignLocked, AdminGoto, AdminType, AtWork, AdminAt
    <3>2. QED BY <1>0, <2>a, <3>1
  <2>3. CASE WorkDone(a)
    <3>1. AtWork(a) /\ ~AtWork(a)'
      BY <1>0, <2>3 DEF WorkDone, Release, AdminGoto, AdminType, AtWork, AdminAt
    <3>2. account'.epoch = account.epoch
      BY <1>0, <2>3 DEF WorkDone, Resumed, AccountType
    <3>3. admin[a].kind = "dispose" => account'.client = account.client
      BY <2>3 DEF WorkDone
    <3>4. QED BY <1>0, <2>a, <3>1, <3>2, <3>3
  <2>4. CASE Withdraw(a)
    <3>1. account'.epoch = account.epoch + 1
      BY <1>0, <2>4 DEF Withdraw, AccountType
    <3>2. QED BY <1>0, <3>1
  <2>5. ASSUME NEW kind \in Kinds, Begin(a, kind)
        PROVE  /\ account'.epoch >= account.epoch
               /\ account'.epoch = account.epoch
                    /\ (\A b \in Admins : AtWork(b) => admin[b].kind = "dispose")
                    => /\ account'.client = account.client
                       /\ \A b \in Admins : AtWork(b)' => admin'[b].kind = "dispose"
    <3>1. account'.epoch = account.epoch /\ account'.client = account.client
      BY <1>0, <2>5 DEF Begin, AccountType
    <3>2. ~AtWork(a)'
      <4>1. PICK p \in {"leaving", "auth"} :
              admin' = [admin EXCEPT ![a] = [pc |-> p, kind |-> kind, client |-> account.client]]
        BY <2>5 DEF Begin
      <4>2. QED BY <1>0, <4>1 DEF AtWork
    <3>3. QED BY <1>0, <2>a, <3>1, <3>2
  <2>6. QED BY <2>1, <2>2, <2>3, <2>4, <2>5
<1>3. QED
  <2>1. Dated' => Dated
    BY DEF Dated, PassAt
  <2>2. PassAt("reconnect")' => PassAt("reconnect")
    BY DEF PassAt
  <2>3. pass'.epoch = pass.epoch /\ pass'.client = pass.client
    OBVIOUS
  <2>4. QED BY <1>1, <1>2, <2>1, <2>2, <2>3, FreshKept

\* Account and handlers as they were, the pass where it was or further on.
LEMMA FreshStill ==
  ASSUME Types, Types', PassFresh, UNCHANGED <<account, admin, authLock>>,
         pass'.epoch = pass.epoch, pass'.client = pass.client, Dated' => Dated,
         PassAt("reconnect")' => PassAt("reconnect")
  PROVE  PassFresh'
<1>1. account'.epoch >= account.epoch
  BY DEF Types, AccountTypeOK
<1>2. \A a \in Admins : AtWork(a)' = AtWork(a)
  BY DEF AtWork
<1>3. PassAt("reconnect")' /\ AdminAt(Reconnector, "idle")' /\ ~account'.removed
        => authLock' = Nobody
  BY DEF PassFresh, AdminAt
<1>4. QED BY <1>1, <1>2, <1>3, FreshKept

LEMMA FreshInSystem ==
  ASSUME Types, IInv, Custody, PassFresh, [SystemNext]_allVars, Linked
  PROVE  PassFresh'
<1>0. /\ Types' /\ SchedulerTypeOK /\ pass \in PassType /\ account \in AccountType
      /\ admin \in [Admins -> AdminType] /\ Reconnector \in Admins
  BY TypesStep, TypesNamed, WhoIsWho DEF Types
<1>s. ASSUME UNCHANGED accountVars, pass'.pc = pass.pc, pass'.site = pass.site,
             pass'.epoch = pass.epoch, pass'.client = pass.client
      PROVE  PassFresh'
  BY <1>0, <1>s, FreshStill DEF accountVars, Dated, PassAt
<1>1. CASE PassMoves
  BY <1>0, <1>1, FreshMoves
<1>2. ASSUME NEW c \in Courses, PassSkips(c) PROVE PassFresh'
  <2>1. pass' = [pass EXCEPT !.todo = @ \ {c}] /\ UNCHANGED accountVars
    BY <1>0, <1>2, PassSkipsFacts
  <2>2. QED BY <1>0, <1>s, <2>1 DEF PassType
<1>3. ASSUME NEW c \in Courses, PassCalls(c) PROVE PassFresh'
  <2>1. PassAt("courses") /\ UNCHANGED accountVars
    BY <1>3 DEF PassCalls, Attempt, Considered
  <2>2. pass'.pc = "signing" /\ pass'.epoch = pass.epoch /\ pass'.client = pass.client
    BY <1>0, <1>3 DEF PassCalls, PassType
  <2>3. QED BY <1>0, <2>1, <2>2, FreshStill DEF accountVars, Dated, PassAt
<1>4. CASE DaemonSteps \/ World
  BY <1>4, <1>s DEF DaemonSteps, World, schedulerVars
<1>5. CASE DaemonReturns
  <2> DEFINE next == [pass EXCEPT !.pc = "courses", !.course = NoCourse, !.others = 0]
  <2>1. /\ next \in PassType /\ next.pc = "courses"
        /\ next.epoch = pass.epoch /\ next.client = pass.client
    <3> DEFINE p == [pass EXCEPT !.pc = "courses", !.course = NoCourse]
    <3>1. /\ p \in PassType /\ p.pc = "courses"
          /\ p.epoch = pass.epoch /\ p.client = pass.client
      BY <1>0 DEF PassType, PassPlaces
    <3>2. next = [p EXCEPT !.others = 0]
      BY <1>0 DEF PassType
    <3> HIDE DEF p, next
    <3>3. QED BY <3>1, <3>2 DEF PassType
  <2>2. PassAt("signing") /\ UNCHANGED <<account, authLock>>
    BY <1>5 DEF DaemonReturns
  <2>3. \/ pass' = [next EXCEPT !.pc = "refresh"] /\ UNCHANGED admin
        \/ pass' = next /\ UNCHANGED admin
        \/ Reconnect(next, "after")
        \/ pass' = PassOver /\ UNCHANGED admin
    BY <1>5 DEF DaemonReturns
  <2> HIDE DEF next
  <2>4. CASE (pass' = [next EXCEPT !.pc = "refresh"] \/ pass' = next) /\ UNCHANGED admin
    <3>1. /\ pass'.pc \in {"refresh", "courses"}
          /\ pass'.epoch = pass.epoch /\ pass'.client = pass.client
      BY <2>1, <2>4 DEF PassType
    <3>2. QED BY <1>0, <2>2, <2>4, <3>1, FreshStill DEF Dated, PassAt
  <2>5. CASE Reconnect(next, "after")
    <3>1. /\ pass'.pc = "reconnect" /\ pass'.epoch = pass.epoch /\ pass'.client = pass.client
      BY <2>1, <2>5, ReconnectGoes
    <3>2. ~AdminAt(Reconnector, "idle")'
          /\ \A a \in Admins : admin'[a] = admin[a] \/ (~AtWork(a) /\ ~AtWork(a)')
      BY <1>0, <2>5, ReconnectStarts DEF AdminAt
    <3>3. Dated
      BY <2>2 DEF Dated, PassAt
    <3>4. \A a \in Admins : AtWork(a)' => AtWork(a) /\ admin'[a] = admin[a]
      BY <3>2 DEF AtWork
    <3>5. account'.epoch >= account.epoch
      BY <1>0, <2>2 DEF AccountType
    <3>6. QED BY <1>0, <2>2, <3>1, <3>2, <3>3, <3>4, <3>5, FreshKept
  <2>6. CASE pass' = PassOver
    <3>1. pass'.pc = "idle"
      BY <2>6 DEF PassOver, NoPass
    <3>2. QED BY <3>1, FreshUndated DEF Dated, PassAt
  <2>7. QED BY <2>3, <2>4, <2>5, <2>6
<1>6. CASE Start \/ \E c \in Pausable, on, stored \in BOOLEAN : SetPause(c, on, stored)
  BY <1>6, <1>s DEF Start, SetPause
<1>7. CASE Stop
  <2>1. /\ pass' = [pass EXCEPT !.cancelled = ~PassAt("idle")]
        /\ UNCHANGED <<account, admin, authLock>>
    BY <1>7 DEF Stop
  <2>2. /\ pass'.pc = pass.pc /\ pass'.site = pass.site
        /\ pass'.epoch = pass.epoch /\ pass'.client = pass.client
    BY <1>0, <2>1 DEF PassType
  <2>3. QED BY <1>0, <2>1, <2>2, FreshStill DEF Dated, PassAt
<1>8. CASE Administration
  <2>1. UNCHANGED pass
    BY <1>8 DEF Administration, schedulerVars
  <2>2. ASSUME NEW on \in BOOLEAN, SetAuto(on), ~Running PROVE PassFresh'
    <3>1. account'.epoch = account.epoch /\ account'.client = account.client
          /\ UNCHANGED <<admin, authLock>>
      BY <1>0, <2>2 DEF SetAuto, AccountType
    <3>2. ~(PassAt("reconnect")' /\ AdminAt(Reconnector, "idle")')
      BY <2>1, <2>2, <3>1 DEF Running, PassAt, AdminAt
    <3>3. Dated' = Dated /\ \A a \in Admins : AtWork(a)' = AtWork(a)
      BY <2>1, <3>1 DEF Dated, PassAt, AtWork
    <3>4. account'.epoch >= account.epoch
      BY <1>0, <3>1 DEF AccountType
    <3>5. QED BY <1>0, <2>1, <3>1, <3>2, <3>3, <3>4, FreshKept
  <2>3. ASSUME NEW a \in Admins \ {Reconnector}, NEW kind \in Kinds, ~Running, Begin(a, kind)
        PROVE  PassFresh'
    BY <1>0, <2>1, <2>3, FreshHandler
  <2>4. QED BY <1>8, <2>2, <2>3 DEF Administration
<1>9. ASSUME NEW x \in Buttons, Button(x) PROVE PassFresh'
  <2>1. UNCHANGED <<account, admin, authLock>> /\ \E n : pass' = [pass EXCEPT !.others = n]
    BY <1>9 DEF Button, ButtonSteps, ButtonReturns, Press, accountVars
  <2>2. /\ pass'.pc = pass.pc /\ pass'.site = pass.site
        /\ pass'.epoch = pass.epoch /\ pass'.client = pass.client
    BY <1>0, <2>1 DEF PassType
  <2>3. QED BY <1>0, <2>1, <2>2, FreshStill DEF Dated, PassAt
<1>10. ASSUME NEW a \in Admins, Handler(a) PROVE PassFresh'
  <2>1. UNCHANGED pass /\ ~Running
        /\ (AuthLocked(a) \/ SignLocked(a) \/ WorkDone(a) \/ Withdraw(a))
    BY <1>10 DEF Handler, Dispose, schedulerVars
  <2>2. QED BY <1>0, <2>1, FreshHandler
<1>11. CASE SystemCrash
  <2>1. pass'.pc = "idle"
    BY <1>11 DEF SystemCrash, NoPass
  <2>2. QED BY <2>1, FreshUndated DEF Dated, PassAt
<1>12. CASE UNCHANGED allVars
  BY <1>12, <1>s DEF allVars, schedulerVars
<1>13. QED
  BY <1>1, <1>2, <1>3, <1>4, <1>5, <1>6, <1>7, <1>8, <1>9, <1>10, <1>11, <1>12, PassSplits
     DEF SystemNext, LifeNext

-----------------------------------------------------------------------------
(***************************************************************************)
(* Inside perform_signin on the present client only.                       *)
(***************************************************************************)
\* Nobody gets in but by Enter, and there only with an open guard.
LEMMA ComesIn ==
  ASSUME TypeOK, NEW x \in Callers,
         \/ \E ok \in BOOLEAN : Recheck(x, ok)
         \/ LoginDone(x) \/ ListDone(x)
         \/ \E ok \in BOOLEAN, t \in 0 .. Horizon : TimeDone(x, ok, t)
         \/ ConnectFails(x) \/ Response(x) \/ CancelWait(x) \/ Return(x)
         \/ \E outcome \in {"error", "cancelled"} :
              ReadFails(x, outcome) \/ ResponseLost(x, outcome)
         \/ Network(x) \/ \E c \in Courses : Call(x, c),
         Entered(x)'
  PROVE  Entered(x)
<1>1. CASE \/ \E ok \in BOOLEAN : Recheck(x, ok)
           \/ LoginDone(x) \/ ListDone(x)
           \/ \E ok \in BOOLEAN, t \in 0 .. Horizon : TimeDone(x, ok, t)
           \/ ConnectFails(x) \/ Response(x) \/ Network(x)
           \/ \E outcome \in {"error", "cancelled"} :
                ReadFails(x, outcome) \/ ResponseLost(x, outcome)
  BY <1>1 DEF Recheck, LoginDone, ListDone, TimeDone, ConnectFails, Response, Network, Transmit,
              SchoolHandles, ReadFails, ResponseLost, Entered, Inside, At
<1>2. CASE CancelWait(x) \/ Return(x) \/ \E c \in Courses : Call(x, c)
  BY <1>2 DEF CancelWait, Return, Call, TypeOK, CallType, Idle, Entered, Inside, At
<1>3. QED BY <1>1, <1>2

LEMMA EntersIf ==
  ASSUME TypeOK, NEW x \in Callers, NEW ok, Enter(x, ok), Entered(x)'
  PROVE  ok
<1>1. ~ok => call' = [call EXCEPT ![x] = Returned(x, "false")]
  BY DEF Enter, Leave
<1>2. QED BY <1>1 DEF TypeOK, Returned, Entered, Inside

LEMMA InsideKept ==
  ASSUME InsidePresent, account'.client = account.client,
         \A x \in Callers : Entered(x)' => Entered(x) \/ Client(x) = account.client
  PROVE  InsidePresent'
BY DEF InsidePresent, Client

LEMMA InsideCalls ==
  ASSUME TypeOK, NEW x \in Callers, Coroutine(x) \/ Network(x), InsidePresent,
         account'.client = account.client,
         Entered(x)' => Entered(x) \/ Client(x) = account.client
  PROVE  InsidePresent'
<1>1. \A y \in Callers \ {x} : Entered(y)' = Entered(y)
  BY OneCallMoves DEF Entered
<1>2. QED BY <1>1, InsideKept

\* A handler that takes the client away holds its lock: nobody is inside.
LEMMA NobodyInside ==
  ASSUME Types, Linked, LockHeld, Custody, InsidePresent, NEW a \in Admins, AdminAt(a, "work")
  PROVE  \A x \in Callers : ~Entered(x)
<1>1. AtWork(a)
  BY DEF AtWork, AdminAt
<1>2. lock[account.client] = a
  BY <1>1 DEF Custody
<1>3. ASSUME NEW x \in Callers, Entered(x) PROVE FALSE
  <2>1. x = a
    BY <1>2, <1>3 DEF InsidePresent, LockHeld
  <2>2. ~At(x, "idle")
    BY <1>3 DEF Entered, Inside, At
  <2>3. QED BY <2>1, <2>2, NotAHandler
<1>4. QED BY <1>3

LEMMA InsideInSystem ==
  ASSUME Types, IInv, Linked, LockHeld, Custody, PassFresh, InsidePresent,
         [SystemNext]_allVars
  PROVE  InsidePresent'
<1>0. /\ TypeOK /\ SchedulerTypeOK /\ account \in AccountType
      /\ Caller \in Callers /\ Client(Caller) = pass.client
      /\ Buttons \subseteq Callers /\ Daemons \subseteq Callers /\ Reconnector \in Admins
  BY TheCaller, WhoIsWho, TypesNamed DEF IInv, Types, Daemons
<1>k. ASSUME UNCHANGED call, account'.client = account.client PROVE InsidePresent'
  BY <1>k, InsideKept DEF Entered
<1>1. CASE PassMoves
  <2>1. UNCHANGED call
    BY <1>0, <1>1, PassMovesFacts DEF WriteVars
  <2>2. CASE WorkDone(Reconnector)
    <3>1. \A x \in Callers : ~Entered(x)
      BY <1>0, <2>2, NobodyInside DEF WorkDone
    <3>2. QED BY <2>1, <3>1 DEF InsidePresent, Entered
  <2>3. CASE ~WorkDone(Reconnector)
    <3>1. account'.client = account.client
      BY <1>0, <1>1, <2>3, MovesOfHandlers DEF Abandoned, AccountType, Reconnect
    <3>2. QED BY <1>k, <2>1, <3>1
  <2>4. QED BY <2>2, <2>3
<1>2. ASSUME NEW c \in Courses, PassSkips(c) PROVE InsidePresent'
  BY <1>0, <1>2, <1>k, PassSkipsFacts DEF vars, accountVars
<1>3. ASSUME NEW c \in Courses, PassCalls(c) PROVE InsidePresent'
  <2>1. Call(Caller, c) /\ account' = account
    BY <1>3 DEF PassCalls, Attempt, accountVars
  <2>2. PICK x \in Callers : x = Caller
    BY <1>0
  <2>3. Coroutine(x)
    BY <2>1, <2>2 DEF Coroutine
  <2>4. Entered(x)' => Entered(x)
    BY <1>0, <2>1, <2>2, ComesIn
  <2>5. QED BY <1>0, <2>1, <2>3, <2>4, InsideCalls
<1>4. CASE DaemonSteps
  <2>1. PICK x \in Callers : x = Caller
    BY <1>0
  <2>2. Coroutine(x) /\ account' = account
    BY <1>0, <1>4, <2>1, DaemonWrites DEF DaemonSteps, accountVars
  <2>3. ASSUME Entered(x)' PROVE Entered(x) \/ Client(x) = account.client
    <3>1. CASE Enter(x, DaemonGuard)
      <4>1. DaemonGuard
        BY <1>0, <2>3, <3>1, EntersIf
      <4>2. Dated /\ account.epoch = pass.epoch
        BY <1>4, <4>1 DEF DaemonSteps, DaemonGuard, Allowed, Dated, PassAt
      <4>3. QED BY <1>0, <2>1, <4>2 DEF PassFresh
    <3>2. CASE ~Enter(x, DaemonGuard)
      <4>1. \/ \E ok \in BOOLEAN : Recheck(x, ok)
            \/ LoginDone(x) \/ ListDone(x)
            \/ \E ok \in BOOLEAN, t \in 0 .. Horizon : TimeDone(x, ok, t)
            \/ ConnectFails(x) \/ Response(x) \/ CancelWait(x)
            \/ \E outcome \in {"error", "cancelled"} :
                 ReadFails(x, outcome) \/ ResponseLost(x, outcome)
        BY <1>4, <2>1, <3>2, GuardsAnswer DEF DaemonSteps
      <4>2. QED BY <1>0, <2>3, <4>1, ComesIn
    <3>3. QED BY <3>1, <3>2
  <2>4. QED BY <1>0, <2>2, <2>3, InsideCalls
<1>5. CASE DaemonReturns
  <2>1. PICK x \in Callers : x = Caller
    BY <1>0
  <2>2. Return(x) /\ account' = account
    BY <1>5, <2>1 DEF DaemonReturns
  <2>3. Coroutine(x)
    BY <2>2 DEF Coroutine
  <2>4. Entered(x)' => Entered(x)
    BY <1>0, <2>2, ComesIn
  <2>5. QED BY <1>0, <2>2, <2>3, <2>4, InsideCalls
<1>6. CASE \/ Start \/ Stop
           \/ \E c \in Pausable, on, stored \in BOOLEAN : SetPause(c, on, stored)
           \/ UNCHANGED allVars
  BY <1>6, <1>k DEF Start, Stop, SetPause, vars, accountVars, allVars
<1>7. CASE World
  <2>1. account' = account
    BY <1>7 DEF World, accountVars
  <2>2. UNCHANGED call \/ \E x \in Buttons \cup Daemons : Network(x)
    BY <1>7 DEF World, StrayHandled, SignedElsewhere, SessionRefreshed, Tick, Network
  <2>3. ASSUME NEW x \in Callers, Network(x) PROVE InsidePresent'
    BY <1>0, <2>1, <2>3, ComesIn, InsideCalls
  <2>4. QED BY <1>0, <1>k, <2>1, <2>2, <2>3
<1>8. CASE Administration
  <2>1. UNCHANGED call
    BY <1>8 DEF Administration, Begin, SetAuto, WriteVars
  <2>2. account'.client = account.client
    BY <1>0, <1>8 DEF Administration, Begin, SetAuto, AccountType
  <2>3. QED BY <1>k, <2>1, <2>2
<1>9. ASSUME NEW x \in Buttons, Button(x) PROVE InsidePresent'
  <2>1. Coroutine(x) /\ account' = account
    BY <1>9, ButtonWrites DEF Button, ButtonSteps, ButtonReturns, Press, accountVars
  <2>2. ASSUME Entered(x)' PROVE Entered(x) \/ Client(x) = account.client
    <3>1. CASE Enter(x, ButtonGuard(x))
      BY <1>0, <2>2, <3>1, EntersIf DEF ButtonGuard
    <3>2. CASE ~Enter(x, ButtonGuard(x))
      <4>0. ButtonGuard(x) \in BOOLEAN
        BY <1>0, GuardsAnswer
      <4>1. \/ \E ok \in BOOLEAN : Recheck(x, ok)
            \/ LoginDone(x) \/ ListDone(x)
            \/ \E ok \in BOOLEAN, t \in 0 .. Horizon : TimeDone(x, ok, t)
            \/ ConnectFails(x) \/ Response(x) \/ Return(x)
            \/ \E outcome \in {"error", "cancelled"} :
                 ReadFails(x, outcome) \/ ResponseLost(x, outcome)
            \/ \E c \in Courses : Call(x, c)
        BY <1>9, <3>2, <4>0 DEF Button, ButtonSteps, ButtonReturns, Press
      <4>2. QED BY <1>0, <2>2, <4>1, ComesIn
    <3>3. QED BY <3>1, <3>2
  <2>3. QED BY <1>0, <2>1, <2>2, InsideCalls
<1>10. ASSUME NEW a \in Admins, Handler(a) PROVE InsidePresent'
  <2>1. UNCHANGED call
    BY <1>10 DEF Handler, Dispose, AuthLocked, SignLocked, WorkDone, Withdraw, WriteVars
  <2>2. CASE WorkDone(a)
    <3>1. AdminAt(a, "work")
      BY <2>2 DEF WorkDone
    <3>2. \A x \in Callers : ~Entered(x)
      BY <3>1, NobodyInside
    <3>3. QED BY <2>1, <3>2 DEF InsidePresent, Entered
  <2>3. CASE ~WorkDone(a)
    <3>1. account'.client = account.client
      BY <1>0, <1>10, <2>3 DEF Handler, Dispose, AuthLocked, SignLocked, Withdraw, AccountType
    <3>2. QED BY <1>k, <2>1, <3>1
  <2>4. QED BY <2>2, <2>3
<1>11. CASE SystemCrash
  BY <1>11 DEF SystemCrash, AccountCrash, Crash, Idle, InsidePresent, Entered, Inside
<1>12. QED
  BY <1>1, <1>2, <1>3, <1>4, <1>5, <1>6, <1>7, <1>8, <1>9, <1>10, <1>11, PassSplits
     DEF SystemNext, LifeNext

-----------------------------------------------------------------------------
(***************************************************************************)
(* Calls whose authority was withdrawn.                                    *)
(***************************************************************************)
LEMMA BarredKept ==
  ASSUME Types, Types', Barred, revoked' \subseteq revoked,
         account'.epoch >= account.epoch, account.removed => account'.removed,
         \A x \in Callers : \/ born'[x] = born[x]
                            \/ x \notin revoked' /\ born'[x] <= account'.epoch,
         \A x \in revoked' : ~At(x, "idle")',
         \A x \in revoked' \ Buttons :
           pass'.epoch = pass.epoch /\ (pass.cancelled => pass'.cancelled)
  PROVE  Barred'
<1>0. /\ account.epoch \in Nat /\ account'.epoch \in Nat /\ pass.epoch \in Nat
      /\ \A x \in Callers : born[x] \in Nat /\ born'[x] \in Nat
      /\ revoked \subseteq Callers
  BY DEF Types, AccountTypeOK, SchedulerTypeOK
<1>1. \A x \in Callers : born'[x] <= account'.epoch
  BY <1>0 DEF Barred
<1>2. ASSUME NEW x \in revoked', x \in Buttons
      PROVE  account'.removed \/ born'[x] < account'.epoch
  <2>1. account.removed \/ born[x] < account.epoch
    BY <1>2 DEF Barred
  <2>2. x \in Callers /\ born'[x] = born[x]
    BY <1>0, <1>2
  <2>3. QED BY <1>0, <2>1, <2>2
<1>3. ASSUME NEW x \in revoked', x \notin Buttons
      PROVE  pass'.cancelled \/ account'.removed \/ pass'.epoch < account'.epoch
  <2>1. pass.cancelled \/ account.removed \/ pass.epoch < account.epoch
    BY <1>3 DEF Barred
  <2>2. pass'.epoch = pass.epoch /\ (pass.cancelled => pass'.cancelled)
    BY <1>3
  <2>3. QED BY <1>0, <2>1, <2>2
<1>4. QED BY <1>1, <1>2, <1>3 DEF Barred

\* Authority is withdrawn from all calls in flight: their epoch is over, or
\* the account is gone.
LEMMA BarredMore ==
  ASSUME Types, Types', Linked, PassFresh, Barred, UNCHANGED <<pass, call, born>>,
         revoked' \subseteq revoked \cup InFlight,
         account'.epoch >= account.epoch, account'.removed \/ account'.epoch > account.epoch
  PROVE  Barred'
<1>0. /\ account.epoch \in Nat /\ account'.epoch \in Nat /\ pass.epoch \in Nat
      /\ \A x \in Callers : born[x] \in Nat /\ born[x] <= account.epoch
      /\ revoked \subseteq Callers /\ revoked' \subseteq Callers
  BY DEF Types, AccountTypeOK, SchedulerTypeOK, Barred
<1>1. \A x \in revoked' : ~At(x, "idle")
  BY DEF Barred, InFlight, At
<1>2. ASSUME NEW x \in revoked', x \notin Buttons
      PROVE  account'.removed \/ pass'.epoch < account'.epoch
  <2>1. Dated
    BY <1>0, <1>1, <1>2 DEF Linked, Dated, PassAt
  <2>2. QED BY <1>0, <2>1 DEF PassFresh
<1>3. \A x \in revoked' : account'.removed \/ born'[x] < account'.epoch
  BY <1>0
<1>4. \A x \in Callers : born'[x] <= account'.epoch
  BY <1>0
<1>5. QED BY <1>1, <1>2, <1>3, <1>4 DEF Barred, At

\* Calls and their authority as they were.
LEMMA BarredStill ==
  ASSUME Types, Types', Barred, UNCHANGED <<born, revoked, call>>,
         account'.epoch >= account.epoch, account.removed => account'.removed,
         \/ pass'.epoch = pass.epoch /\ (pass.cancelled => pass'.cancelled)
         \/ Linked /\ ~PassAt("signing")
  PROVE  Barred'
<1>1. revoked \subseteq Callers
  BY DEF Types, AccountTypeOK
<1>2. \A x \in revoked' : ~At(x, "idle")'
  BY DEF Barred, At
<1>3. \A x \in revoked' \ Buttons :
        pass'.epoch = pass.epoch /\ (pass.cancelled => pass'.cancelled)
  BY <1>1 DEF Linked, Barred
<1>4. QED BY <1>2, <1>3, BarredKept

\* One call moves; it leaves the books of revoked calls when it is over.
LEMMA BarredCalls ==
  ASSUME Types, Types', TypeOK, Barred, NEW x \in Callers, Coroutine(x) \/ Network(x),
         UNCHANGED account, revoked' \subseteq revoked,
         \A y \in Callers : \/ born'[y] = born[y]
                            \/ y \notin revoked' /\ born'[y] <= account.epoch,
         x \in revoked' => ~At(x, "idle")',
         \A y \in revoked' \ Buttons :
           pass'.epoch = pass.epoch /\ (pass.cancelled => pass'.cancelled)
  PROVE  Barred'
<1>1. account.epoch \in Nat /\ revoked \subseteq Callers
  BY DEF Types, AccountTypeOK
<1>2. \A y \in Callers \ {x} : At(y, "idle")' = At(y, "idle")
  BY OneCallMoves DEF At
<1>3. \A y \in revoked' : ~At(y, "idle")'
  BY <1>1, <1>2 DEF Barred
<1>4. QED BY <1>1, <1>3, BarredKept

LEMMA BarredHandler ==
  ASSUME Types, Types', Linked, PassFresh, Barred, NEW a \in Admins, UNCHANGED pass,
         \/ AuthLocked(a) \/ SignLocked(a) \/ WorkDone(a) \/ Withdraw(a)
         \/ \E kind \in Kinds : Begin(a, kind)
  PROVE  Barred'
<1>0. account \in AccountType /\ account.epoch \in Nat /\ account'.epoch \in Nat
  BY TypesNamed DEF Types, AccountTypeOK
<1>1. UNCHANGED <<call, born>>
  BY DEF AuthLocked, SignLocked, WorkDone, Withdraw, Begin, WriteVars
<1>2. CASE AuthLocked(a)
  <2>1. CASE UNCHANGED <<account, revoked>>
    BY <1>0, <1>1, <2>1, BarredStill
  <2>2. CASE /\ account' = [account EXCEPT !.maintenance = TRUE, !.epoch = @ + 1]
             /\ revoked' = revoked \cup InFlight
    <3>1. account'.epoch > account.epoch /\ account'.epoch >= account.epoch
      BY <1>0, <2>2 DEF AccountType
    <3>2. QED BY <1>1, <2>2, <3>1, BarredMore
  <2>3. QED BY <1>2, <2>1, <2>2 DEF AuthLocked
<1>3. CASE SignLocked(a)
  BY <1>0, <1>1, <1>3, BarredStill DEF SignLocked
<1>4. CASE WorkDone(a)
  <2>1. account'.epoch = account.epoch /\ account'.removed = account.removed
    BY <1>0, <1>4 DEF WorkDone, Resumed, AccountType
  <2>2. UNCHANGED revoked
    BY <1>4 DEF WorkDone
  <2>3. QED BY <1>0, <1>1, <2>1, <2>2, BarredStill
<1>5. CASE Withdraw(a)
  <2>1. account'.epoch > account.epoch /\ account'.epoch >= account.epoch
    BY <1>0, <1>5 DEF Withdraw, AccountType
  <2>2. QED BY <1>1, <1>5, <2>1, BarredMore DEF Withdraw
<1>6. ASSUME NEW kind \in Kinds, Begin(a, kind) PROVE Barred'
  <2>1. CASE UNCHANGED <<account, revoked>>
    BY <1>0, <1>1, <2>1, BarredStill
  <2>2. CASE account' = [account EXCEPT !.removed = TRUE] /\ revoked' = revoked \cup InFlight
    <3>1. account'.removed /\ account'.epoch = account.epoch
      BY <1>0, <2>2 DEF AccountType
    <3>2. QED BY <1>0, <1>1, <2>2, <3>1, BarredMore
  <2>3. QED BY <1>6, <2>1, <2>2 DEF Begin
<1>7. QED BY <1>2, <1>3, <1>4, <1>5, <1>6

LEMMA BarredInSystem ==
  ASSUME Types, IInv, Linked, PassFresh, Barred, [SystemNext]_allVars
  PROVE  Barred'
<1>0. /\ TypeOK /\ SchedulerTypeOK /\ account \in AccountType /\ pass \in PassType
      /\ Caller \in Callers /\ Types'
      /\ Buttons \subseteq Callers /\ Daemons \subseteq Callers /\ Reconnector \in Admins
      /\ account.epoch \in Nat /\ account.epoch >= account.epoch
      /\ revoked \subseteq Callers
  BY TheCaller, WhoIsWho, TypesNamed, TypesStep DEF IInv, Types, Daemons, AccountType
<1>s. ASSUME UNCHANGED <<born, revoked, call, account>>, pass'.epoch = pass.epoch,
             pass'.cancelled = pass.cancelled
      PROVE  Barred'
  BY <1>0, <1>s, BarredStill
<1>1. CASE PassMoves
  <2>1. ~PassAt("signing") /\ UNCHANGED <<born, revoked, call>>
    BY <1>0, <1>1, PassMovesFacts DEF WriteVars
  <2>2. account'.epoch = account.epoch /\ account'.removed = account.removed
    BY <1>0, <1>1, MovesOfHandlers DEF Abandoned, WorkDone, Resumed, AccountType
  <2>3. QED BY <1>0, <2>1, <2>2, BarredStill
<1>2. ASSUME NEW c \in Courses, PassSkips(c) PROVE Barred'
  <2>1. pass' = [pass EXCEPT !.todo = @ \ {c}] /\ UNCHANGED <<vars, accountVars>>
    BY <1>0, <1>2, PassSkipsFacts
  <2>2. pass'.epoch = pass.epoch /\ pass'.cancelled = pass.cancelled
    BY <1>0, <2>1 DEF PassType
  <2>3. QED BY <1>s, <2>1, <2>2 DEF vars, accountVars
<1>3. ASSUME NEW c \in Courses, PassCalls(c) PROVE Barred'
  <2>1. Call(Caller, c) /\ UNCHANGED accountVars
    BY <1>3 DEF PassCalls, Attempt
  <2>2. PICK x \in Callers : x = Caller
    BY <1>0
  <2>3. Coroutine(x)
    BY <1>3, <2>1, <2>2 DEF Coroutine
  <2>4. x \notin revoked
    BY <1>0, <2>1, <2>2 DEF Call, Barred
  <2>5. pass'.epoch = pass.epoch /\ pass'.cancelled = pass.cancelled
    BY <1>0, <1>3 DEF PassCalls, PassType
  <2>6. QED BY <1>0, <2>1, <2>3, <2>4, <2>5, BarredCalls DEF accountVars
<1>4. CASE DaemonSteps
  <2>1. PICK x \in Callers : x = Caller
    BY <1>0
  <2>2. Coroutine(x) /\ UNCHANGED accountVars /\ UNCHANGED pass
    BY <1>0, <1>4, <2>1, DaemonWrites DEF DaemonSteps, schedulerVars
  <2>3. ~At(x, "idle")'
    BY <1>0, <1>4, <2>1, DaemonMoves, CallKeepsLesson
  <2>4. QED BY <1>0, <2>2, <2>3, BarredCalls DEF accountVars
<1>5. CASE DaemonReturns
  <2>1. PICK x \in Callers : x = Caller
    BY <1>0
  <2>2. /\ Return(x) /\ UNCHANGED <<account, born>> /\ revoked' = revoked \ {x}
    BY <1>5, <2>1 DEF DaemonReturns
  <2>3. Coroutine(x)
    BY <2>2 DEF Coroutine
  <2>4. revoked' \ Buttons = {}
    BY <1>0, <2>1, <2>2 DEF Linked, Barred
  <2>5. QED BY <1>0, <2>2, <2>3, <2>4, BarredCalls
<1>6. CASE Start \/ \E c \in Pausable, on, stored \in BOOLEAN : SetPause(c, on, stored)
  BY <1>6, <1>s DEF Start, SetPause, vars, accountVars
<1>7. CASE Stop
  <2>1. /\ pass' = [pass EXCEPT !.cancelled = ~PassAt("idle")]
        /\ revoked' = revoked \cup (InFlight \cap Daemons)
        /\ UNCHANGED <<account, born, call>>
    BY <1>7 DEF Stop, vars
  <2>2. pass'.cancelled = ~PassAt("idle") /\ pass'.epoch = pass.epoch
    BY <1>0, <2>1 DEF PassType
  <2>3. \A x \in Daemons : x \notin Buttons
    BY WhoIsWho DEF Daemons
  <2>4. \A x \in revoked' : ~At(x, "idle")
    BY <2>1 DEF Barred, InFlight, At
  <2>5. \A x \in revoked' : x \in Callers
    BY <1>0, <2>1
  <2>6. \A x \in revoked' \ Buttons : pass'.cancelled
    BY <2>2, <2>4, <2>5 DEF Linked, PassAt
  <2>7. \A x \in revoked' \cap Buttons : x \in revoked
    BY <2>1, <2>3
  <2>8. QED BY <2>1, <2>4, <2>6, <2>7 DEF Barred, At
<1>8. CASE World
  <2>1. UNCHANGED accountVars /\ UNCHANGED pass
    BY <1>8 DEF World, schedulerVars
  <2>2. UNCHANGED call \/ \E x \in Buttons \cup Daemons : Network(x)
    BY <1>8 DEF World, StrayHandled, SignedElsewhere, SessionRefreshed, Tick, Network
  <2>3. ASSUME NEW x \in Callers, Network(x) PROVE Barred'
    <3>1. ~At(x, "idle")'
      BY <1>0, <2>3, CallKeepsLesson
    <3>2. QED BY <1>0, <2>1, <2>3, <3>1, BarredCalls DEF accountVars
  <2>4. QED BY <1>0, <1>s, <2>1, <2>2, <2>3 DEF accountVars
<1>9. CASE Administration
  <2>1. UNCHANGED pass
    BY <1>9 DEF Administration, schedulerVars
  <2>2. ASSUME NEW on \in BOOLEAN, SetAuto(on) PROVE Barred'
    <3>1. account'.epoch = account.epoch /\ account'.removed = account.removed
      BY <1>0, <2>2 DEF SetAuto, AccountType
    <3>2. QED BY <1>0, <2>1, <2>2, <3>1, BarredStill DEF SetAuto, WriteVars
  <2>3. QED BY <1>0, <1>9, <2>1, <2>2, BarredHandler DEF Administration
<1>10. ASSUME NEW x \in Buttons, Button(x) PROVE Barred'
  <2>0. x \in Callers /\ Coroutine(x)
    BY <1>0, <1>10, ButtonWrites
  <2>1. \E n : pass' = [pass EXCEPT !.others = n]
    BY <1>10 DEF Button
  <2>2. pass'.epoch = pass.epoch /\ pass'.cancelled = pass.cancelled
    BY <1>0, <2>1 DEF PassType
  <2>3. CASE ButtonSteps(x)
    <3>1. ~At(x, "idle")'
      BY <1>0, <2>0, <2>3, GuardsAnswer, CallKeepsLesson DEF ButtonSteps
    <3>2. QED BY <1>0, <2>0, <2>2, <2>3, <3>1, BarredCalls DEF ButtonSteps, accountVars
  <2>4. CASE ButtonReturns(x)
    <3>1. revoked' = revoked \ {x} /\ UNCHANGED <<account, born>>
      BY <2>4 DEF ButtonReturns
    <3>2. QED BY <1>0, <2>0, <2>2, <3>1, BarredCalls
  <2>5. ASSUME NEW c \in Courses, Press(x, c) PROVE Barred'
    <3>1. At(x, "idle") /\ UNCHANGED <<account, revoked>>
          /\ born' = [born EXCEPT ![x] = account.epoch]
      BY <2>5 DEF Press, Call
    <3>2. x \notin revoked
      BY <3>1 DEF Barred
    <3>3. \A y \in Callers : \/ born'[y] = born[y]
                             \/ y \notin revoked' /\ born'[y] <= account.epoch
      BY <1>0, <3>1, <3>2 DEF Types, AccountTypeOK
    <3>4. QED BY <1>0, <2>0, <2>2, <3>1, <3>2, <3>3, BarredCalls
  <2>6. QED BY <1>10, <2>3, <2>4, <2>5 DEF Button
<1>11. ASSUME NEW a \in Admins, Handler(a) PROVE Barred'
  <2>1. UNCHANGED pass /\ (AuthLocked(a) \/ SignLocked(a) \/ WorkDone(a) \/ Withdraw(a))
    BY <1>11 DEF Handler, Dispose, schedulerVars
  <2>2. QED BY <1>0, <2>1, BarredHandler
<1>12. CASE SystemCrash
  <2>1. revoked' = {} /\ born' = [x \in Callers |-> 0]
    BY <1>12 DEF SystemCrash, AccountCrash
  <2>2. account'.epoch \in Nat
    BY <1>0 DEF Types, AccountTypeOK
  <2>3. \A x \in Callers : born'[x] <= account'.epoch
    BY <2>1, <2>2
  <2>4. QED BY <2>1, <2>3 DEF Barred
<1>13. CASE UNCHANGED allVars
  BY <1>13, <1>s DEF allVars, vars, accountVars, schedulerVars
<1>14. QED
  BY <1>1, <1>2, <1>3, <1>4, <1>5, <1>6, <1>7, <1>8, <1>9, <1>10, <1>11, <1>12, <1>13, PassSplits
     DEF SystemNext, LifeNext

-----------------------------------------------------------------------------
(***************************************************************************)
(* The invariant of the system.                                            *)
(***************************************************************************)
LEMMA SystemStarts == SystemInit => SysInv /\ SInv
<1> SUFFICES ASSUME SystemInit PROVE SysInv /\ SInv
  OBVIOUS
<1>0. /\ call = [x \in Callers |-> Idle] /\ ledger = [c \in Courses |-> NoRow]
      /\ pass = NoPass /\ memory = NoMemory
      /\ \A x \in Callers : ~Entered(x) /\ At(x, "idle")
  BY DEF SystemInit, Init, Idle, Entered, Inside, At
<1>1. IInv /\ SInv
  BY InvInit, SpacingInit DEF SystemInit
<1>2. AccountTypeOK
  <2>1. PICK k \in Clients : /\ account = NewAccount(k)
                             /\ admin = [a \in Admins |-> IdleAdmin(k)]
    BY DEF SystemInit, AccountInit
  <2>2. account \in AccountType
    BY <2>1 DEF NewAccount, AccountType
  <2>3. admin \in [Admins -> AdminType]
    BY <2>1 DEF IdleAdmin, AdminType
  <2>4. authLock = Nobody /\ born = [x \in Callers |-> 0] /\ revoked = {}
    BY DEF SystemInit, AccountInit
  <2>5. QED BY <2>2, <2>3, <2>4, TypesNamed
<1>3. SchedulerTypeOK
  <2>1. daemon \in DaemonType
    BY DEF SystemInit, DaemonType
  <2>2. pass \in PassType /\ memory \in MemoryType
    BY <1>0, <1>2, NoPassType, NoMemoryType, TypesNamed
  <2>3. /\ pause \in [Courses -> [saved : BOOLEAN, failsafe : BOOLEAN]]
        /\ wanted \in [Courses -> BOOLEAN]
    BY DEF SystemInit
  <2>4. QED BY <2>1, <2>2, <2>3, TypesNamed
<1>4. pass.pc = "idle" /\ pass.shown = {} /\ memory.signed = {}
  BY <1>0 DEF NoPass, NoMemory
<1>5. Linked /\ LockHeld /\ Remembered /\ InsidePresent
  BY <1>0, <1>4 DEF Linked, LockHeld, Remembered, InsidePresent, PassAt
<1>6. Truthful
  BY <1>0 DEF Truthful, NoRow, Idle, At
<1>7. PauseKept
  BY DEF SystemInit, PauseKept
<1>8. authLock = Nobody /\ \A a \in Admins : AdminAt(a, "idle")
  BY DEF SystemInit, AccountInit, IdleAdmin, AdminAt
<1>9. Custody
  BY <1>8, WhoIsWho, SigninAssumption DEF Custody, AtWork, AdminAt
<1>10. PassFresh
  BY <1>4 DEF PassFresh, Dated, PassAt
<1>11. Barred
  <2>1. account.epoch \in Nat /\ born = [x \in Callers |-> 0] /\ revoked = {}
    BY <1>2 DEF AccountTypeOK, SystemInit, AccountInit
  <2>2. QED BY <2>1 DEF Barred
<1>12. QED
  BY <1>1, <1>2, <1>3, <1>5, <1>6, <1>7, <1>9, <1>10, <1>11 DEF SysInv

LEMMA SystemStep == SysInv /\ SInv /\ [SystemNext]_allVars => SysInv' /\ SInv'
<1> SUFFICES ASSUME SysInv, SInv, [SystemNext]_allVars PROVE SysInv' /\ SInv'
  OBVIOUS
<1>0. /\ Types /\ IInv /\ Linked /\ LockHeld /\ Truthful /\ Remembered /\ PauseKept
      /\ Custody /\ PassFresh /\ InsidePresent /\ Barred
  BY DEF SysInv, Types
<1>1. IInv' /\ SInv'
  BY <1>0, WriteInvStep
<1>2. AccountTypeOK' /\ SchedulerTypeOK'
  BY <1>0, TypesStep DEF Types
<1>3. Linked' /\ LockHeld' /\ Truthful' /\ Remembered' /\ PauseKept'
  BY <1>0, LinkedStep, HeldInSystem, TruthInSystem, RememberedInSystem, PauseKeptInSystem
<1>4. Custody' /\ PassFresh' /\ InsidePresent' /\ Barred'
  BY <1>0, CustodyInSystem, FreshInSystem, InsideInSystem, BarredInSystem
<1>5. QED BY <1>1, <1>2, <1>3, <1>4 DEF SysInv

\* One life of the process, and a quiet day, are lives of the system.
LEMMA LivesAreSystem ==
  /\ LifeSpec => SystemSpec
  /\ QuietSpec => SystemSpec
<1>1. [LifeNext]_allVars => [SystemNext]_allVars
  BY DEF SystemNext
<1>2. [QuietNext]_allVars => [SystemNext]_allVars
  <2>1. QuietTick => World
    BY DEF QuietTick, World
  <2>2. ASSUME NEW c \in Courses, SkipCourse(c) \/ Attempt(c) PROVE Pass
    BY <2>2 DEF Pass
  <2>3. QuietNext => SystemNext
    BY <2>1, <2>2 DEF QuietNext, SystemNext, LifeNext, Pass
  <2>4. QED BY <2>3
<1>3. QuietInit => SystemInit
  BY DEF QuietInit
<1>4. QED BY <1>1, <1>2, <1>3, PTL DEF LifeSpec, QuietSpec, SystemSpec

(***************************************************************************)
(* The invariant holds however daemon, button, handlers, school, pauses    *)
(* and crashes interleave; with it every variable has its type.            *)
(***************************************************************************)
THEOREM SystemInvariance == SystemSpec => [](SysInv /\ SInv)
BY SystemStarts, SystemStep, PTL DEF SystemSpec

(***************************************************************************)
(* The variables of daemon, pass, memory, pauses, accounts and handlers    *)
(* keep their types, as do those of the client (scheduler.py, app.py).     *)
(***************************************************************************)
THEOREM SystemTypes == SystemSpec => []SystemTypeOK
<1>1. SysInv => SystemTypeOK
  BY DEF SysInv, IInv, SystemTypeOK
<1>2. QED BY <1>1, SystemInvariance, PTL

(***************************************************************************)
(* The budget of requests for a lesson and the pauses between them hold in *)
(* the whole system, where daemon and button share clients and handlers    *)
(* take sessions and clients away (perform_signin with its ledger).        *)
(***************************************************************************)
THEOREM SystemBudget == SystemSpec => [](PostBudget /\ GroupSpacing)
<1>1. SysInv /\ SInv => PostBudget /\ GroupSpacing
  BY WithinBudget, SpacingFollows DEF SysInv
<1>2. QED BY <1>1, SystemInvariance, PTL

(***************************************************************************)
(* No request follows one whose outcome is unknown in the whole system,    *)
(* whoever asks: the button after the daemon, the daemon after a crash.    *)
(***************************************************************************)
THEOREM SystemNoBlindResend == SystemSpec => NoBlindResend
<1> DEFINE Step == \A c \in Courses : sentAt'[c] # sentAt[c] => answered[c]
<1>1. SysInv /\ SInv /\ [SystemNext]_allVars => [Step]_vars
  <2> SUFFICES ASSUME SysInv, [SystemNext]_allVars, NEW c \in Courses, sentAt'[c] # sentAt[c]
               PROVE  answered[c]
    OBVIOUS
  <2>1. Next \/ UNCHANGED vars \/ Borrow
    BY SystemSteps DEF SysInv, Types, IInv
  <2>2. ~Borrow
    BY DEF Borrow, WriteVars, history
  <2>3. QED BY <2>1, <2>2, SentWhenAnswered DEF SysInv
<1>2. QED BY <1>1, SystemInvariance, PTL DEF SystemSpec, NoBlindResend

(***************************************************************************)
(* Neither the daemon's memory (signed_courses) nor a success in the       *)
(* ledger stands for a lesson the school has not recorded.                 *)
(***************************************************************************)
THEOREM FalseSuccess == SystemSpec => []NoFalseSuccess
<1>1. SysInv => NoFalseSuccess
  BY DEF SysInv, Remembered, Truthful, NoFalseSuccess
<1>2. QED BY <1>1, SystemInvariance, PTL

\* The request is built by a daemon or a button whose guard is open.
LEMMA BuiltByOpenGuard ==
  ASSUME SysInv, [SystemNext]_allVars, NEW x \in Callers, At(x, "claimed"), call'[x].pc = "post"
  PROVE  \/ x = Caller /\ PassAt("signing") /\ ~pass.cancelled /\ DaemonGuard
         \/ x \in Buttons /\ ButtonGuard(x)
<1>0. /\ TypeOK /\ Types /\ SchedulerTypeOK /\ Caller \in Callers
      /\ Buttons \subseteq Callers /\ Daemons \subseteq Callers
      /\ call[x].pc = "claimed" /\ call'[x] # call[x] /\ ~LoopFree
  BY TheCaller, WhoIsWho DEF SysInv, IInv, Types, Daemons, At, LoopFree
<1>1. ASSUME NEW y \in Callers, Coroutine(y) \/ Network(y) PROVE y = x
  BY <1>0, <1>1, OneCallMoves
<1>2. ASSUME NEW y \in Callers, y = x, NEW ok \in BOOLEAN, Recheck(y, ok) PROVE ok
  <2>1. ~ok => call' = [call EXCEPT ![x] = Returned(x, "false")]
    BY <1>2 DEF Recheck, Leave
  <2>2. QED BY <1>0, <2>1 DEF TypeOK, Returned
<1>3. CASE PassMoves
  BY <1>0, <1>3, PassMovesFacts DEF WriteVars
<1>4. ASSUME NEW c \in Courses, PassSkips(c) \/ PassCalls(c) PROVE FALSE
  BY <1>0, <1>4, PassSkipsFacts DEF PassCalls, Call, vars
<1>5. CASE DaemonSteps
  <2>1. PICK y \in Callers : y = Caller
    BY <1>0
  <2>2. y = x
    BY <1>0, <1>1, <1>5, <2>1, DaemonWrites
  <2>3. Recheck(y, DaemonGuard) /\ PassAt("signing") /\ ~pass.cancelled
    BY <1>0, <1>5, <2>1 DEF DaemonSteps, Enter, LoginDone, ListDone, TimeDone, ConnectFails,
                           Response, CancelWait, ReadFails, ResponseLost
  <2>4. DaemonGuard
    BY <1>2, <2>2, <2>3, GuardsAnswer
  <2>5. QED BY <2>1, <2>2, <2>3, <2>4
<1>6. CASE DaemonReturns
  <2>1. PICK y \in Callers : y = Caller
    BY <1>0
  <2>2. Return(y) /\ Coroutine(y)
    BY <1>6, <2>1 DEF DaemonReturns, Coroutine
  <2>3. QED BY <1>0, <1>1, <2>2 DEF Return, At
<1>7. CASE \/ Start \/ Stop \/ Administration
           \/ \E c \in Pausable, on, stored \in BOOLEAN : SetPause(c, on, stored)
           \/ \E a \in Admins : Handler(a)
           \/ UNCHANGED allVars
  BY <1>0, <1>7 DEF Start, Stop, SetPause, Administration, Begin, SetAuto, Handler, Dispose,
                    Withdraw, AuthLocked, SignLocked, WorkDone, vars, allVars, WriteVars
<1>8. CASE World
  <2>1. UNCHANGED call \/ \E y \in Buttons \cup Daemons : Network(y)
    BY <1>8 DEF World, StrayHandled, SignedElsewhere, SessionRefreshed, Tick, Network
  <2>2. ~Network(x)
    BY <1>0 DEF Network, Transmit, SchoolHandles, At
  <2>3. QED BY <1>0, <1>1, <2>1, <2>2
<1>9. ASSUME NEW y \in Buttons, Button(y) PROVE x \in Buttons /\ ButtonGuard(x)
  <2>1. y = x /\ y \in Callers
    BY <1>0, <1>1, <1>9, ButtonWrites
  <2>2. Recheck(y, ButtonGuard(y))
    BY <1>0, <1>9, <2>1 DEF Button, ButtonSteps, ButtonReturns, Press, Call, Return, At,
         Enter, LoginDone, ListDone, TimeDone, ConnectFails, Response, ReadFails, ResponseLost
  <2>3. ButtonGuard(y)
    BY <1>2, <2>1, <2>2, GuardsAnswer
  <2>4. QED BY <2>1, <2>3
<1>10. CASE SystemCrash
  BY <1>0, <1>10 DEF SystemCrash, AccountCrash, Crash, Idle
<1>11. QED
  BY <1>3, <1>4, <1>5, <1>6, <1>7, <1>8, <1>9, <1>10, PassSplits DEF SystemNext, LifeNext

(***************************************************************************)
(* A call whose daemon run was stopped, or whose account was reconnected,  *)
(* switched or removed after it began, builds no request any more: its     *)
(* guard (_check_course, /api/signin) compares epochs that cannot meet     *)
(* again.                                                                  *)
(***************************************************************************)
THEOREM RevokedStaySilent == SystemSpec => RevokedNeverPosts
<1> DEFINE Step == \A x \in revoked : At(x, "claimed") => call'[x].pc # "post"
<1>1. SysInv /\ SInv /\ [SystemNext]_allVars => [Step]_allVars
  <2> SUFFICES ASSUME SysInv, [SystemNext]_allVars, NEW x \in revoked, At(x, "claimed"),
                      call'[x].pc = "post"
               PROVE  FALSE
    OBVIOUS
  <2>1. x \in Callers /\ Caller \notin Buttons
    BY TheCaller DEF SysInv, AccountTypeOK
  <2>2. CASE x = Caller /\ ~pass.cancelled /\ DaemonGuard
    <3>1. account.removed \/ pass.epoch < account.epoch
      BY <2>1, <2>2 DEF SysInv, Barred
    <3>2. account.epoch = pass.epoch /\ ~account.removed /\ pass.epoch \in Nat
      BY <2>2 DEF DaemonGuard, Allowed, RequestGuard, SysInv, SchedulerTypeOK
    <3>3. QED BY <3>1, <3>2
  <2>3. CASE x \in Buttons /\ ButtonGuard(x)
    <3>1. account.removed \/ born[x] < account.epoch
      BY <2>3 DEF SysInv, Barred
    <3>2. account.epoch = born[x] /\ ~account.removed /\ born[x] \in Nat
      BY <2>1, <2>3 DEF ButtonGuard, RequestGuard, SysInv, AccountTypeOK
    <3>3. QED BY <3>1, <3>2
  <2>4. QED BY <2>1, <2>2, <2>3, BuiltByOpenGuard
<1>2. QED BY <1>1, SystemInvariance, PTL DEF SystemSpec, RevokedNeverPosts

(***************************************************************************)
(* No request leaves a client that is no longer the account's: handlers    *)
(* that replace or close it hold its sign-in lock meanwhile.               *)
(***************************************************************************)
THEOREM RetiredStaySilent == SystemSpec => RetiredClientSilent
<1> DEFINE Step == \A x \in Callers : call[x].wire = "unsent" /\ call'[x].wire = "sent"
                     => account.client = Client(x)
<1>1. SysInv => Step
  BY DEF SysInv, IInv, CallOK, InsidePresent, Entered, Inside, At
<1>2. SysInv /\ SInv /\ [SystemNext]_allVars => [Step]_allVars
  BY <1>1
<1>3. QED BY <1>2, SystemInvariance, PTL DEF SystemSpec, RetiredClientSilent

(***************************************************************************)
(* From the moment the student pauses a course, saved or not, the daemon   *)
(* builds no request for it.                                               *)
(***************************************************************************)
THEOREM PausesHold == SystemSpec => PauseHolds
<1> DEFINE Step == \A x \in Daemons : At(x, "claimed") /\ call'[x].pc = "post"
                     => ~wanted[Course(x)]
<1>1. SysInv /\ SInv /\ [SystemNext]_allVars => [Step]_allVars
  <2> SUFFICES ASSUME SysInv, [SystemNext]_allVars, NEW x \in Daemons, At(x, "claimed"),
                      call'[x].pc = "post"
               PROVE  ~wanted[Course(x)]
    OBVIOUS
  <2>1. x \in Callers /\ x \notin Buttons
    BY WhoIsWho DEF Daemons
  <2>2. x = Caller /\ PassAt("signing") /\ DaemonGuard
    BY <2>1, BuiltByOpenGuard
  <2>3. Course(x) = pass.course /\ Course(x) \in Courses
    BY <2>1, <2>2 DEF SysInv, Linked, IInv, CallOK, At
  <2>4. ~pause[Course(x)].saved /\ ~pause[Course(x)].failsafe
    BY <2>2, <2>3 DEF DaemonGuard, CourseAllowed
  <2>5. QED BY <2>3, <2>4 DEF SysInv, PauseKept
<1>2. QED BY <1>1, SystemInvariance, PTL DEF SystemSpec, PauseHolds

-----------------------------------------------------------------------------
(***************************************************************************)
(* Lessons given up: the parts that perform_signin keeps.                  *)
(***************************************************************************)
LEMMA RowStays ==
  ASSUME IInv, [Next]_vars \/ Borrow, NEW c \in Courses, ledger[c].state # "none"
  PROVE  ledger'[c].state # "none"
<1>0. ledger \in [Courses -> Row] /\ \A x \in Callers : ~At(x, "idle") => Course(x) \in Courses
  BY DEF IInv, TypeOK, CallOK
<1>1. ASSUME NEW d \in Courses, NEW row, SetRow(d, row), ledger[d].state # "none" => row.state # "none"
      PROVE  ledger'[c].state # "none"
  BY <1>0, <1>1 DEF SetRow
<1>2. ASSUME NEW x \in Callers,
             \/ \E ok \in BOOLEAN : Recheck(x, ok)
             \/ ListDone(x) \/ \E ok \in BOOLEAN, t \in 0 .. Horizon : TimeDone(x, ok, t)
             \/ ConnectFails(x) \/ Response(x)
             \/ \E outcome \in {"error", "cancelled"} : ResponseLost(x, outcome)
      PROVE  ledger'[c].state # "none"
  <2>1. Course(x) \in Courses
    BY <1>0, <1>2 DEF Recheck, ListDone, TimeDone, ConnectFails, Response, ResponseLost, At
  <2> DEFINE row == ledger[Course(x)]
  <2>2. /\ \A t : Confirmed(row, t).state # "none" /\ Claimed(row, t).state # "none"
        /\ \A t : \A o \in {"success", "failed", "uncertain"} :
             row.state # "none" => Finished(row, o, t).state # "none"
        /\ \A t : row.state # "none" => FailedBeforeSend(row, t).state # "none"
    BY <1>0, <2>1 DEF Confirmed, Claimed, Finished, FailedBeforeSend, Row
  <2>3. \/ UNCHANGED ledger
        \/ \E t : SetRow(Course(x), Confirmed(row, t)) \/ SetRow(Course(x), Claimed(row, t))
                    \/ SetRow(Course(x), FailedBeforeSend(row, t))
        \/ \E t : \E o \in {"success", "failed", "uncertain"} : SetRow(Course(x), Finished(row, o, t))
    BY <1>2 DEF Recheck, ListDone, TimeDone, ConnectFails, Response, ResponseLost
  <2>4. QED BY <1>1, <2>1, <2>2, <2>3
<1>3. ASSUME NEW x \in Callers, Coroutine(x) \/ Network(x) PROVE ledger'[c].state # "none"
  BY <1>2, <1>3 DEF Coroutine, Network, Call, Enter, LoginDone, ReadFails, CancelWait, Return,
                    Transmit, SchoolHandles
<1>4. QED
  BY <1>3 DEF Next, StrayHandled, SignedElsewhere, SessionRefreshed, Tick, Crash, vars,
              Borrow, WriteVars

LEMMA SpentKept ==
  ASSUME TypeOK, TypeOK', NEW c \in Courses, Spent(c), ledger'[c].attempts >= ledger[c].attempts,
         \A y \in Callers : Sending(y)' => Sending(y) /\ Course(y)' = Course(y)
  PROVE  Spent(c)'
<1>1. ledger[c].attempts \in Nat /\ ledger'[c].attempts \in Nat /\ MaxPosts \in Nat
  BY PolicyAssumption DEF TypeOK, Row
<1>2. QED BY <1>1 DEF Spent

LEMMA SpentStays ==
  ASSUME IInv, [Next]_vars \/ Borrow, NEW c \in Courses, Spent(c)
  PROVE  Spent(c)'
<1>t. TypeOK'
  BY InvStep, BorrowKeeps DEF IInv
<1>0. /\ TypeOK /\ ledger \in [Courses -> Row] /\ ledger[c].attempts \in Nat
      /\ \A x \in Callers : ~At(x, "idle") => Course(x) \in Courses
      /\ \A d \in Courses : ledger[d] \in Row
  BY DEF IInv, TypeOK, CallOK, Row
<1> DEFINE Fewer == \A y \in Callers : Sending(y)' => Sending(y) /\ Course(y)' = Course(y)
<1>l. ASSUME NEW x \in Callers, NEW r, Leave(x, r) PROVE Fewer
  <2>1. ~Sending(x)' /\ \A y \in Callers \ {x} : call'[y] = call[y]
    BY <1>0, <1>l DEF Leave, TypeOK, Returned, Sending
  <2>2. QED BY <2>1 DEF Sending, Course
<1>g. ASSUME NEW x \in Callers, \A y \in Callers \ {x} : call'[y] = call[y],
             Sending(x)' => Sending(x) /\ Course(x)' = Course(x)
      PROVE  Fewer
  BY <1>g DEF Sending, Course
<1>u. ASSUME UNCHANGED ledger, Fewer PROVE Spent(c)'
  BY <1>0, <1>t, <1>u, SpentKept
<1>r. ASSUME NEW d \in Courses, NEW row, SetRow(d, row), d # c \/ row.attempts >= ledger[d].attempts,
             Fewer
      PROVE  Spent(c)'
  <2>1. ledger'[c].attempts >= ledger[c].attempts
    BY <1>0, <1>r DEF SetRow
  <2>2. QED BY <1>0, <1>r, <1>t, <2>1, SpentKept
<1>f. \A row \in Row : \A t :
        /\ Confirmed(row, t).attempts >= row.attempts
        /\ \A o \in {"success", "failed", "uncertain"} :
             Finished(row, o, t).attempts >= row.attempts
  BY DEF Confirmed, Finished, Row
<1>1. ASSUME NEW x \in Callers, NEW ok \in BOOLEAN, Recheck(x, ok) PROVE Spent(c)'
  <2>1. Sending(x) /\ Course(x) \in Courses /\ Course(x) # c
    BY <1>0, <1>1 DEF Recheck, At, Sending, Spent
  <2>2. CASE /\ call' = [call EXCEPT ![x].pc = "post", ![x].wire = "unsent"]
             /\ UNCHANGED ledger
    <3>1. Course(x)' = Course(x) /\ \A y \in Callers \ {x} : call'[y] = call[y]
      BY <1>0, <2>2 DEF TypeOK, CallType, Course
    <3>2. QED BY <1>g, <1>u, <2>1, <2>2, <3>1
  <2>3. QED BY <1>1, <1>l, <1>r, <2>1, <2>2 DEF Recheck
<1>2. ASSUME NEW x \in Callers, NEW ok \in BOOLEAN, NEW t \in 0 .. Horizon, TimeDone(x, ok, t)
      PROVE  Spent(c)'
  <2>1. Course(x) \in Courses
    BY <1>0, <1>2 DEF TimeDone, At
  <2>2. CASE /\ SigninVerdict(x, t) = "granted"
             /\ SetRow(Course(x), Claimed(ledger[Course(x)], now))
             /\ call' = [call EXCEPT ![x].pc = "claimed", ![x].schoolNow = t]
    <3>1. Course(x) # c
      <4>1. /\ ledger[Course(x)].state # "none" => ~(ledger[Course(x)].attempts >= MaxPosts)
            /\ ledger[Course(x)].state = "none" => ledger[Course(x)].attempts = 0
        BY <2>1, <2>2 DEF SigninVerdict, ClaimVerdict, IInv, Counted
      <4>2. QED BY <2>1, <4>1, PolicyAssumption DEF Spent
    <3>2. /\ \A y \in Callers \ {x} : call'[y] = call[y]
          /\ Course(x)' = Course(x)
      BY <1>0, <2>2 DEF TypeOK, CallType, Course
    <3>3. ledger'[c] = ledger[c]
      BY <1>0, <2>1, <2>2, <3>1 DEF SetRow
    <3>4. QED BY <3>1, <3>2, <3>3 DEF Spent, Sending, Course
  <2>3. CASE UNCHANGED ledger /\ \E r : Leave(x, r)
    BY <1>l, <1>u, <2>3
  <2>4. QED BY <1>2, <2>2, <2>3 DEF TimeDone
<1>3. ASSUME NEW x \in Callers, ListDone(x) PROVE Spent(c)'
  <2>1. Course(x) \in Courses
    BY <1>0, <1>3 DEF ListDone, At
  <2>2. CASE SetRow(Course(x), Confirmed(ledger[Course(x)], now)) /\ Leave(x, "true")
    BY <1>0, <1>f, <1>l, <1>r, <2>1, <2>2
  <2>3. CASE Goto(x, "time") /\ UNCHANGED ledger
    <3>1. ~Sending(x)' /\ \A y \in Callers \ {x} : call'[y] = call[y]
      BY <1>0, <2>3 DEF Goto, TypeOK, CallType, Sending
    <3>2. QED BY <1>g, <1>u, <2>3, <3>1
  <2>4. CASE Leave(x, "false") /\ UNCHANGED ledger
    BY <1>l, <1>u, <2>4
  <2>5. QED BY <1>3, <2>2, <2>3, <2>4 DEF ListDone
<1>4. ASSUME NEW x \in Callers,
             \/ ConnectFails(x) \/ Response(x)
             \/ \E outcome \in {"error", "cancelled"} : ResponseLost(x, outcome)
      PROVE  Spent(c)'
  <2>1. Sending(x) /\ Course(x) \in Courses /\ Course(x) # c
    BY <1>0, <1>4 DEF ConnectFails, Response, ResponseLost, At, Sending, Spent
  <2>2. (\E row : SetRow(Course(x), row)) /\ \E r : Leave(x, r)
    BY <1>4 DEF ConnectFails, Response, ResponseLost
  <2>3. QED BY <1>l, <1>r, <2>1, <2>2
<1>5. ASSUME NEW x \in Callers, NEW ok \in BOOLEAN, Enter(x, ok) PROVE Spent(c)'
  <2>1. Fewer
    <3>1. CASE ok
      <4>1. ~Sending(x)' /\ \A y \in Callers \ {x} : call'[y] = call[y]
        BY <1>0, <1>5, <3>1 DEF Enter, Goto, TypeOK, CallType, Sending
      <4>2. QED BY <1>g, <4>1
    <3>2. CASE ~ok
      BY <1>5, <1>l, <3>2 DEF Enter
    <3>3. QED BY <3>1, <3>2
  <2>2. QED BY <1>5, <1>u, <2>1 DEF Enter
<1>6. ASSUME NEW x \in Callers,
             \/ LoginDone(x) \/ CancelWait(x) \/ Return(x) \/ \E d \in Courses : Call(x, d)
             \/ \E outcome \in {"error", "cancelled"} : ReadFails(x, outcome)
      PROVE  Spent(c)'
  <2>1. UNCHANGED ledger
    BY <1>6 DEF LoginDone, CancelWait, Return, Call, ReadFails
  <2>2. Fewer
    <3>1. CASE \E r : Leave(x, r)
      BY <1>l, <3>1
    <3>2. CASE CancelWait(x) \/ Return(x) \/ Goto(x, "list") \/ \E d \in Courses : Call(x, d)
      <4>1. ~Sending(x)' /\ \A y \in Callers \ {x} : call'[y] = call[y]
        BY <1>0, <3>2 DEF CancelWait, Return, Goto, Call, Idle, TypeOK, CallType, Sending
      <4>2. QED BY <1>g, <4>1
    <3>3. QED BY <1>6, <3>1, <3>2 DEF LoginDone, ReadFails
  <2>3. QED BY <1>u, <2>1, <2>2
<1>7. ASSUME NEW x \in Callers, Network(x) PROVE Spent(c)'
  <2>1. Course(x)' = Course(x) /\ Sending(x) /\ UNCHANGED ledger
        /\ \A y \in Callers \ {x} : call'[y] = call[y]
    BY <1>0, <1>7 DEF Network, Transmit, SchoolHandles, TypeOK, CallType, Course, Sending, At
  <2>2. QED BY <1>g, <1>u, <2>1
<1>8. CASE Crash
  BY <1>8, <1>u DEF Crash, Idle, Sending
<1>9. CASE \/ \E d \in Courses : StrayHandled(d) \/ SignedElsewhere(d)
           \/ \E k \in Clients : SessionRefreshed(k)
           \/ Tick \/ UNCHANGED vars \/ Borrow
  <2>1. UNCHANGED <<ledger, call>>
    BY <1>9 DEF StrayHandled, SignedElsewhere, SessionRefreshed, Tick, vars, Borrow, WriteVars
  <2>2. QED BY <1>u, <2>1 DEF Sending, Course
<1>10. QED
  BY <1>1, <1>2, <1>3, <1>4, <1>5, <1>6, <1>7, <1>8, <1>9 DEF Next, Coroutine

(***************************************************************************)
(* Lessons given up: what the daemon remembers.                            *)
(***************************************************************************)
LEMMA MemoryGives ==
  ASSUME Types, IInv, Linked, GivenUp, [SystemNext]_allVars, NEW c \in Courses
  PROVE  /\ memory'.retry[c] >= MaxPosts /\ ledger[c].state = "none" => c \in memory'.misjudged
         /\ c \in memory'.failed \ memory'.misjudged => Spent(c)
<1>0. /\ TypeOK /\ CallOK /\ SchedulerTypeOK /\ memory \in MemoryType /\ pass \in PassType
      /\ Caller \in Callers /\ ledger \in [Courses -> Row]
      /\ memory.retry \in [Courses -> Nat] /\ memory.failed \subseteq Courses
  BY TheCaller, TypesNamed DEF IInv, Types, TypeOK, MemoryType
<1> DEFINE Goal ==
      /\ memory'.retry[c] >= MaxPosts /\ ledger[c].state = "none" => c \in memory'.misjudged
      /\ c \in memory'.failed \ memory'.misjudged => Spent(c)
<1>u. ASSUME memory'.retry = memory.retry, memory'.failed = memory.failed,
             memory'.misjudged = memory.misjudged
      PROVE  Goal
  BY <1>u DEF GivenUp
<1>n. ASSUME memory' = NoMemory PROVE Goal
  BY <1>n, PolicyAssumption DEF NoMemory
<1>1. ASSUME NEW d \in Courses, SkipCourse(d) PROVE Goal
  BY <1>0, <1>1, <1>u DEF SkipCourse, MemoryType
<1>2. ASSUME NEW d \in Courses, SettledByRow(d) PROVE Goal
  <2> DEFINE known == [memory EXCEPT !.retry[d] = ledger[d].attempts]
  <2>1. ledger[d].state # "none"
    BY <1>2 DEF SettledByRow
  <2>2. /\ known.retry = [memory.retry EXCEPT ![d] = ledger[d].attempts]
        /\ known.failed = memory.failed /\ known.misjudged = memory.misjudged
        /\ known \in MemoryType
    BY <1>0 DEF MemoryType, Row
  <2>3. \/ memory' = [known EXCEPT !.signed = @ \cup {d}]
        \/ memory' = known
        \/ /\ ledger[d].state = "failed" /\ ledger[d].attempts >= MaxPosts
           /\ memory' = [known EXCEPT !.failed = @ \cup {d}]
    BY <1>2 DEF SettledByRow
  <2> HIDE DEF known
  <2>4. memory'.retry = known.retry /\ memory'.misjudged = memory.misjudged
    BY <2>2, <2>3 DEF MemoryType
  <2>5. c \in memory'.failed => \/ c \in memory.failed
                                \/ c = d /\ ledger[d].state = "failed" /\ ledger[d].attempts >= MaxPosts
    BY <2>2, <2>3 DEF MemoryType
  <2>6. memory'.retry[c] >= MaxPosts /\ ledger[c].state = "none" => c \in memory'.misjudged
    BY <1>0, <2>1, <2>2, <2>4 DEF GivenUp
  <2>7. ledger[c].state = "failed" => \A x \in Callers : Sending(x) => Course(x) # c
    BY <1>0 DEF CallOK
  <2>8. QED BY <2>4, <2>5, <2>6, <2>7 DEF GivenUp, Spent
<1>3. ASSUME NEW d \in Courses, Attempt(d) PROVE Goal
  <2> DEFINE n == IF ledger[d].state = "none" THEN memory.retry[d] ELSE ledger[d].attempts
  <2>1. PICK target \in Targets(d) :
          memory' = [memory EXCEPT !.planned[d] = target, !.retry[d] = n]
    BY <1>3 DEF Attempt
  <2>2. /\ memory'.retry = [memory.retry EXCEPT ![d] = n]
        /\ memory'.failed = memory.failed /\ memory'.misjudged = memory.misjudged
    BY <1>0, <2>1 DEF MemoryType
  <2>3. QED BY <1>0, <2>2 DEF GivenUp
<1>4. CASE DaemonReturns
  <2> DEFINE d == pass.course
             counted == TriedSoFar(d)
  <2>0. d \in Courses
    BY <1>0, <1>4, CourseKnown DEF DaemonReturns, Linked
  <2>1. CASE Outcome \in {"true", "cancelled"}
    BY <1>0, <1>4, <1>u, <2>1 DEF DaemonReturns, MemoryType
  <2>2. CASE Outcome = "error"
    <3>1. \/ memory' = memory
          \/ memory' = [memory EXCEPT !.planned[d] = Later(d, memory.retry[d])]
      BY <1>4, <2>2 DEF DaemonReturns
    <3>2. QED BY <1>0, <1>u, <3>1 DEF MemoryType
  <2>3. CASE Outcome = "false"
    <3>1. memory' = [memory EXCEPT !.retry[d] = counted,
             !.failed = IF counted >= MaxPosts THEN @ \cup {d} ELSE @,
             !.planned[d] = IF counted >= MaxPosts THEN @ ELSE Later(d, counted),
             !.misjudged = IF counted >= MaxPosts /\ Open(d) THEN @ \cup {d} ELSE @]
      BY <1>4, <2>3 DEF DaemonReturns
    <3>2. /\ memory'.retry = [memory.retry EXCEPT ![d] = counted]
          /\ memory'.failed = IF counted >= MaxPosts THEN memory.failed \cup {d} ELSE memory.failed
          /\ memory'.misjudged = IF counted >= MaxPosts /\ Open(d)
                                 THEN memory.misjudged \cup {d} ELSE memory.misjudged
      BY <1>0, <3>1 DEF MemoryType
    <3>3. counted >= MaxPosts => Spent(d) \/ d \in memory'.misjudged
      <4> SUFFICES ASSUME counted >= MaxPosts, ~Open(d) PROVE Spent(d) \/ d \in memory.misjudged
        BY <1>0, <3>2
      <4>1. CASE ledger[d].state # "none"
        BY <4>1 DEF TriedSoFar, Open, Spent
      <4>2. CASE ledger[d].state = "none"
        <5>1. counted = memory.retry[d]
          BY <1>0, <2>0, <4>2 DEF TriedSoFar, Open
        <5>2. QED BY <2>0, <4>2, <5>1 DEF GivenUp
      <4>3. QED BY <4>1, <4>2
    <3>4. counted >= MaxPosts /\ ledger[d].state = "none" => d \in memory'.misjudged
      <4>1. ledger[d].state = "none" => ledger[d].attempts = 0
        BY <2>0 DEF IInv, Counted
      <4>2. QED BY <3>3, <4>1, PolicyAssumption DEF Spent
    <3> HIDE DEF d, counted
    <3>5. memory'.retry[c] >= MaxPosts /\ ledger[c].state = "none" => c \in memory'.misjudged
      BY <1>0, <2>0, <3>2, <3>4 DEF GivenUp
    <3>6. c \in memory'.failed \ memory'.misjudged => Spent(c)
      BY <1>0, <2>0, <3>2, <3>3 DEF GivenUp
    <3>7. QED BY <3>5, <3>6
  <2>4. QED BY <1>4, <2>1, <2>2, <2>3 DEF DaemonReturns
<1>5. ASSUME NEW d \in Pausable, NEW on \in BOOLEAN, NEW stored \in BOOLEAN,
             SetPause(d, on, stored)
      PROVE  Goal
  BY <1>0, <1>5, <1>u DEF SetPause, MemoryType
<1>6. ASSUME NEW a \in Admins, Handler(a) PROVE Goal
  BY <1>6, <1>n, <1>u DEF Handler, Dispose, schedulerVars
<1>7. CASE SystemCrash
  BY <1>7, <1>n DEF SystemCrash
<1>8. CASE \/ PassMoves \/ DaemonSteps \/ Start \/ Stop \/ World \/ Administration
           \/ \E x \in Buttons : Button(x)
           \/ UNCHANGED allVars
  BY <1>0, <1>8, <1>u, PassMovesFacts
     DEF DaemonSteps, Start, Stop, World, Administration, Button, schedulerVars, allVars
<1>9. QED
  BY <1>1, <1>2, <1>3, <1>4, <1>5, <1>6, <1>7, <1>8 DEF SystemNext, LifeNext, Pass, PassMoves

LEMMA GivenUpStep ==
  ASSUME SysInv, GivenUp, [SystemNext]_allVars
  PROVE  GivenUp'
<1>0. Types /\ IInv /\ Linked /\ Types'
  BY TypesStep DEF SysInv, Types
<1>1. [Next]_vars \/ Borrow
  BY <1>0, SystemSteps DEF IInv
<1>2. \A c \in Courses :
        memory'.retry[c] >= MaxPosts /\ ledger'[c].state = "none" => c \in memory'.misjudged
  BY <1>0, <1>1, MemoryGives, RowStays
<1>3. \A c \in memory'.failed \ memory'.misjudged : Spent(c)'
  <2>1. memory'.failed \subseteq Courses
    BY <1>0 DEF Types, SchedulerTypeOK
  <2>2. QED BY <1>0, <1>1, <2>1, MemoryGives, SpentStays
<1>4. QED BY <1>2, <1>3 DEF GivenUp

(***************************************************************************)
(* A lesson given up (failed_permanently) has spent its budget and stays   *)
(* so, for any lessons and clients, through buttons, handlers, refunds and *)
(* crashes: unless _check_course counted another lesson's request without  *)
(* a row, or a request that another client had not had answered yet.       *)
(***************************************************************************)
THEOREM GivenUpHolds == SystemSpec => []GivenUpSpent
<1>1. SystemInit => GivenUp
  BY PolicyAssumption DEF SystemInit, NoMemory, GivenUp
<1>2. SysInv /\ SInv /\ GivenUp /\ [SystemNext]_allVars => GivenUp'
  BY GivenUpStep
<1>3. GivenUp => GivenUpSpent
  BY DEF GivenUp, GivenUpSpent, Spent
<1>4. QED BY <1>1, <1>2, <1>3, SystemInvariance, PTL DEF SystemSpec

-----------------------------------------------------------------------------
(***************************************************************************)
(* The quiet day.                                                          *)
(***************************************************************************)
LEMMA QuietTypes ==
  ASSUME SysInv
  PROVE  /\ now \in Nat /\ daemon.wake \in Nat /\ daemon \in DaemonType
         /\ pass \in PassType /\ memory \in MemoryType /\ account \in AccountType
         /\ \A c \in Courses : /\ Lesson[c].opens \in Nat /\ Lesson[c].starts \in Nat
                               /\ Lesson[c].ends \in Nat
                               /\ memory.planned[c] \in Nat \cup {NoTarget}
<1>1. SchedulerTypeOK /\ AccountTypeOK /\ TypeOK
  BY DEF SysInv, IInv
<1>2. now \in Nat /\ \A c \in Courses : /\ Lesson[c].opens \in Nat /\ Lesson[c].starts \in Nat
                                        /\ Lesson[c].ends \in Nat
  BY <1>1, SigninAssumption DEF TypeOK
<1>3. memory.planned \in [Courses -> Nat \cup {NoTarget}] /\ daemon.wake \in Nat
  BY <1>1 DEF SchedulerTypeOK
<1>4. QED BY <1>1, <1>2, <1>3, TypesNamed

LEMMA QuietNumbers ==
  ASSUME Timely
  PROVE  /\ Interval \in Nat /\ Interval > 0 /\ Margin \in Nat
         /\ Half \in Nat /\ Half + Half <= Margin
BY SchedulerAssumption DEF Timely, Half

\* The steps of a quiet day, one by one.
LEMMA QuietSteps ==
  ASSUME SysInv, Undisturbed, InTime, Timely, [QuietNext]_allVars
  PROVE  \/ /\ now' = now + 1 /\ now < daemon.wake + (IF PassAt("idle") THEN 0 ELSE Half)
            /\ UNCHANGED <<account, ledger, session, daemon, pass, memory, pause>>
         \/ /\ PassAt("idle") /\ now >= daemon.wake
            /\ pass' = [NoPass EXCEPT !.pc = "queued", !.generation = daemon.generation]
            /\ UNCHANGED <<account, ledger, session, now, daemon, memory, pause>>
         \/ /\ PassAt("queued")
            /\ pass' = [pass EXCEPT !.pc = "list", !.epoch = account.epoch]
            /\ UNCHANGED <<account, ledger, session, now, daemon, memory, pause>>
         \/ /\ PassAt("list")
            /\ pass' = [pass EXCEPT !.pc = "courses", !.todo = Courses, !.shown = {}]
            /\ \A k \in Clients : session'[k]
            /\ UNCHANGED <<account, ledger, now, daemon, memory, pause>>
         \/ /\ PassAt("courses") /\ pass.todo = {} /\ EndPass
            /\ UNCHANGED <<account, ledger, session, now, memory, pause>>
         \/ \E c \in pass.todo :
              /\ PassAt("courses") /\ now < Lesson[c].opens
              /\ pass' = [pass EXCEPT !.todo = @ \ {c}]
              /\ UNCHANGED <<account, ledger, session, now, daemon, memory, pause>>
         \/ \E c \in pass.todo : \E target \in Targets(c) :
              /\ PassAt("courses")
              /\ memory' = [memory EXCEPT !.planned[c] = target, !.retry[c] = memory.retry[c]]
              /\ \/ now < target /\ pass' = [pass EXCEPT !.todo = @ \ {c}]
                 \/ pass' = [pass EXCEPT !.pc = "signing", !.todo = @ \ {c}, !.course = c,
                                         !.others = 0]
              /\ UNCHANGED <<account, ledger, session, now, daemon, pause>>
         \/ UNCHANGED <<account, ledger, session, now, daemon, pass, memory, pause>>
<1>0. /\ pass \in PassType /\ pass.todo \subseteq Courses /\ session \in [Clients -> BOOLEAN]
      /\ account \in AccountType /\ daemon \in DaemonType
      /\ pass.client \in Clients /\ account.client \in Clients
  BY QuietTypes DEF PassType, AccountType, SysInv, IInv, TypeOK
<1>a. PassAt("courses") => Allowed
  BY DEF Undisturbed, Allowed, PassAt
<1>n. PassAt("courses") => \A c \in Courses : now < Lesson[c].starts
  <2>1. PassAt("courses") => now <= daemon.wake + Half
    BY DEF InTime, PassAt
  <2>2. ASSUME PassAt("courses"), NEW c \in Courses PROVE daemon.wake + Half < Lesson[c].starts
    <3>1. ~PassAt("signing")
      BY <2>2 DEF PassAt
    <3>2. CASE LookedAt(c)
      <4>1. daemon.wake + Interval + Margin < Lesson[c].starts
        BY <2>2, <3>1, <3>2 DEF InTime
      <4>2. QED BY <2>2, <4>1, QuietTypes, QuietNumbers
    <3>3. CASE ~LookedAt(c)
      BY <2>2, <3>1, <3>3 DEF InTime
    <3>4. QED BY <3>2, <3>3
  <2>3. QED BY <2>1, <2>2, QuietTypes, QuietNumbers
<1>1. CASE QuietTick
  BY <1>1 DEF QuietTick, Tick, Half, accountVars, schedulerVars
<1>2. CASE PassBegins
  <2>1. account.auto /\ ~account.removed
    BY DEF Undisturbed, RequestGuard
  <2>2. QED BY <1>2, <2>1 DEF PassBegins, vars, accountVars
<1>3. CASE PassAdmitted
  <2>1. /\ RequestGuard /\ account.auto /\ daemon.enabled
        /\ pass.generation = daemon.generation
        /\ pass.client = account.client /\ session[pass.client]
    BY <1>0, <1>3 DEF PassAdmitted, Undisturbed, PassAt
  <2>2. QED BY <1>3, <2>1 DEF PassAdmitted, vars
<1>4. CASE Listed /\ pass'.todo = Courses /\ pass'.shown = {}
  <2>1. PICK todo \in SUBSET Courses, shown \in SUBSET Courses :
          pass' = [pass EXCEPT !.pc = "courses", !.todo = todo, !.shown = shown]
    BY <1>4, SchedulerAssumption DEF Listed
  <2>2. todo = pass'.todo /\ shown = pass'.shown
    BY <1>0, <2>1 DEF PassType
  <2>3. pass' = [pass EXCEPT !.pc = "courses", !.todo = Courses, !.shown = {}]
    BY <1>4, <2>1, <2>2
  <2>4. \A k \in Clients : session'[k]
    BY <1>0, <1>4 DEF Listed, Undisturbed
  <2>5. QED BY <1>4, <2>3, <2>4 DEF Listed, WriteVars, accountVars
<1>5. CASE LoopEnds
  BY <1>5, <1>a DEF LoopEnds, vars, accountVars
<1>6. ASSUME NEW c \in Courses, SkipCourse(c)
      PROVE  /\ c \in pass.todo /\ PassAt("courses") /\ now < Lesson[c].opens
             /\ pass' = [pass EXCEPT !.todo = @ \ {c}]
             /\ UNCHANGED <<account, ledger, session, now, daemon, memory, pause>>
  <2>1. CourseAllowed(c) /\ c \notin pass.shown /\ c \notin memory.signed /\ c \notin memory.failed
    BY DEF Undisturbed, CourseAllowed
  <2>2. PassAt("courses") /\ ~InWindow(Lesson[c], now)
    BY <1>6, <2>1 DEF SkipCourse, SkippedFor
  <2>3. now < Lesson[c].starts
    BY <1>n, <2>2
  <2>4. now < Lesson[c].opens
    BY <2>2, <2>3, QuietTypes DEF InWindow, Timely
  <2>5. memory' = memory
    BY <1>6, <2>1 DEF SkipCourse
  <2>6. QED BY <1>6, <2>2, <2>4, <2>5 DEF SkipCourse, Skip, vars, accountVars
<1>7. ASSUME NEW c \in Courses, Attempt(c)
      PROVE  /\ c \in pass.todo
             /\ \E target \in Targets(c) :
                  /\ PassAt("courses")
                  /\ memory' = [memory EXCEPT !.planned[c] = target, !.retry[c] = memory.retry[c]]
                  /\ \/ now < target /\ pass' = [pass EXCEPT !.todo = @ \ {c}]
                     \/ pass' = [pass EXCEPT !.pc = "signing", !.todo = @ \ {c}, !.course = c,
                                             !.others = 0]
                  /\ UNCHANGED <<account, ledger, session, now, daemon, pause>>
  <2>1. ledger[c].state = "none"
    BY DEF Undisturbed, NoRow
  <2>2. PICK target \in Targets(c) :
          /\ memory' = [memory EXCEPT !.planned[c] = target, !.retry[c] = memory.retry[c]]
          /\ IF now < target
             THEN Skip(c) /\ UNCHANGED vars
             ELSE /\ pass' = [pass EXCEPT !.pc = "signing", !.todo = @ \ {c}, !.course = c,
                                             !.others = 0]
                  /\ Call(Caller, c)
    BY <1>7, <2>1 DEF Attempt
  <2>3. UNCHANGED <<ledger, session, now>>
    BY <2>2 DEF vars, Call
  <2>4. QED BY <1>7, <2>2, <2>3 DEF Attempt, Considered, Skip, accountVars
<1>8. CASE UNCHANGED allVars
  BY <1>8 DEF allVars, vars, accountVars, schedulerVars
<1>9. QED BY <1>0, <1>1, <1>2, <1>3, <1>4, <1>5, <1>6, <1>7, <1>8 DEF QuietNext

\* What a quiet step leaves alone.
LEMMA UndisturbedKept ==
  ASSUME Undisturbed, UNCHANGED <<account, ledger, pause>>,
         daemon'.enabled, \A k \in Clients : session'[k],
         memory'.signed = {}, memory'.failed = {},
         pass'.pc \in {"idle", "queued", "list", "courses", "signing"},
         pass'.client = account.client, ~pass'.cancelled, pass'.shown = {},
         pass'.pc # "idle" => pass'.generation = daemon'.generation,
         pass'.pc \in {"list", "courses"} => pass'.epoch = account.epoch,
         pass'.course # NoCourse <=> pass'.pc = "signing"
  PROVE  Undisturbed'
BY DEF Undisturbed, RequestGuard, PassAt

LEMMA QuietUndisturbed ==
  ASSUME SysInv, Undisturbed, InTime, Timely, [QuietNext]_allVars
  PROVE  Undisturbed'
<1>0. /\ pass \in PassType /\ memory \in MemoryType /\ account \in AccountType
      /\ daemon \in DaemonType /\ pass.todo \subseteq Courses /\ NoCourse \notin Courses
      /\ account.client \in Clients
  BY QuietTypes, SigninAssumption DEF PassType, AccountType
<1>p. PassAt("idle") \/ PassAt("queued") \/ PassAt("list") \/ PassAt("courses") \/ PassAt("signing")
  BY DEF Undisturbed, PassAt
<1>1. CASE UNCHANGED <<account, ledger, session, daemon, pass, memory, pause>>
  BY <1>1 DEF Undisturbed, RequestGuard, PassAt
<1>2. CASE /\ PassAt("idle")
           /\ pass' = [NoPass EXCEPT !.pc = "queued", !.generation = daemon.generation]
           /\ UNCHANGED <<account, ledger, session, now, daemon, memory, pause>>
  <2>1. /\ pass'.pc = "queued" /\ pass'.client = account.client /\ ~pass'.cancelled
        /\ pass'.shown = {} /\ pass'.generation = daemon.generation /\ pass'.course = NoCourse
    BY <1>2 DEF NoPass
  <2>2. QED BY <1>2, <2>1, UndisturbedKept DEF Undisturbed
<1>3. CASE /\ PassAt("queued")
           /\ pass' = [pass EXCEPT !.pc = "list", !.epoch = account.epoch]
           /\ UNCHANGED <<account, ledger, session, now, daemon, memory, pause>>
  <2>1. /\ pass'.pc = "list" /\ pass'.client = pass.client /\ pass'.cancelled = pass.cancelled
        /\ pass'.shown = pass.shown /\ pass'.generation = pass.generation
        /\ pass'.course = pass.course /\ pass'.epoch = account.epoch
    BY <1>0, <1>3 DEF PassType
  <2>2. QED BY <1>3, <2>1, UndisturbedKept DEF Undisturbed, PassAt
<1>4. CASE /\ PassAt("list")
           /\ pass' = [pass EXCEPT !.pc = "courses", !.todo = Courses, !.shown = {}]
           /\ \A k \in Clients : session'[k]
           /\ UNCHANGED <<account, ledger, now, daemon, memory, pause>>
  <2>1. /\ pass'.pc = "courses" /\ pass'.client = pass.client /\ pass'.cancelled = pass.cancelled
        /\ pass'.shown = {} /\ pass'.generation = pass.generation
        /\ pass'.course = pass.course /\ pass'.epoch = pass.epoch
    BY <1>0, <1>4 DEF PassType
  <2>2. QED BY <1>4, <2>1, UndisturbedKept DEF Undisturbed, PassAt
<1>5. CASE /\ PassAt("courses") /\ EndPass
           /\ UNCHANGED <<account, ledger, session, now, memory, pause>>
  <2>1. /\ pass'.pc = "idle" /\ pass'.client = pass.client /\ ~pass'.cancelled
        /\ pass'.shown = {} /\ pass'.course = NoCourse
    BY <1>5 DEF EndPass, PassOver, NoPass
  <2>2. daemon'.enabled = daemon.enabled
    BY <1>0, <1>5 DEF EndPass, DaemonType
  <2>3. QED BY <1>5, <2>1, <2>2, UndisturbedKept DEF Undisturbed
<1>6. ASSUME NEW c \in pass.todo, PassAt("courses"),
             UNCHANGED <<account, ledger, session, daemon, pause>>,
             memory'.signed = memory.signed, memory'.failed = memory.failed,
             \/ pass' = [pass EXCEPT !.todo = @ \ {c}]
             \/ pass' = [pass EXCEPT !.pc = "signing", !.todo = @ \ {c}, !.course = c,
                                     !.others = 0]
      PROVE  Undisturbed'
  <2>1. /\ pass'.client = pass.client /\ pass'.cancelled = pass.cancelled
        /\ pass'.shown = pass.shown /\ pass'.generation = pass.generation
        /\ pass'.epoch = pass.epoch
        /\ \/ pass'.pc = "courses" /\ pass'.course = pass.course
           \/ pass'.pc = "signing" /\ pass'.course = c
    <3>1. CASE pass' = [pass EXCEPT !.todo = @ \ {c}]
      BY <1>0, <1>6, <3>1 DEF PassType, PassAt
    <3>2. CASE pass' = [pass EXCEPT !.pc = "signing", !.todo = @ \ {c}, !.course = c,
                                     !.others = 0]
      BY <1>0, <3>2 DEF PassType
    <3>3. QED BY <1>6, <3>1, <3>2
  <2>2. c # NoCourse
    BY <1>0
  <2>3. QED BY <1>6, <2>1, <2>2, UndisturbedKept DEF Undisturbed, PassAt
<1>7. ASSUME NEW c \in pass.todo, NEW target \in Targets(c),
             memory' = [memory EXCEPT !.planned[c] = target, !.retry[c] = memory.retry[c]]
      PROVE  memory'.signed = memory.signed /\ memory'.failed = memory.failed
  BY <1>0, <1>7 DEF MemoryType
<1>8. QED BY <1>1, <1>2, <1>3, <1>4, <1>5, <1>6, <1>7, QuietSteps

\* A first target lies a pass before the start, if it is not due at once.
LEMMA TargetInTime ==
  ASSUME SysInv, Undisturbed, InTime, Timely, NEW c \in pass.todo, NEW target \in Targets(c),
         PassAt("courses"), now < target
  PROVE  target \in Nat /\ target + Interval + Margin <= Lesson[c].starts
<1>0. c \in Courses /\ TypeOK /\ SchedulerTypeOK
  BY QuietTypes DEF PassType, SysInv, IInv
<1>1. ledger[c].state = "none" /\ ~PassAt("signing")
  BY <1>0 DEF Undisturbed, NoRow, PassAt
<1>2. CASE memory.planned[c] # NoTarget
  <2>1. target = memory.planned[c]
    BY <1>1, <1>2 DEF Targets
  <2>2. QED BY <1>0, <1>1, <1>2, <2>1, QuietTypes DEF InTime
<1>3. CASE memory.planned[c] = NoTarget
  <2>1. target \in FirstTargets(c)
    BY <1>1, <1>3 DEF Targets
  <2>2. QED BY <1>0, <2>1, QuietTypes, QuietNumbers DEF FirstTargets
<1>4. QED BY <1>2, <1>3

LEMMA QuietInTime ==
  ASSUME SysInv, Undisturbed, InTime, Timely, [QuietNext]_allVars
  PROVE  InTime'
<1>0. /\ pass \in PassType /\ memory \in MemoryType /\ daemon \in DaemonType
      /\ pass.todo \subseteq Courses /\ now \in Nat /\ daemon.wake \in Nat
      /\ memory.planned \in [Courses -> Nat \cup {NoTarget}]
      /\ Interval \in Nat /\ Interval > 0 /\ Margin \in Nat /\ Half \in Nat /\ Half + Half <= Margin
      /\ \A c \in Courses : Lesson[c].opens \in Nat /\ Lesson[c].starts \in Nat
  BY QuietTypes, QuietNumbers DEF PassType, MemoryType
<1> DEFINE Planned(c) == memory.planned[c] # NoTarget =>
                           memory.planned[c] + Interval + Margin <= Lesson[c].starts
           Looked(c) == daemon.wake + Interval + Margin < Lesson[c].starts
           Ahead(c) == daemon.wake + Half < Lesson[c].starts
<1>i. ~PassAt("signing") => \A c \in Courses :
        Planned(c) /\ (IF LookedAt(c) THEN Looked(c) ELSE Ahead(c))
  BY DEF InTime
<1>a. \A c \in Courses : Looked(c) => Ahead(c)
  BY <1>0
<1>1. CASE /\ now' = now + 1 /\ now < daemon.wake + (IF PassAt("idle") THEN 0 ELSE Half)
           /\ UNCHANGED <<account, ledger, session, daemon, pass, memory, pause>>
  BY <1>0, <1>1 DEF InTime, PassAt, LookedAt
<1>2. CASE UNCHANGED <<account, ledger, session, now, daemon, pass, memory, pause>>
  BY <1>2 DEF InTime, PassAt, LookedAt
<1>3. ASSUME UNCHANGED <<now, daemon, memory>>, ~PassAt("signing"), pass'.pc \in {"queued", "list", "courses"},
             PassAt("idle") => now >= daemon.wake,
             pass'.pc = "courses" => pass'.todo = Courses
      PROVE  InTime'
  <2>1. now <= daemon.wake + Half /\ daemon.wake <= now
    BY <1>0, <1>3 DEF InTime
  <2>2. \A c \in Courses : Planned(c) /\ Ahead(c) /\ ~LookedAt(c)'
    BY <1>3, <1>i, <1>a DEF LookedAt, PassAt
  <2>3. QED BY <1>3, <2>1, <2>2 DEF InTime, PassAt
<1>4. CASE /\ PassAt("idle") /\ now >= daemon.wake
           /\ pass' = [NoPass EXCEPT !.pc = "queued", !.generation = daemon.generation]
           /\ UNCHANGED <<account, ledger, session, now, daemon, memory, pause>>
  <2>1. pass'.pc = "queued"
    BY <1>4 DEF NoPass
  <2>2. QED BY <1>3, <1>4, <2>1 DEF PassAt
<1>5. CASE /\ PassAt("queued")
           /\ pass' = [pass EXCEPT !.pc = "list", !.epoch = account.epoch]
           /\ UNCHANGED <<account, ledger, session, now, daemon, memory, pause>>
  <2>1. pass'.pc = "list"
    BY <1>0, <1>5 DEF PassType
  <2>2. QED BY <1>3, <1>5, <2>1 DEF PassAt
<1>6. CASE /\ PassAt("list")
           /\ pass' = [pass EXCEPT !.pc = "courses", !.todo = Courses, !.shown = {}]
           /\ UNCHANGED <<account, ledger, now, daemon, memory, pause>>
  <2>1. pass'.pc = "courses" /\ pass'.todo = Courses
    BY <1>0, <1>6 DEF PassType
  <2>2. QED BY <1>3, <1>6, <2>1 DEF PassAt
<1>7. CASE /\ PassAt("courses") /\ pass.todo = {} /\ EndPass
           /\ UNCHANGED <<account, ledger, session, now, memory, pause>>
  <2>1. pass'.pc = "idle" /\ daemon'.wake = now + Interval
    BY <1>0, <1>7 DEF EndPass, PassOver, NoPass, DaemonType
  <2>2. now <= daemon.wake + Half
    BY <1>7 DEF InTime, PassAt
  <2>3. \A c \in Courses : Planned(c) /\ Looked(c)
    BY <1>7, <1>i DEF LookedAt, PassAt
  <2>4. \A c \in Courses : now + Interval + Half < Lesson[c].starts
    BY <1>0, <2>2, <2>3
  <2>5. now <= now + Interval + 0
    BY <1>0
  <2>6. QED BY <1>7, <2>1, <2>3, <2>4, <2>5 DEF InTime, PassAt, LookedAt
<1>8. ASSUME NEW c \in pass.todo, PassAt("courses"), UNCHANGED <<now, daemon>>,
             pass' = [pass EXCEPT !.todo = @ \ {c}],
             Looked(c), Planned(c)',
             \A d \in Courses \ {c} : memory'.planned[d] = memory.planned[d]
      PROVE  InTime'
  <2>1. pass'.pc = "courses" /\ pass'.todo = pass.todo \ {c}
    BY <1>0, <1>8 DEF PassType, PassAt
  <2>2. now <= daemon.wake + Half /\ daemon.wake <= now
    BY <1>8 DEF InTime, PassAt
  <2>3. \A d \in Courses : d # c => LookedAt(d)' = LookedAt(d)
    BY <1>8, <2>1 DEF LookedAt, PassAt
  <2>4. ~PassAt("signing")
    BY <1>8 DEF PassAt
  <2>5. LookedAt(c)'
    BY <2>1 DEF LookedAt, PassAt
  <2>6. ASSUME NEW d \in Courses
        PROVE  Planned(d)' /\ (IF LookedAt(d)' THEN Looked(d) ELSE Ahead(d))
    <3>1. CASE d = c
      BY <1>8, <2>5, <3>1
    <3>2. CASE d # c
      BY <1>8, <1>i, <2>3, <2>4, <3>2
    <3>3. QED BY <3>1, <3>2
  <2>7. QED BY <1>8, <2>1, <2>2, <2>6 DEF InTime, PassAt
<1>9. ASSUME NEW c \in pass.todo, PassAt("courses"), now < Lesson[c].opens,
             pass' = [pass EXCEPT !.todo = @ \ {c}],
             UNCHANGED <<account, ledger, session, now, daemon, memory, pause>>
      PROVE  InTime'
  <2>1. c \in Courses /\ ~PassAt("signing") /\ daemon.wake <= now
    BY <1>0, <1>9 DEF PassAt, InTime
  <2>2. Looked(c)
    BY <1>0, <1>9, <2>1 DEF Timely
  <2>3. Planned(c)'
    BY <1>9, <1>i, <2>1
  <2>4. QED BY <1>8, <1>9, <2>2, <2>3
<1>10. ASSUME NEW c \in pass.todo, NEW target \in Targets(c), PassAt("courses"),
              memory' = [memory EXCEPT !.planned[c] = target, !.retry[c] = memory.retry[c]],
              now < target, pass' = [pass EXCEPT !.todo = @ \ {c}],
              UNCHANGED <<account, ledger, session, now, daemon, pause>>
       PROVE  InTime'
  <2>0. c \in Courses /\ daemon.wake <= now
    BY <1>0, <1>10 DEF PassAt, InTime
  <2>1. target \in Nat /\ target + Interval + Margin <= Lesson[c].starts
    BY <1>10, TargetInTime
  <2>2. Looked(c)
    BY <1>0, <1>10, <2>0, <2>1
  <2>3. memory'.planned = [memory.planned EXCEPT ![c] = target]
    BY <1>0, <1>10 DEF MemoryType
  <2>4. Planned(c)' /\ \A d \in Courses \ {c} : memory'.planned[d] = memory.planned[d]
    BY <1>0, <2>0, <2>1, <2>3
  <2>5. QED BY <1>8, <1>10, <2>2, <2>4
<1>11. ASSUME NEW c \in pass.todo, PassAt("courses"), UNCHANGED <<now, daemon>>,
              pass' = [pass EXCEPT !.pc = "signing", !.todo = @ \ {c}, !.course = c,
                                   !.others = 0]
       PROVE  InTime'
  <2>1. pass'.pc = "signing"
    BY <1>0, <1>11 DEF PassType
  <2>2. QED BY <1>11, <2>1 DEF InTime, PassAt
<1>12. QED
  BY <1>1, <1>2, <1>4, <1>5, <1>6, <1>7, <1>9, <1>10, <1>11, QuietSteps

(***************************************************************************)
(* The random first target (_check_course) never makes the daemon miss the *)
(* start of the lesson on a quiet day: for every interval shorter than the *)
(* window before the lesson by the margin, and a lesson of any length.     *)
(***************************************************************************)
THEOREM FirstAttemptInTime ==
  ASSUME OneLesson, Timely
  PROVE  QuietSpec => []FirstAttemptBeforeStart
<1>1. QuietInit => Undisturbed /\ InTime
  <2> SUFFICES ASSUME QuietInit PROVE Undisturbed /\ InTime
    OBVIOUS
  <2>1. PICK k \in Clients : account = NewAccount(k)
    BY DEF QuietInit, SystemInit, AccountInit
  <2>2. /\ pass = NoPass /\ memory = NoMemory /\ now = 0 /\ daemon.enabled /\ daemon.wake = 0
        /\ ledger = [c \in Courses |-> NoRow] /\ \A j \in Clients : session[j]
        /\ pause = [c \in Courses |-> [saved |-> FALSE, failsafe |-> FALSE]]
    BY DEF QuietInit, SystemInit, Init
  <2>3. Undisturbed
    BY <2>1, <2>2 DEF Undisturbed, RequestGuard, NewAccount, NoPass, NoMemory, PassAt
  <2>4. \A c \in Courses : 0 + Half < Lesson[c].starts
    <3>1. \A c \in Courses : Lesson[c].opens \in Nat /\ Lesson[c].starts \in Nat
      BY SigninAssumption
    <3>2. QED BY <3>1, QuietNumbers DEF Timely
  <2>5. \A c \in Courses : memory.planned[c] = NoTarget
    BY <2>2 DEF NoMemory
  <2>6. QED BY <2>2, <2>3, <2>4, <2>5 DEF InTime, NoPass, PassAt, LookedAt
<1>2. SysInv /\ SInv /\ Undisturbed /\ InTime /\ [QuietNext]_allVars => Undisturbed' /\ InTime'
  BY QuietUndisturbed, QuietInTime
<1>3. SysInv /\ SInv /\ Undisturbed /\ InTime => FirstAttemptBeforeStart
  <2> SUFFICES ASSUME SysInv, Undisturbed, InTime, NEW c \in Courses, now >= Lesson[c].starts
               PROVE  pass.course = c
    BY DEF FirstAttemptBeforeStart
  <2>0. /\ now \in Nat /\ daemon.wake \in Nat /\ Lesson[c].starts \in Nat
        /\ pass \in PassType
    BY QuietTypes
  <2>n. Half \in Nat /\ Half + Half <= Margin /\ Interval \in Nat /\ Margin \in Nat
    BY QuietNumbers
  <2>1. PassAt("signing")
    <3> SUFFICES ASSUME ~PassAt("signing") PROVE FALSE
      OBVIOUS
    <3>1. now <= daemon.wake + Half
      BY <2>0, <2>n DEF InTime
    <3>2. IF LookedAt(c) THEN daemon.wake + Interval + Margin < Lesson[c].starts
          ELSE daemon.wake + Half < Lesson[c].starts
      BY DEF InTime
    <3>3. QED BY <2>0, <2>n, <3>1, <3>2
  <2>2. pass.course \in Courses
    BY <2>0, <2>1 DEF Undisturbed, PassType
  <2>3. QED BY <2>2 DEF OneLesson
<1>4. QED BY <1>1, <1>2, <1>3, LivesAreSystem, SystemInvariance, PTL DEF QuietSpec
=============================================================================
