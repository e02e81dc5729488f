-------------------------- MODULE AccountRegistry --------------------------
(***************************************************************************)
(* The accounts of server/app.py for one student: the object listed under  *)
(* the student's name, its switches, the configuration file, and the       *)
(* requests that change them while the Boya daemon works:                  *)
(*                                                                         *)
(*   login    auth -> block -> sign -> sso -> sync -> (save -> write)      *)
(*   connect  the same, without a new object                               *)
(*   remove   hooks -> auth -> close -> sign -> save -> write              *)
(*   boya     lock -> write -> decide                                      *)
(*   regular  write                                                        *)
(*                                                                         *)
(* Requests are coroutines of one event loop; "sync", "close", "lock" and  *)
(* the boya "write" run in threads.  A coroutine that waits for an         *)
(* account's lock ("block") or saves ("write") holds up the whole loop.    *)
(* Saving takes a snapshot of the accounts, then replaces the file.        *)
(***************************************************************************)
EXTENDS BoyaDaemon, FiniteSets

CONSTANTS
  Pages,      \* requests that can be under way
  Kinds,      \* what they ask for
  Orders,     \* Orders[k]: the settings requests of kind k may carry
  Files,      \* the files the program can start from
  Requests, Faults  \* bounds: requests, and failed saves or restarts

ASSUME RegistryAssumption ==
  /\ IsFiniteSet(Objects) /\ Objects = 1..Cardinality(Objects) /\ Objects # {}
  /\ None \notin Objects /\ Nobody \notin Pages \cup {Worker} /\ Worker \notin Pages
  /\ Kinds \subseteq {"login", "connect", "remove", "boya", "regular"}
  /\ Orders \in [Kinds -> SUBSET [Switches -> {"on", "off", "keep"}]]
  \* the Boya page changes the Boya switches, the others the one of the sign-in
  /\ \A k \in Kinds : \A order \in Orders[k] : \A s \in Switches :
       order[s] # "keep" => (s = "regular" <=> k # "boya")
  /\ Files \subseteq [Switches -> BOOLEAN]
  /\ Requests \in Nat /\ Faults \in Nat

VARIABLES
  authLock,  \* authLock[o]: the request that holds account.auth_lock
  page,      \* page[p]: where a request is, and its locals
  file,      \* the switches saved for the student, or None
  made,      \* objects made since the start
  refused,   \* the last start of the daemon was refused, and answered so
  said,      \* history: switches whose last answered request was a saved stop
  budget     \* [requests, faults] left

registryVars == <<authLock, page, file, made, refused, said, budget>>
vars == <<daemonVars, registryVars>>

Off == [s \in Switches |-> FALSE]
Keep == [s \in Switches |-> "keep"]
IdlePage == [pc |-> "idle", kind |-> "login", of |-> 1, acc |-> 1, order |-> Keep,
             prev |-> Off, image |-> None]

TypeOK ==
  /\ DaemonTypeOK
  /\ lock \in [Objects -> Pages \cup {Worker, Nobody}]
  /\ authLock \in [Objects -> Pages \cup {Nobody}] /\ loop \in Pages \cup {Nobody}
  /\ page \in [Pages ->
       [pc : {"idle", "auth", "block", "sign", "sso", "sync", "save", "write",
              "hooks", "close", "lock", "decide"},
        kind : {"login"} \cup Kinds, of : Objects, acc : Objects,
        order : [Switches -> {"on", "off", "keep"}], prev : [Switches -> BOOLEAN],
        image : [Switches -> BOOLEAN] \cup {None}]]
  /\ file \in [Switches -> BOOLEAN] \cup {None}
  /\ made \in Objects /\ refused \in BOOLEAN /\ said \subseteq Switches
  /\ budget \in [requests : 0..Requests, faults : 0..Faults]

\* on_startup(): the saved account, and the daemon if a switch of it asks.
Init ==
  /\ DaemonInit
  /\ file \in Files
  /\ listed = 1 /\ made = 1
  /\ account = [o \in Objects |-> NewAccount(IF o = 1 THEN file ELSE Off)]
  /\ daemon = IF file["select"] \/ file["sign"] THEN Started
              ELSE [running |-> FALSE, alive |-> FALSE, event |-> FALSE]
  /\ authLock = [o \in Objects |-> Nobody]
  /\ page = [p \in Pages |-> IdlePage]
  /\ refused = FALSE /\ said = {}
  /\ budget = [requests |-> Requests, faults |-> Faults]
-----------------------------------------------------------------------------
Place(p) == page[p].pc
Kind(p) == page[p].kind
Of(p) == page[p].of
Acc(p) == page[p].acc
Order(p) == page[p].order
Move(p, place) == page' = [page EXCEPT ![p].pc = place]
LoopFree == loop = Nobody

\* The settings of a request laid over switches; their undoing.
Applied(order, on) == [s \in Switches |-> IF order[s] = "keep" THEN on[s] ELSE order[s] = "on"]

\* Faulty variant: whatever was changed is put back.
RestoredAll(order, prev, on) == [s \in Switches |-> IF order[s] = "keep" THEN on[s] ELSE prev[s]]

\* restore(): a switch the request turned off stays off.
Restored(order, prev, on) ==
  [s \in Switches |-> IF order[s] \in {"off", "keep"} THEN on[s] ELSE prev[s]]

Stops(order) == {s \in Switches : order[s] = "off"}
Named(order) == {s \in Switches : order[s] # "keep"}

\* The stops of request p that no other request has come between.
Told(p) ==
  {s \in Stops(Order(p)) : /\ listed = Of(p) /\ ~account[Of(p)].on[s]
                           /\ \A q \in Pages \ {p} : Order(q)[s] = "keep"}

\* The accounts as sync_config() would write them.
Snapshot == IF listed = None THEN None ELSE account[listed].on

Request(p, kind) ==
  /\ LoopFree /\ Place(p) = "idle" /\ kind \in Kinds /\ budget.requests > 0
  /\ budget' = [budget EXCEPT !.requests = @ - 1]

\* A request ends; what it held is released.
Answer(p) ==
  /\ page' = [page EXCEPT ![p] = IdlePage]
  /\ authLock' = [o \in Objects |-> IF authLock[o] = p THEN Nobody ELSE authLock[o]]

\* The finally block of login and connect: maintenance ends with the request.
AnswerLogin(p, input) ==
  /\ Answer(p)
  /\ account' = [account EXCEPT ![Of(p)].maintenance = FALSE,
                                ![Of(p)].input = @ \/ input]
-----------------------------------------------------------------------------
(* login and connect_single_account. *)

NewObject(on) ==
  /\ made < Cardinality(Objects)
  /\ made' = made + 1 /\ listed' = made + 1
  /\ account' = [account EXCEPT ![made + 1] = NewAccount(on)]

LoginStarts(p) ==
  /\ Request(p, "login")
  /\ \E order \in Orders["login"] :
       /\ page' = [page EXCEPT ![p] = [IdlePage EXCEPT !.pc = "auth", !.kind = "login",
            !.of = IF listed = None THEN made + 1 ELSE listed, !.order = order]]
       /\ said' = said \ Named(order)
  /\ IF listed = None THEN NewObject(Off) ELSE UNCHANGED <<account, listed, made>>
  /\ UNCHANGED <<lock, loop, daemon, check, incident, age, calm, authLock, file, refused>>

ConnectStarts(p) ==
  /\ Request(p, "connect") /\ listed # None /\ ~account[listed].input
  /\ page' = [page EXCEPT ![p] = [IdlePage EXCEPT !.pc = "auth", !.kind = "connect",
                                                  !.of = listed, !.acc = listed]]
  /\ UNCHANGED <<daemonVars, authLock, file, made, refused, said>>

\* The auth_lock is taken, and the event loop waits for the account's lock.
Authenticates(p) ==
  /\ LoopFree /\ Place(p) = "auth" /\ Kind(p) \in {"login", "connect"}
  /\ authLock[Of(p)] = Nobody
  /\ IF account[Of(p)].removed \/ (Kind(p) = "connect" /\ account[Of(p)].input)
     THEN Answer(p) /\ UNCHANGED <<account, loop>>
     ELSE /\ authLock' = [authLock EXCEPT ![Of(p)] = p]
          /\ account' = [account EXCEPT ![Of(p)].maintenance = TRUE,
                           ![Of(p)].input = @ /\ Kind(p) = "connect"]
          /\ loop' = p /\ Move(p, "block")
  /\ UNCHANGED <<listed, lock, daemon, check, incident, age, calm>>
  /\ UNCHANGED <<file, made, refused, said, budget>>

Blocks(p) ==
  /\ Place(p) = "block" /\ lock[Of(p)] = Nobody
  /\ account' = [account EXCEPT ![Of(p)].token = FALSE]
  /\ loop' = Nobody /\ Move(p, "sign")
  /\ UNCHANGED <<listed, lock, daemon, check, incident, age, calm, authLock>>
  /\ UNCHANGED <<file, made, refused, said, budget>>

\* _login_locked() looks the name up again; the name may be gone by now.
LoginLocked(p) ==
  /\ LoopFree /\ Place(p) = "sign" /\ Kind(p) = "login"
  /\ IF listed = None
     THEN NewObject([Off EXCEPT !["regular"] = Order(p)["regular"] = "on"])
     ELSE /\ account' = [account EXCEPT ![listed].on = Applied(Order(p), @)]
          /\ UNCHANGED <<listed, made>>
  /\ page' = [page EXCEPT ![p].pc = "sso",
                          ![p].acc = IF listed = None THEN made + 1 ELSE listed]
  /\ UNCHANGED <<lock, loop, daemon, check, incident, age, calm, authLock, file>>
  /\ UNCHANGED <<refused, said, budget>>

ConnectLocked(p) ==
  /\ LoopFree /\ Place(p) = "sign" /\ Kind(p) = "connect" /\ Move(p, "sso")
  /\ UNCHANGED <<daemonVars, authLock, file, made, refused, said, budget>>

\* The school's login page answers.  A login that fails asks for the student.
SsoReplies(p) ==
  /\ LoopFree /\ Place(p) = "sso"
  /\ \/ Move(p, "sync") /\ UNCHANGED <<account, authLock>>
     \/ \E input \in BOOLEAN : AnswerLogin(p, input \/ Kind(p) = "login")
  /\ UNCHANGED <<listed, lock, loop, daemon, check, incident, age, calm>>
  /\ UNCHANGED <<file, made, refused, said, budget>>

\* sync_boya_login() in its thread, then the class sign-in system.
BoyaSynced(p) ==
  /\ Place(p) = "sync" /\ lock[Acc(p)] = Nobody
  /\ \E ready \in BOOLEAN :
       account' = [account EXCEPT ![Acc(p)].token =
                     IF account[Acc(p)].removed THEN @ ELSE ready]
  /\ Move(p, "save")
  /\ UNCHANGED <<listed, lock, loop, daemon, check, incident, age, calm, authLock>>
  /\ UNCHANGED <<file, made, refused, said, budget>>

RemovedMeanwhile(p) ==
  /\ LoopFree /\ Place(p) = "save" /\ Kind(p) # "remove"
  /\ account[Acc(p)].removed /\ AnswerLogin(p, FALSE)
  /\ UNCHANGED <<listed, lock, loop, daemon, check, incident, age, calm>>
  /\ UNCHANGED <<file, made, refused, said, budget>>

SaveBegins(p) ==
  /\ LoopFree /\ Place(p) = "save"
  /\ Kind(p) = "remove" \/ ~account[Acc(p)].removed
  /\ loop' = p
  /\ page' = [page EXCEPT ![p].pc = "write", ![p].image = Snapshot, ![p].order = Keep]
  /\ UNCHANGED <<account, listed, lock, daemon, check, incident, age, calm>>
  /\ UNCHANGED <<authLock, file, made, refused, said, budget>>

\* The file is replaced, or not: sync_config() of login, connect and remove.
Saved(p) ==
  /\ Place(p) = "write" /\ Kind(p) \in {"login", "connect", "remove"}
  /\ \/ file' = page[p].image /\ UNCHANGED budget
     \/ /\ budget.faults > 0 /\ budget' = [budget EXCEPT !.faults = @ - 1]
        /\ UNCHANGED file
  /\ loop' = Nobody
  /\ IF Kind(p) = "remove" THEN Answer(p) /\ UNCHANGED account ELSE AnswerLogin(p, FALSE)
  /\ UNCHANGED <<listed, lock, daemon, check, incident, age, calm, made, refused, said>>
-----------------------------------------------------------------------------
(* remove_account, logout, and dispose_account. *)

RemoveStarts(p) ==
  /\ Request(p, "remove") /\ listed # None
  /\ page' = [page EXCEPT ![p] = [IdlePage EXCEPT !.pc = "hooks", !.kind = "remove",
                                                  !.of = listed, !.acc = listed]]
  /\ account' = [account EXCEPT ![listed].removed = TRUE]
  /\ listed' = None /\ said' = {}
  /\ UNCHANGED <<lock, loop, daemon, check, incident, age, calm>>
  /\ UNCHANGED <<authLock, file, made, refused>>

HooksDone(p) ==
  /\ LoopFree /\ Place(p) = "hooks"
  /\ account' = [account EXCEPT ![Of(p)].on = Off]
  /\ Forget /\ Move(p, "auth")
  /\ UNCHANGED <<listed, lock, loop, daemon, check, authLock, file, made, refused, said, budget>>

DisposeLocks(p) ==
  /\ LoopFree /\ Place(p) = "auth" /\ Kind(p) = "remove" /\ authLock[Of(p)] = Nobody
  /\ authLock' = [authLock EXCEPT ![Of(p)] = p]
  /\ Move(p, "close")
  /\ UNCHANGED <<daemonVars, file, made, refused, said, budget>>

\* Faulty variant: the client is closed under the worker's hands.
CloseBoyaUnlocked(p) ==
  /\ Place(p) = "close"
  /\ account' = [account EXCEPT ![Of(p)].token = FALSE]
  /\ Move(p, "sign")
  /\ UNCHANGED <<listed, lock, loop, daemon, check, incident, age, calm, authLock>>
  /\ UNCHANGED <<file, made, refused, said, budget>>

\* close_boya() in its thread waits for a check or an action to leave the lock.
CloseBoya(p) ==
  /\ Place(p) = "close" /\ lock[Of(p)] = Nobody
  /\ account' = [account EXCEPT ![Of(p)].token = FALSE]
  /\ Move(p, "sign")
  /\ UNCHANGED <<listed, lock, loop, daemon, check, incident, age, calm, authLock>>
  /\ UNCHANGED <<file, made, refused, said, budget>>

Disposed(p) ==
  /\ LoopFree /\ Place(p) = "sign" /\ Kind(p) = "remove"
  /\ account' = [account EXCEPT ![Of(p)].gone = TRUE]
  /\ authLock' = [authLock EXCEPT ![Of(p)] = Nobody]
  /\ Move(p, "save")
  /\ UNCHANGED <<listed, lock, loop, daemon, check, incident, age, calm>>
  /\ UNCHANGED <<file, made, refused, said, budget>>
-----------------------------------------------------------------------------
(* The switches. *)

BoyaStarts(p) ==
  /\ Request(p, "boya") /\ listed # None
  /\ \E order \in Orders["boya"] :
       /\ page' = [page EXCEPT ![p] = [IdlePage EXCEPT !.pc = "lock", !.kind = "boya",
                     !.of = listed, !.acc = listed, !.order = order]]
       /\ said' = said \ Named(order)
  /\ UNCHANGED <<daemonVars, authLock, file, made, refused>>

\* Faulty variant: the preferences are changed while an action is under way.
UpdatesUnlocked(p) ==
  /\ Place(p) = "lock"
  /\ IF account[Of(p)].removed THEN Answer(p) /\ UNCHANGED account
     ELSE LET on == Applied(Order(p), account[Of(p)].on) IN
          /\ account' = [account EXCEPT ![Of(p)].on = on]
          /\ page' = [page EXCEPT ![p].pc = "write", ![p].prev = account[Of(p)].on,
                        ![p].image = IF listed = Of(p) THEN on ELSE Snapshot]
          /\ UNCHANGED authLock
  /\ UNCHANGED <<listed, lock, loop, daemon, check, incident, age, calm>>
  /\ UNCHANGED <<file, made, refused, said, budget>>

\* update_preferences() in its thread: the lock is held until the file is saved.
Updates(p) ==
  /\ Place(p) = "lock" /\ lock[Of(p)] = Nobody
  /\ IF account[Of(p)].removed THEN Answer(p) /\ UNCHANGED <<account, lock>>
     ELSE LET on == Applied(Order(p), account[Of(p)].on) IN
          /\ account' = [account EXCEPT ![Of(p)].on = on]
          /\ lock' = [lock EXCEPT ![Of(p)] = p]
          /\ page' = [page EXCEPT ![p].pc = "write", ![p].prev = account[Of(p)].on,
                        ![p].image = IF listed = Of(p) THEN on ELSE Snapshot]
          /\ UNCHANGED authLock
  /\ UNCHANGED <<listed, loop, daemon, check, incident, age, calm>>
  /\ UNCHANGED <<file, made, refused, said, budget>>

BoyaSaved(p) ==
  /\ Place(p) = "write" /\ Kind(p) = "boya" /\ lock' = [lock EXCEPT ![Of(p)] = Nobody]
  /\ \/ /\ file' = page[p].image
        /\ page' = [page EXCEPT ![p].pc = "decide", ![p].prev = Off, ![p].image = None]
        /\ UNCHANGED <<account, authLock, budget>>
     \/ /\ budget.faults > 0 /\ budget' = [budget EXCEPT !.faults = @ - 1]
        /\ account' = [account EXCEPT ![Of(p)].on =
                         Restored(Order(p), page[p].prev, account[Of(p)].on)]
        \* answered with a failure, unless something was to stop
        /\ IF Stops(Order(p)) = {} THEN Answer(p)
           ELSE /\ page' = [page EXCEPT ![p].pc = "decide", ![p].order = Keep,
                                          ![p].prev = Off, ![p].image = None]
                /\ UNCHANGED authLock
        /\ UNCHANGED file
  /\ UNCHANGED <<listed, loop, daemon, check, incident, age, calm, made, refused, said>>

\* Does an account that is listed want the daemon?
AnyBoya == listed # None /\ (account[listed].on["select"] \/ account[listed].on["sign"])

\* Faulty variant: the daemon stops with the wish of the last request.
DecidesOnOrder(p) ==
  /\ LoopFree /\ Place(p) = "decide"
  /\ LET wanted == "on" \in {Order(p)["select"], Order(p)["sign"]} IN
     /\ daemon' = IF wanted /\ ~daemon.running /\ CanStart THEN Started
                  ELSE IF ~wanted /\ daemon.running THEN Stopped ELSE daemon
     /\ refused' = (wanted /\ ~daemon.running /\ ~CanStart)
  /\ said' = said \cup Told(p)
  /\ Answer(p)
  /\ UNCHANGED <<account, listed, lock, loop, check, incident, age, calm>>
  /\ UNCHANGED <<file, made, budget>>

\* The daemon follows the switches; a start may be refused.
Decides(p) ==
  /\ LoopFree /\ Place(p) = "decide"
  /\ daemon' = IF AnyBoya /\ ~daemon.running /\ CanStart THEN Started
               ELSE IF ~AnyBoya /\ daemon.running THEN Stopped ELSE daemon
  /\ refused' = (AnyBoya /\ ~daemon.running /\ ~CanStart)
  /\ said' = said \cup Told(p)
  /\ Answer(p)
  /\ UNCHANGED <<account, listed, lock, loop, check, incident, age, calm>>
  /\ UNCHANGED <<file, made, budget>>

\* toggle_account_auto_checkin(), the regular switch; all in the loop.
RegularStarts(p) ==
  /\ Request(p, "regular") /\ listed # None
  /\ \E order \in Orders["regular"] :
       LET on == Applied(order, account[listed].on) IN
       /\ account' = [account EXCEPT ![listed].on = on]
       /\ page' = [page EXCEPT ![p] = [IdlePage EXCEPT !.pc = "write", !.kind = "regular",
                     !.of = listed, !.acc = listed, !.order = order,
                     !.prev = account[listed].on, !.image = on]]
       /\ said' = said \ Named(order)
  /\ loop' = p
  /\ UNCHANGED <<listed, lock, daemon, check, incident, age, calm>>
  /\ UNCHANGED <<authLock, file, made, refused>>

RegularSaved(p) ==
  /\ Place(p) = "write" /\ Kind(p) = "regular" /\ loop' = Nobody
  /\ \/ /\ file' = page[p].image /\ said' = said \cup Told(p)
        /\ UNCHANGED <<account, budget>>
     \/ /\ budget.faults > 0 /\ budget' = [budget EXCEPT !.faults = @ - 1]
        /\ account' = [account EXCEPT ![Of(p)].on =
                         Restored(Order(p), page[p].prev, account[Of(p)].on)]
        /\ UNCHANGED <<file, said>>
  /\ Answer(p)
  /\ UNCHANGED <<listed, lock, daemon, check, incident, age, calm, made, refused>>

\* The process ends and starts again from the file.
Restart ==
  /\ budget.faults > 0 /\ budget' = [budget EXCEPT !.faults = @ - 1]
  /\ listed' = IF file = None THEN None ELSE 1
  /\ made' = 1
  /\ account' = [o \in Objects |-> NewAccount(IF o = 1 /\ file # None THEN file ELSE Off)]
  /\ lock' = [o \in Objects |-> Nobody] /\ authLock' = lock'
  /\ loop' = Nobody
  /\ daemon' = IF file # None /\ (file["select"] \/ file["sign"]) THEN Started
               ELSE [running |-> FALSE, alive |-> FALSE, event |-> FALSE]
  /\ check' = NoCheck /\ Forget
  /\ page' = [p \in Pages |-> IdlePage]
  /\ refused' = FALSE /\ said' = {}
  /\ UNCHANGED file

PageStarts(p) ==
  \/ LoginStarts(p) \/ ConnectStarts(p) \/ RemoveStarts(p)
  \/ BoyaStarts(p) \/ RegularStarts(p)

PageSteps(p) ==
  \/ Authenticates(p) \/ Blocks(p) \/ LoginLocked(p) \/ ConnectLocked(p)
  \/ SsoReplies(p) \/ BoyaSynced(p) \/ RemovedMeanwhile(p) \/ SaveBegins(p) \/ Saved(p)
  \/ HooksDone(p) \/ DisposeLocks(p) \/ CloseBoya(p) \/ Disposed(p)
  \/ Updates(p) \/ BoyaSaved(p) \/ Decides(p) \/ RegularSaved(p)

Next ==
  \/ DaemonNext /\ UNCHANGED registryVars
  \/ \E p \in Pages : PageStarts(p) \/ PageSteps(p)
  \/ Restart

Spec == Init /\ [][Next]_vars

\* Requests to the school, waits with a timeout and writes end; a lock that
\* is free again and again is obtained.
LiveSpec ==
  /\ Spec
  /\ WF_vars(WorkerSteps /\ UNCHANGED registryVars)
  /\ \A p \in Pages : SF_vars(PageSteps(p))
-----------------------------------------------------------------------------
(* Properties. *)

\* When the removal of an account has been carried out (dispose_account,
\* server/app.py:318) nothing is sent to the school in its name any more: no
\* worker still reads, renews or posts for the object.
RemovedIsSilent ==
  check.pc \in {"renew", "read", "preflight", "ordinary", "posted"} =>
    ~account[check.of].gone

\* When the page has been told that an automatic Boya switch is off and saved
\* (update_preferences, server/app.py:1396), no request of that kind is under
\* way for the account that is listed.
StopIsSilent ==
  check.pc = "posted" /\ check.of = listed => check.action \notin said

\* With no settings request under way, an account that wants the daemon has
\* it, unless the last answer said that it could not be started
\* (server/app.py:1421, core/boya_scheduler.py:265).
DaemonFollows ==
  AnyBoya /\ (\A p \in Pages : Kind(p) # "boya") => daemon.running \/ refused

\* An incident is closed only by two complete readings a minute apart that both
\* follow its last failure (_network_recovered, core/boya_scheduler.py:219).
RecoveryIsReal ==
  [][check.pc = "end" /\ incident.open /\ ~incident'.open /\ UNCHANGED registryVars =>
       calm = "old"]_vars

\* No switch of an account in use comes on unless a request under way asks for
\* it: taking back a change that could not be saved never takes back a stop
\* (persist_switch, server/app.py:417).
StopHolds ==
  [][~Restart => \A o \in Objects, s \in Switches :
       account'[o].on[s] /\ ~account[o].on[s] /\ ~account'[o].removed =>
         \E p \in Pages : Order(p)'[s] = "on"]_vars

\* Every request is answered, although the loop waits for a lock whose holder
\* waits for the loop (server/app.py:855, :624 and :382).
PagesAnswered == \A p \in Pages : Place(p) # "idle" ~> Place(p) = "idle"

\* A stop that was answered as saved is off in the file whenever no request is
\* under way (sync_config, server/app.py:390).
StopIsSaved ==
  (\A p \in Pages : Place(p) = "idle") /\ file # None => \A s \in said : ~file[s]
=============================================================================
