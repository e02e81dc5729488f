--------------------------- MODULE SigninAccount ---------------------------
(***************************************************************************)
(* The account around perform_signin, from server/app.py: the manual       *)
(* sign-in button, and the handlers that take a client away from it:       *)
(* connect_single_account and login (re-authentication), switch_mode and   *)
(* dispose_account.  Each of these waits for the account's auth_lock and   *)
(* then for the sign-in lock of its client:                                *)
(*                                                                         *)
(*   (leaving ->) auth -> sign -> work -> idle                             *)
(*                                                                         *)
(* A client object is never reused: switch_mode, and a connection that     *)
(* falls back to the WebVPN, replace it by a fresh one.                    *)
(***************************************************************************)
EXTENDS IclassSignin

CONSTANTS
  Buttons,   \* callers started by POST /api/signin
  Admins,    \* the handlers; they hold sign-in locks, so they are Callers
  Kinds,     \* what handlers do in the instance, out of the four below
  MaxEpoch   \* bound on account.auth_epoch

ASSUME AccountAssumption ==
  /\ Buttons \subseteq Callers /\ Admins \subseteq Callers \ Buttons
  /\ Kinds \subseteq {"connect", "login", "switch", "dispose"} /\ MaxEpoch \in Nat

VARIABLES
  account,   \* the AccountState: flags, auth_epoch, current client
  authLock,  \* who holds account.auth_lock
  admin,     \* admin[a]: where handler a is, what it does, whose lock it holds
  born,      \* born[x]: auth_epoch when x's call began
  revoked    \* history: calls in flight whose authority was withdrawn

accountVars == <<account, authLock, admin, born, revoked>>

IdleAdmin(k) == [pc |-> "idle", kind |-> "connect", client |-> k]

AccountTypeOK ==
  /\ account \in [removed : BOOLEAN, maintenance : BOOLEAN, auto : BOOLEAN,
                  epoch : Nat, client : Clients, spare : SUBSET Clients]
  /\ authLock \in Admins \cup {Nobody}
  /\ admin \in [Admins -> [pc : {"idle", "leaving", "auth", "sign", "work"},
                           kind : {"connect"} \cup Kinds, client : Clients]]
  /\ born \in [Callers -> Nat]
  /\ revoked \subseteq Callers

NewAccount(k) ==
  [removed |-> FALSE, maintenance |-> FALSE, auto |-> TRUE, epoch |-> 0,
   client |-> k, spare |-> Clients \ {k}]

AccountInit ==
  /\ \E k \in Clients : /\ account = NewAccount(k)
                       /\ admin = [a \in Admins |-> IdleAdmin(k)]
  /\ authLock = Nobody
  /\ born = [x \in Callers |-> 0]
  /\ revoked = {}
-----------------------------------------------------------------------------
(* The manual button. *)

RequestGuard == ~account.removed /\ ~account.maintenance

\* Faulty variant: only the client is compared.
ButtonGuardAnyEpoch(x) == RequestGuard /\ account.client = Client(x)

ButtonGuard(x) ==
  RequestGuard /\ account.client = Client(x) /\ account.epoch = born[x]

Press(x, c) ==
  /\ ~account.removed /\ account.client = Client(x)
  /\ Call(x, c)
  /\ born' = [born EXCEPT ![x] = account.epoch]
  /\ UNCHANGED <<account, authLock, admin, revoked>>

\* The coroutine of a button; handlers are not cancelled.
ButtonSteps(x) ==
  /\ \/ Enter(x, ButtonGuard(x)) \/ Recheck(x, ButtonGuard(x))
     \/ LoginDone(x) \/ ListDone(x)
     \/ \E t \in 0 .. Horizon : TimeDone(x, ButtonGuard(x), t)
     \/ ConnectFails(x) \/ Response(x)
     \/ ReadFails(x, "error") \/ ResponseLost(x, "error")
  /\ UNCHANGED accountVars

ButtonReturns(x) ==
  /\ Return(x)
  /\ revoked' = revoked \ {x}
  /\ UNCHANGED <<account, authLock, admin, born>>
-----------------------------------------------------------------------------
(* The handlers.  Each action leaves the variables of the ledger alone. *)

\* The bound: every handler under way still adds one.
EpochRoom ==
  account.epoch + Cardinality({a \in Admins : admin[a].pc \in {"leaving", "auth"}})
    < MaxEpoch

InFlight == {x \in Callers : call[x].pc \notin {"idle", "returned"}}
AdminAt(a, place) == admin[a].pc = place
AdminGoto(a, place) == admin' = [admin EXCEPT ![a].pc = place]

WriteVars == <<ledger, signed, call, stray, now, history>>

\* connect and switch answer at once for a removed account; removal marks the
\* account before its first await.
Begin(a, kind) ==
  /\ LoopFree /\ AdminAt(a, "idle") /\ ~account.removed /\ EpochRoom
  /\ admin' = [admin EXCEPT ![a] =
       [pc |-> IF kind = "dispose" THEN "leaving" ELSE "auth",
        kind |-> kind, client |-> account.client]]
  /\ IF kind = "dispose"
     THEN account' = [account EXCEPT !.removed = TRUE] /\ revoked' = revoked \cup InFlight
     ELSE UNCHANGED <<account, revoked>>
  /\ UNCHANGED <<WriteVars, lock, session, authLock, born>>

\* dispose_account after its notification and TD clean-up.
Withdraw(a) ==
  /\ LoopFree /\ AdminAt(a, "leaving")
  /\ AdminGoto(a, "auth")
  /\ account' = [account EXCEPT !.epoch = @ + 1, !.auto = FALSE]
  /\ revoked' = revoked \cup InFlight
  /\ UNCHANGED <<WriteVars, lock, session, authLock, born>>

\* auth_lock acquired.  A re-authentication gives up on a removed account, and a
\* connection in a cool-down or when a password has to be typed.
AuthLocked(a) ==
  /\ LoopFree /\ AdminAt(a, "auth") /\ authLock = Nobody
  /\ \/ /\ admin[a].kind = "connect" \/ (admin[a].kind = "login" /\ account.removed)
        /\ AdminGoto(a, "idle") /\ UNCHANGED <<account, authLock, revoked>>
     \/ /\ admin[a].kind \in {"connect", "login"} => ~account.removed
        /\ admin' = [admin EXCEPT ![a].pc = "sign", ![a].client = account.client]
        /\ authLock' = a
        /\ IF admin[a].kind = "dispose"
           THEN UNCHANGED <<account, revoked>>
           ELSE /\ account' = [account EXCEPT !.maintenance = TRUE, !.epoch = @ + 1]
                /\ revoked' = revoked \cup InFlight
  /\ UNCHANGED <<WriteVars, lock, session, born>>

\* Faulty variant: the client is taken away without its sign-in lock.
SignLockedAnyway(a) ==
  /\ LoopFree /\ AdminAt(a, "sign")
  /\ AdminGoto(a, "work")
  /\ UNCHANGED <<WriteVars, lock, session, account, authLock, born, revoked>>

SignLocked(a) ==
  /\ LoopFree /\ AdminAt(a, "sign") /\ lock[admin[a].client] = Nobody
  /\ AdminGoto(a, "work")
  /\ lock' = [lock EXCEPT ![admin[a].client] = a]
  /\ UNCHANGED <<WriteVars, session, account, authLock, born, revoked>>

\* Faulty variant: auth_lock is kept.
ReleaseSignOnly(a) ==
  /\ lock' = [k \in Clients |-> IF lock[k] = a THEN Nobody ELSE lock[k]]
  /\ AdminGoto(a, "idle")
  /\ UNCHANGED authLock

\* Both locks, and the maintenance flag with them, are given back.
Release(a) ==
  /\ lock' = [k \in Clients |-> IF lock[k] = a THEN Nobody ELSE lock[k]]
  /\ authLock' = IF authLock = a THEN Nobody ELSE authLock
  /\ AdminGoto(a, "idle")

\* The account keeps its client (k = the old one) or gets a fresh one; when
\* the instance has no spare name left, the old name stands for the fresh one.
Resumed(a, k, automatic) ==
  [account EXCEPT
     !.maintenance = IF admin[a].kind = "dispose" THEN @ ELSE FALSE,
     !.client = k, !.spare = @ \ {k}, !.auto = automatic]

WorkDone(a) ==
  LET old == admin[a].client
      fresh == IF account.spare = {} THEN {old} ELSE account.spare
  IN
  /\ LoopFree /\ AdminAt(a, "work")
  /\ \/ /\ admin[a].kind \in {"connect", "login"}
        /\ \E k \in account.spare \cup {old}, held, automatic \in BOOLEAN :
             /\ admin[a].kind = "connect" => automatic = account.auto
             /\ account' = Resumed(a, k, automatic)
             /\ session' = [session EXCEPT ![old] = FALSE, ![k] = held]
     \/ /\ admin[a].kind = "switch"
        /\ \E k \in fresh : account' = Resumed(a, k, account.auto)
        /\ session' = [session EXCEPT ![old] = FALSE]
     \/ /\ admin[a].kind = "dispose"
        /\ session' = [session EXCEPT ![old] = FALSE]
        /\ UNCHANGED account
  /\ Release(a)
  /\ UNCHANGED <<WriteVars, born, revoked>>

\* A handler is cancelled at one of its awaits: its finally clauses run.
Abandoned(a) ==
  /\ ~AdminAt(a, "idle")
  /\ account' = IF authLock = a THEN [account EXCEPT !.maintenance = FALSE] ELSE account
  /\ Release(a)
  /\ UNCHANGED <<WriteVars, session, born, revoked>>

\* The student's switch; a caller's guard reads it anew each time.
SetAuto(on) ==
  /\ LoopFree /\ ~account.removed /\ account.auto # on
  /\ account' = [account EXCEPT !.auto = on]
  /\ UNCHANGED <<WriteVars, lock, session, authLock, admin, born, revoked>>

\* A new process builds the account from the configuration, which is written
\* after a removal or a switch took effect and may be older than it.
AccountCrash ==
  /\ Crash
  /\ \E gone \in {FALSE, account.removed}, on \in BOOLEAN :
       account' = [NewAccount(account.client) EXCEPT !.removed = gone, !.auto = on]
  /\ authLock' = Nobody
  /\ admin' = [a \in Admins |-> [admin[a] EXCEPT !.pc = "idle"]]
  /\ born' = [x \in Callers |-> 0]
  /\ revoked' = {}
=============================================================================
