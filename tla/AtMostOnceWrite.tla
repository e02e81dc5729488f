-------------------------- MODULE AtMostOnceWrite --------------------------
(***************************************************************************)
(* What the program promises about a write to a school system that has no  *)
(* idempotency of its own: for each operation at most Limit requests, each *)
(* under a permit of its own, at most one request per permit, no permit    *)
(* while the previous request is unresolved, none after the operation is   *)
(* known to have taken effect.  A permit whose outcome stays unknown is    *)
(* held for ever.                                                          *)
(***************************************************************************)
EXTENDS Integers

CONSTANTS
  Keys,   \* the operations, each about one object on one day
  Limit   \* requests allowed per operation, a natural number

VARIABLES
  permit,    \* permit[k]: free, held, or closed for good
  used,      \* used[k]: permits charged against the limit
  delivered  \* delivered[k]: requests that left

wvars == <<permit, used, delivered>>

WInit ==
  /\ permit = [k \in Keys |-> "free"]
  /\ used = [k \in Keys |-> 0]
  /\ delivered = [k \in Keys |-> 0]

Acquire(k) ==
  /\ permit[k] = "free" /\ used[k] < Limit
  /\ permit' = [permit EXCEPT ![k] = "held"]
  /\ used' = [used EXCEPT ![k] = @ + 1]
  /\ UNCHANGED delivered

Deliver(k) ==
  /\ permit[k] = "held" /\ delivered[k] < used[k]
  /\ delivered' = [delivered EXCEPT ![k] = @ + 1]
  /\ UNCHANGED <<permit, used>>

\* The permit is handed back unused.
Withdraw(k) ==
  /\ permit[k] = "held" /\ delivered[k] < used[k]
  /\ permit' = [permit EXCEPT ![k] = "free"]
  /\ used' = [used EXCEPT ![k] = @ - 1]
  /\ UNCHANGED delivered

\* A definite refusal: the attempt stays charged.
Refuse(k) ==
  /\ permit[k] = "held" /\ delivered[k] = used[k]
  /\ permit' = [permit EXCEPT ![k] = "free"]
  /\ UNCHANGED <<used, delivered>>

\* The effect is known to be there, by an answer or by an official list.
Close(k) ==
  /\ permit[k] # "closed"
  /\ permit' = [permit EXCEPT ![k] = "closed"]
  /\ UNCHANGED <<used, delivered>>

WNext == \E k \in Keys :
  Acquire(k) \/ Deliver(k) \/ Withdraw(k) \/ Refuse(k) \/ Close(k)

WSpec == WInit /\ [][WNext]_wvars
=============================================================================
