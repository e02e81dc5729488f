-------------------------- MODULE OperationLedger --------------------------
(***************************************************************************)
(* The rows of the durable ledger of core/operations.py and what each of   *)
(* its methods does to a row.  Every method is one SQLite transaction under *)
(* the ledger's own lock, so a method is one operator here and one step of *)
(* whichever module calls it.  A key that has no row is NoRow.             *)
(***************************************************************************)
EXTENDS Integers

OpStates == {"none", "pending", "success", "failed", "uncertain"}

Row == [state : OpStates, attempts : Nat, updated : Nat]

NoRow == [state |-> "none", attempts |-> 0, updated |-> 0]

\* States of a request whose official outcome is still unknown.
Unsettled == {"pending", "uncertain"}

(***************************************************************************)
(* Faulty variants, each what a plausible slip in the code would do; the   *)
(* properties are tested against them.                                     *)
(***************************************************************************)
\* The limit compared with > instead of >=.
ClaimVerdictOverLimit(row, group, blockSuccess, limit, delay, time) ==
  IF row.state = "success" THEN "accepted"
  ELSE IF \/ row.state \in Unsettled
          \/ row.state # "none" /\ row.attempts > limit
          \/ row.state # "none" /\ row.updated + delay > time
       THEN "busy"
  ELSE "granted"

\* A request whose outcome is unknown taken for an accepted one.
ClaimVerdictTrusts(row, group, blockSuccess, limit, delay, time) ==
  IF row.state \in {"success", "uncertain"} THEN "accepted"
  ELSE IF row.state = "pending" \/ (row.state # "none" /\ row.attempts >= limit)
          \/ (row.state # "none" /\ row.updated + delay > time)
       THEN "busy"
  ELSE "granted"

\* The time of the claim kept instead of the time of the answer.
FinishedKeepsTime(row, outcome, time) ==
  IF row.state = "none" THEN row ELSE [row EXCEPT !.state = outcome]

\* The row replaced, its attempts forgotten.
ConfirmedFresh(row, time) ==
  [state |-> "success", attempts |-> 0, updated |-> time]

(***************************************************************************)
(* claim(): the verdict on one key.  "accepted" is the return value False  *)
(* (never send again), "busy" the exception OperationBusy, "granted" True. *)
(* group holds the states of the other rows of the same group; delay is    *)
(* the value of retry_delay(attempts), 0 when the caller gives none.       *)
(***************************************************************************)
ClaimVerdict(row, group, blockSuccess, limit, delay, time) ==
  IF group \cap Unsettled # {} THEN "busy"
  ELSE IF blockSuccess /\ "success" \in group THEN "accepted"
  ELSE IF row.state = "success" THEN "accepted"
  ELSE IF \/ row.state \in Unsettled
          \/ row.state # "none" /\ row.attempts >= limit
          \/ row.state # "none" /\ row.updated + delay > time
       THEN "busy"
  ELSE "granted"

Claimed(row, time) ==
  [state |-> "pending", attempts |-> row.attempts + 1, updated |-> time]

\* finish() is an unconditional UPDATE: no row, no effect.
Finished(row, outcome, time) ==
  IF row.state = "none" THEN row
  ELSE [row EXCEPT !.state = outcome, !.updated = time]

\* failed_before_send(): gives the attempt back, only to a row that is not
\* yet success or uncertain.
FailedBeforeSend(row, time) ==
  IF row.state \in {"pending", "failed"}
  THEN [state |-> "failed", updated |-> time,
        attempts |-> IF row.attempts > 0 THEN row.attempts - 1 ELSE 0]
  ELSE row

\* confirmed(): an official list shows the effect; attempts are kept.
Confirmed(row, time) ==
  [state |-> "success", attempts |-> row.attempts, updated |-> time]

\* settle_group(): what confirmation by the group does to one of its rows.
Settled(row, time) ==
  IF row.state \in Unsettled
  THEN [row EXCEPT !.state = "success", !.updated = time] ELSE row

\* forget_confirmed() and forget_group_confirmed(): a contrary official list.
Forgotten(row) == IF row.state = "success" THEN NoRow ELSE row
=============================================================================
