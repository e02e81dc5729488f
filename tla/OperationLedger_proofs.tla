----------------------- MODULE OperationLedger_proofs -----------------------
(***************************************************************************)
(* What the methods of the ledger make of a row.                           *)
(***************************************************************************)
EXTENDS OperationLedger, TLAPS

\* Every method keeps a row a row.
LEMMA RowTypes ==
  ASSUME NEW row \in Row, NEW time \in Nat
  PROVE  /\ Claimed(row, time) \in Row
         /\ \A s \in {"success", "failed", "uncertain"} :
              Finished(row, s, time) \in Row
         /\ FailedBeforeSend(row, time) \in Row
         /\ Confirmed(row, time) \in Row
         /\ Settled(row, time) \in Row
         /\ Forgotten(row) \in Row
<1>1. Claimed(row, time) \in Row
  BY DEF Row, OpStates, Claimed
<1>2. ASSUME NEW s \in {"success", "failed", "uncertain"}
      PROVE  Finished(row, s, time) \in Row
  BY DEF Row, OpStates, Finished
<1>3. FailedBeforeSend(row, time) \in Row
  BY DEF Row, OpStates, FailedBeforeSend
<1>4. Confirmed(row, time) \in Row
  BY DEF Row, OpStates, Confirmed
<1>5. Settled(row, time) \in Row
  BY DEF Row, OpStates, Settled
<1>6. Forgotten(row) \in Row
  BY DEF Row, OpStates, Forgotten, NoRow
<1>7. QED BY <1>1, <1>2, <1>3, <1>4, <1>5, <1>6
=============================================================================
