----------------------------- MODULE MCTDEngine -----------------------------
(* Small instances of TDEngine for TLC. *)
EXTENDS TDEngine, TLC

CONSTANTS two, DayLength

TwoRounds == (two :> 2)
OpenTwo == (two :> Days)

\* Days of equal length, with one window each.
ByLength == [t \in Times |-> IF t < Horizon THEN t \div DayLength ELSE 0]
Hours == {[from |-> d * DayLength + 1, to |-> (d + 1) * DayLength - 1] : d \in Days}
=============================================================================
