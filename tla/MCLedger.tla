------------------------------ MODULE MCLedger ------------------------------
(***************************************************************************)
(* Ledger on a small instance: one genesis UTXO of 100 owned by a; t1      *)
(* spends it into 60 for b and 40 change for a; t2 spends b's 60 back to   *)
(* a.  Two goroutines call the write path with these transactions in any  *)
(* order, any number of times.                                             *)
(***************************************************************************)
EXTENDS Ledger

CONSTANTS g, t1, t2, a, b, w1, w2

MCTxIds == {g, t1, t2}
MCIndices == {0, 1}
MCOwners == {a, b}
MCAmounts == {40, 60, 100}
MCWorkers == {w1, w2}

U(id, i, o, amt) == [txid |-> id, index |-> i, owner |-> o, amount |-> amt, spent |-> FALSE]

G0 == U(g, 0, a, 100)
T1 == [id |-> t1, inputs |-> <<G0>>, outputs |-> <<U(t1, 0, b, 60), U(t1, 1, a, 40)>>]
T2 == [id |-> t2, inputs |-> <<U(t1, 0, b, 60)>>, outputs |-> <<U(t2, 0, a, 60)>>]

MCTxs == {T1, T2}
MCGenesis == [k \in MCTxIds \X MCIndices |-> IF k = <<g, 0>> THEN G0 ELSE Absent]

=============================================================================
