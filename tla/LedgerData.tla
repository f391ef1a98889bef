----------------------------- MODULE LedgerData -----------------------------
(***************************************************************************)
(* Data of the UTXO ledger kept by BlockchainDB (database package,         *)
(* src/unnamed/part_004): the UTXO record shared.UTXO, the store key       *)
(* "utxo-<TransactionID>-<Index>" it is written under, the transactions    *)
(* handed to ProcessTransaction / UpdateUTXOs, and the sequence of txn.Set *)
(* calls that updateUTXOsInTxn makes for one transaction.                  *)
(***************************************************************************)
EXTENDS Naturals, Sequences, FiniteSets

CONSTANTS
  TxIds,      \* transaction ids (model values)
  Indices,    \* output indices
  Owners,     \* owner addresses
  Amounts,    \* amounts carried by a UTXO
  Txs,        \* the transactions callers hand to the ledger
  Genesis,    \* the UTXO entries in the store when the node starts
  Absent      \* no entry under a key

(* shared.UTXO as it is marshalled into the store.                          *)
UTXO == [txid : TxIds, index : Indices, owner : Owners,
         amount : Amounts, spent : BOOLEAN]

(* fmt.Sprintf("utxo-%s-%d", TransactionID, Index): the formatted key is   *)
(* injective on ids that contain no '-', so a key is the pair it formats.  *)
Keys == TxIds \X Indices
Key(u) == <<u.txid, u.index>>

Entry == UTXO \cup {Absent}
Store == [Keys -> Entry]

Tx == [id : TxIds, inputs : Seq(UTXO), outputs : Seq(UTXO)]

ASSUME LedgerDataAssumption ==
  /\ Absent \notin UTXO
  /\ Txs \subseteq Tx
  /\ Genesis \in Store

(***************************************************************************)
(* updateUTXOsInTxn(txn, inputs, outputs) calls txn.Set once per input,   *)
(* with the input record marked IsSpent = true, and then once per output,  *)
(* with the output record as given.  Write j of transaction t:             *)
(***************************************************************************)
NW(t) == Len(t.inputs) + Len(t.outputs)

WKey(t, j) ==
  IF j <= Len(t.inputs) THEN Key(t.inputs[j])
                        ELSE Key(t.outputs[j - Len(t.inputs)])

WVal(t, j) ==
  IF j <= Len(t.inputs) THEN [t.inputs[j] EXCEPT !.spent = TRUE]
                        ELSE t.outputs[j - Len(t.inputs)]

(* The pending writes of a badger transaction after the first n Sets of t: *)
(* a later Set of the same key replaces an earlier one.                    *)
WritesTo(t, n, k) == {j \in 1..n : WKey(t, j) = k}

LastWrite(t, n, k) == CHOOSE j \in WritesTo(t, n, k) : \A i \in WritesTo(t, n, k) : i <= j

Pending(t, n) ==
  [k \in Keys |-> IF WritesTo(t, n, k) = {} THEN Absent ELSE WVal(t, LastWrite(t, n, k))]

(* txn.Commit: every pending write replaces the stored entry.              *)
Overlay(store, writes) ==
  [k \in Keys |-> IF writes[k] = Absent THEN store[k] ELSE writes[k]]

NoWrites == [k \in Keys |-> Absent]

=============================================================================
