---------------------------- MODULE AtomicLedger ----------------------------
(***************************************************************************)
(* What the BlockchainDB write path promises its callers: each call of     *)
(* ProcessTransaction, UpdateUTXOs or AddTransaction either takes effect   *)
(* completely, in one indivisible step, or not at all.  The store is the   *)
(* set of "utxo-" entries and the set of "transaction-" records.           *)
(***************************************************************************)
EXTENDS LedgerData

VARIABLES utxo, txrec

avars == <<utxo, txrec>>

AInit ==
  /\ utxo = Genesis
  /\ txrec = {}

(* ProcessTransaction: every UTXO write of t and the record of t at once.   *)
AProcess(t) ==
  /\ utxo' = Overlay(utxo, Pending(t, NW(t)))
  /\ txrec' = txrec \cup {t.id}

(* UpdateUTXOs: every UTXO write of t at once, no transaction record.       *)
AUpdate(t) ==
  /\ utxo' = Overlay(utxo, Pending(t, NW(t)))
  /\ UNCHANGED txrec

(* AddTransaction: the record of t alone.                                  *)
AAdd(t) ==
  /\ txrec' = txrec \cup {t.id}
  /\ UNCHANGED utxo

ANext == \E t \in Txs : AProcess(t) \/ AUpdate(t) \/ AAdd(t)

ASpec == AInit /\ [][ANext]_avars

=============================================================================
