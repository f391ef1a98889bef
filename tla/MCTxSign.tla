------------------------------- MODULE MCTxSign -------------------------------
(* Two senders with their keys, one transaction id, one UTXO.              *)
EXTENDS TxSign, TLC

MCKeyOf == ("alice" :> "kA" @@ "bob" :> "kB")
MCUtxos == {[TransactionID |-> "tx0", Index |-> 0, OwnerAddress |-> "alice", Amount |-> 10]}

=============================================================================
