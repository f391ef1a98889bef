------------------------------- MODULE TxSign -------------------------------
(***************************************************************************)
(* Signing and verification of transactions (src/shared/transaction.go).   *)
(* Three routes produce a signed thrylos.Transaction:                      *)
(*   CreateAndSignTransaction builds a local Transaction, converts it,     *)
(*     signs it with SignTransaction and converts it back; the node gets   *)
(*     it through ConvertToProtoTransaction;                               *)
(*   SignTransaction on a thrylos.Transaction built by the caller;         *)
(*   the goroutine body of BatchSignTransactionsConcurrently on a local    *)
(*     Transaction, which the node also gets through ConvertToProto...     *)
(* and VerifyTransaction checks what the node received.                    *)
(*                                                                         *)
(* Data.  proto.Marshal is deterministic for these messages (no maps) and  *)
(* its bytes determine every field, an empty field being omitted: it is    *)
(* the tuple of the fields.  Ed25519 is taken as an ideal signature: the   *)
(* signature of bytes m under k names k and m, and Verify(pub(k), m, s)    *)
(* holds exactly for s = Sign(k, m); pub(k) is k.  serializeUTXOs and      *)
(* EncryptWithAES are injective; the random IV is left out because every  *)
(* conversion below drops the encrypted fields.  A UTXO is a record whose  *)
(* Index and Amount are small, so int32/int64 conversions keep them.       *)
(***************************************************************************)
EXTENDS Naturals, Sequences

CONSTANTS
  Ids,          \* transaction ids
  KeyOf,        \* getPublicKeyFunc: address -> Ed25519 key (its domain: the known addresses)
  Utxos,        \* UTXO records [TransactionID, Index, OwnerAddress, Amount]
  ValidAesKeys, \* AES keys aes.NewCipher accepts
  Now,          \* time.Now().Unix()
  None

Addresses == DOMAIN KeyOf

(* selectTips: the two placeholder ids.                                    *)
Tips == <<"prevTxID1", "prevTxID2">>

(* The empty []byte (also what []byte("") is).                             *)
NoBytes == <<>>

ZeroLocal ==
  [ID |-> "", Timestamp |-> 0, Inputs |-> <<>>, Outputs |-> <<>>,
   EncryptedInputs |-> NoBytes, EncryptedOutputs |-> NoBytes,
   Signature |-> NoBytes, EncryptedAESKey |-> NoBytes,
   PreviousTxIds |-> <<>>, Sender |-> ""]

ZeroProto ==
  [Id |-> "", Sender |-> "", Timestamp |-> 0, Inputs |-> <<>>,
   Outputs |-> <<>>, Signature |-> NoBytes, PreviousTxIds |-> <<>>]

(* thrylos.UTXO from a local UTXO and back.                                *)
ToProtoUtxo(u) ==
  [TransactionId |-> u.TransactionID, Index |-> u.Index,
   OwnerAddress |-> u.OwnerAddress, Amount |-> u.Amount]
ToLocalUtxo(u) ==
  [TransactionID |-> u.TransactionId, Index |-> u.Index,
   OwnerAddress |-> u.OwnerAddress, Amount |-> u.Amount]

MapSeq(s, F(_)) == [i \in 1..Len(s) |-> F(s[i])]

Marshal(p) ==
  <<p.Id, p.Sender, p.Timestamp, p.Inputs, p.Outputs, p.Signature, p.PreviousTxIds>>

Ed25519Sign(k, m) == [key |-> k, msg |-> m]
Ed25519Verify(pub, m, s) == s # NoBytes /\ s.key = pub /\ s.msg = m

(* EncryptWithAES(key, serializeUTXOs(l)): fails when aes.NewCipher        *)
(* rejects the key.                                                        *)
EncryptWithAES(k, l) == [ok |-> k \in ValidAesKeys, ct |-> <<k, l>>]

ConvertLocalTransactionToThrylosTransaction(tx) ==
  [ZeroProto EXCEPT !.Id = tx.ID,
                    !.Inputs = MapSeq(tx.Inputs, ToProtoUtxo),
                    !.Outputs = MapSeq(tx.Outputs, ToProtoUtxo),
                    !.Timestamp = tx.Timestamp,
                    !.PreviousTxIds = tx.PreviousTxIds]

ConvertThrylosTransactionToLocal(p) ==
  [ZeroLocal EXCEPT !.ID = p.Id,
                    !.Inputs = MapSeq(p.Inputs, ToLocalUtxo),
                    !.Outputs = MapSeq(p.Outputs, ToLocalUtxo),
                    !.Timestamp = p.Timestamp,
                    !.Signature = p.Signature,
                    !.PreviousTxIds = p.PreviousTxIds]

ConvertToProtoTransaction(tx) ==
  [ZeroProto EXCEPT !.Id = tx.ID, !.Sender = tx.Sender,
                    !.Timestamp = tx.Timestamp, !.Signature = tx.Signature,
                    !.Inputs = MapSeq(tx.Inputs, ToProtoUtxo),
                    !.Outputs = MapSeq(tx.Outputs, ToProtoUtxo)]

(* SignTransaction: sign the marshalled message, Signature as it is.       *)
SignTransaction(p, k) ==
  [p EXCEPT !.Signature = Ed25519Sign(k, Marshal(p))]

(* The goroutine of BatchSignTransactionsConcurrently for one transaction. *)
BatchSignOne(tx, k) ==
  [tx EXCEPT !.Signature = Ed25519Sign(k, Marshal(ConvertToProtoTransaction(tx)))]

(* CreateAndSignTransaction: [ok, tx]; ok is FALSE on an encryption error. *)
CreateAndSignTransaction(id, sender, ins, outs, k, aesKey) ==
  LET encIn == EncryptWithAES(aesKey, ins)
      encOut == EncryptWithAES(aesKey, outs)
      tx == [ZeroLocal EXCEPT !.ID = id, !.Sender = sender,
                              !.EncryptedInputs = encIn.ct,
                              !.EncryptedOutputs = encOut.ct,
                              !.PreviousTxIds = Tips, !.Timestamp = Now]
  IN [ok |-> encIn.ok /\ encOut.ok,
      tx |-> ConvertThrylosTransactionToLocal(
               SignTransaction(ConvertLocalTransactionToThrylosTransaction(tx), k))]

(* VerifyTransactionSignature marshals tx, Signature included.             *)
VerifyTransactionSignature(p, pub) == Ed25519Verify(pub, Marshal(p), p.Signature)

(* VerifyTransaction's checks in order; the txCopy with the signature      *)
(* cleared is marshalled and logged, and not used.                         *)
VerifyTransaction(p) ==
  IF p.Inputs = <<>> THEN "no_inputs"
  ELSE IF p.Sender \notin Addresses THEN "no_key"
  ELSE IF ~VerifyTransactionSignature(p, KeyOf[p.Sender]) THEN "bad_signature"
  ELSE "ok"

-----------------------------------------------------------------------------
(* A client signs a transaction of its own with its own key and hands it   *)
(* to a node, which verifies it.                                           *)

UtxoLists == {<<u>> : u \in Utxos}

VARIABLES
  held,     \* the thrylos.Transaction the node received, or None
  verdict   \* VerifyTransaction's result, or "none"

vars == <<held, verdict>>

Init == held = None /\ verdict = "none"

CreateRoute(id, s, ins, outs, ak) ==
  LET r == CreateAndSignTransaction(id, s, ins, outs, KeyOf[s], ak) IN
  /\ held = None
  /\ r.ok
  /\ held' = ConvertToProtoTransaction(r.tx)
  /\ UNCHANGED verdict

DirectRoute(id, s, ins, outs) ==
  /\ held = None
  /\ held' = SignTransaction(
               [ZeroProto EXCEPT !.Id = id, !.Sender = s, !.Timestamp = Now,
                                 !.Inputs = MapSeq(ins, ToProtoUtxo),
                                 !.Outputs = MapSeq(outs, ToProtoUtxo),
                                 !.PreviousTxIds = Tips], KeyOf[s])
  /\ UNCHANGED verdict

BatchRoute(id, s, ins, outs) ==
  /\ held = None
  /\ held' = ConvertToProtoTransaction(
               BatchSignOne([ZeroLocal EXCEPT !.ID = id, !.Sender = s, !.Timestamp = Now,
                                              !.Inputs = ins, !.Outputs = outs], KeyOf[s]))
  /\ UNCHANGED verdict

Verify ==
  /\ held # None /\ verdict = "none"
  /\ verdict' = VerifyTransaction(held)
  /\ UNCHANGED held

Next ==
  \/ \E id \in Ids, s \in Addresses, ins, outs \in UtxoLists :
       \/ \E ak \in ValidAesKeys : CreateRoute(id, s, ins, outs, ak)
       \/ DirectRoute(id, s, ins, outs)
       \/ BatchRoute(id, s, ins, outs)
  \/ Verify

Spec == Init /\ [][Next]_vars

-----------------------------------------------------------------------------
(* Spec 8 (round trip): verify(sign(T, k), pub(k)) == ok.  A transaction   *)
(* with inputs, signed by its sender's key through any of the signing      *)
(* routes of transaction.go, passes VerifyTransaction.                     *)
SignedVerifies == verdict \in {"none", "ok"}

=============================================================================
