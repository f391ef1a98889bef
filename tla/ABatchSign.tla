----------------------------- MODULE ABatchSign -----------------------------
(***************************************************************************)
(* What BatchSignTransactions promises its caller: each transaction is     *)
(* signed, or its marshalling fails, at most once and in one step; the     *)
(* call returns once, nil only when every transaction is signed, and an    *)
(* error exactly when some marshalling failed.                             *)
(***************************************************************************)
EXTENDS Naturals

CONSTANT NTx

VARIABLES signed, failed, result, returned

avars == <<signed, failed, result, returned>>

Txs == 1..NTx

AInit ==
  /\ signed = {}
  /\ failed = {}
  /\ result = "none"
  /\ returned = FALSE

(* ed25519.Sign sets the Signature of a transaction not yet handled.       *)
ASign(t) ==
  /\ ~returned
  /\ t \in Txs \ (signed \cup failed)
  /\ signed' = signed \cup {t}
  /\ UNCHANGED <<failed, result, returned>>

(* proto.Marshal fails for a transaction not yet handled.                  *)
AFail(t) ==
  /\ ~returned
  /\ t \in Txs \ (signed \cup failed)
  /\ failed' = failed \cup {t}
  /\ UNCHANGED <<signed, result, returned>>

(* The call returns: nil when nothing failed, and then all are signed.     *)
AReturn ==
  /\ ~returned
  /\ failed = {} => signed = Txs
  /\ result' = IF failed = {} THEN "ok" ELSE "err"
  /\ returned' = TRUE
  /\ UNCHANGED <<signed, failed>>

ANext == (\E t \in Txs : ASign(t) \/ AFail(t)) \/ AReturn

ASpec == AInit /\ [][ANext]_avars

=============================================================================
