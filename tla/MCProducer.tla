----------------------------- MODULE MCProducer -----------------------------
(***************************************************************************)
(* Producer on a small instance: three transactions, one of which fails    *)
(* re-verification, blocks of at most two, a target block time of two     *)
(* time units.                                                             *)
(***************************************************************************)
EXTENDS Producer

CONSTANTS l1, l2, x1, x2, x3

MCTxIds == {x1, x2, x3}
MCInvalid == {x3}

=============================================================================
