---------------------------- MODULE MCNodeServer ----------------------------
(* Two gRPC clients calling SubmitTransaction or an unimplemented method   *)
(* (GetBlock stands for the seven), with one well-formed transaction, a    *)
(* nil one and undecodable bytes.                                          *)
EXTENDS NodeServer, TLC

CONSTANTS k1, k2, x1

MCClients == {k1, k2}
MCMethods == {"SubmitTransaction", "GetBlock"}
MCTxIds == {x1}

MCSymmetry == Permutations(MCClients)

=============================================================================
