------------------------------- MODULE MCNode -------------------------------
(* A node with three stakeholders, of which two may vote, two competing    *)
(* blocks and two handler goroutines.                                      *)
EXTENDS Node, TLC

CONSTANTS v1, v2, v3, h1, h2, k1, k2, x1, x2

MCValidators == {v1, v2, v3}
MCStake == (v1 :> 1500 @@ v2 :> 1000 @@ v3 :> 500)
MCHashes == {h1, h2}
MCHandlers == {k1, k2}
MCTxIds == {x1, x2}
MCValidTxs == {x1}

MCSymmetry == Permutations(MCHandlers) \cup Permutations(MCHashes)

=============================================================================
