---------------------------- MODULE BatchProcess ----------------------------
(***************************************************************************)
(* processTransactionsBatch (src/unnamed/part_002): one store transaction  *)
(* for a batch, a buffered channel txChannel of capacity len(transactions) *)
(* closed by a defer, five worker goroutines that `range` over it and call *)
(* processSingleTransaction (a SetTransaction of "transaction-<id>"), a    *)
(* dispatch loop, wg.Wait, and CommitTransaction.  A worker leaves its     *)
(* range loop only when the channel is closed and empty.                   *)
(***************************************************************************)
EXTENDS Naturals, Sequences, FiniteSets

CONSTANTS
  NTx,        \* len(transactions)
  Workers     \* the worker goroutines (five in the code)

Txs == 1..NTx

VARIABLES
  mpc,        \* caller: "begin", "dispatch", "wait", "done"
  sentN,      \* transactions dispatched so far
  chan,       \* txChannel's buffer
  closed,     \* close(txChannel) has run
  wpc,        \* worker: "recv", "set" or "exit"
  wtx,        \* the transaction a worker holds
  pending,    \* "transaction-" Sets in the store transaction
  committed   \* what CommitTransaction made visible

vars == <<mpc, sentN, chan, closed, wpc, wtx, pending, committed>>

Init ==
  /\ mpc = "begin"
  /\ sentN = 0
  /\ chan = << >>
  /\ closed = FALSE
  /\ wpc = [w \in Workers |-> "recv"]
  /\ wtx = [w \in Workers |-> 0]
  /\ pending = {}
  /\ committed = {}

(* `if len(transactions) == 0 { return nil }`, BeginTransaction, the       *)
(* channel and the workers; an empty batch returns at once and the         *)
(* deferred close runs.                                                    *)
Begin ==
  /\ mpc = "begin"
  /\ IF NTx = 0 THEN /\ mpc' = "done" /\ closed' = TRUE
                ELSE /\ mpc' = "dispatch" /\ UNCHANGED closed
  /\ UNCHANGED <<sentN, chan, wpc, wtx, pending, committed>>

(* `txChannel <- tx`; the buffer holds every transaction, so it never      *)
(* blocks.                                                                 *)
Dispatch ==
  /\ mpc = "dispatch"
  /\ chan' = Append(chan, sentN + 1)
  /\ sentN' = sentN + 1
  /\ mpc' = IF sentN + 1 = NTx THEN "wait" ELSE "dispatch"
  /\ UNCHANGED <<closed, wpc, wtx, pending, committed>>

(* `for tx := range txChannel`: take the next transaction, or leave the    *)
(* loop (and call wg.Done) when the channel is closed and drained.         *)
Recv(w) ==
  /\ wpc[w] = "recv"
  /\ \/ /\ chan # << >>
        /\ wtx' = [wtx EXCEPT ![w] = Head(chan)]
        /\ chan' = Tail(chan)
        /\ wpc' = [wpc EXCEPT ![w] = "set"]
     \/ /\ chan = << >> /\ closed
        /\ wpc' = [wpc EXCEPT ![w] = "exit"]
        /\ UNCHANGED <<wtx, chan>>
  /\ UNCHANGED <<mpc, sentN, closed, pending, committed>>

(* processSingleTransaction: SetTransaction succeeds, or fails and the     *)
(* worker logs it and continues.                                           *)
Store(w) ==
  /\ wpc[w] = "set"
  /\ \/ pending' = pending \cup {wtx[w]}
     \/ UNCHANGED pending
  /\ wpc' = [wpc EXCEPT ![w] = "recv"]
  /\ UNCHANGED <<mpc, sentN, chan, closed, wtx, committed>>

(* wg.Wait returns when every worker has left its loop; CommitTransaction, *)
(* then the deferred close and RollbackTransaction.                        *)
Commit ==
  /\ mpc = "wait"
  /\ \A w \in Workers : wpc[w] = "exit"
  /\ committed' = pending
  /\ mpc' = "done"
  /\ closed' = TRUE
  /\ UNCHANGED <<sentN, chan, wpc, wtx, pending>>

Next ==
  \/ Begin \/ Dispatch \/ Commit
  \/ \E w \in Workers : Recv(w) \/ Store(w)

(* The Go scheduler runs every runnable goroutine.                         *)
Spec ==
  /\ Init /\ [][Next]_vars
  /\ WF_vars(Begin) /\ WF_vars(Dispatch) /\ WF_vars(Commit)
  /\ \A w \in Workers : WF_vars(Recv(w) \/ Store(w))

-----------------------------------------------------------------------------
(* processTransactionsBatch returns: the workers leave their range loops,  *)
(* wg.Wait returns and the batch is committed.                             *)
BatchReturns == <>(mpc = "done")

=============================================================================
