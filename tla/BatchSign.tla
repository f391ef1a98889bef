------------------------------ MODULE BatchSign ------------------------------
(***************************************************************************)
(* BatchSignTransactions: the transactions are cut into batches of         *)
(* BatchSize, one goroutine signs each batch and reports a marshalling     *)
(* error on the buffered channel errChan; the caller waits on a WaitGroup, *)
(* closes errChan and returns the first error it holds.  Two versions are  *)
(* in the repository:                                                      *)
(*   src/unnamed/part_002 (ErrorContinues = FALSE): errChan holds one      *)
(*     error per batch and a goroutine returns at its first error;         *)
(*   src/shared/transaction.go (ErrorContinues = TRUE): errChan holds      *)
(*     len/batchSize + 1 errors and a goroutine goes on with the next      *)
(*     transaction after an error.                                         *)
(* A send on a full channel blocks until a receiver comes, and the only    *)
(* receiver runs after wg.Wait.                                            *)
(***************************************************************************)
EXTENDS Naturals, FiniteSets

CONSTANTS
  NTx,              \* len(transactions)
  BatchSize,        \* batchSize
  ErrorContinues    \* TRUE: the transaction.go version

ASSUME BatchSignAssumption ==
  /\ NTx \in Nat
  /\ BatchSize \in Nat \ {0}
  /\ ErrorContinues \in BOOLEAN

Txs == 1..NTx

(* Mutant of Last: the end of the last batch is not cut at len.           *)
LastUncapped(b) == b * BatchSize

(* The batch goroutines: batch b holds transactions First(b)..Last(b).     *)
Batches == 1..((NTx + BatchSize - 1) \div BatchSize)
First(b) == (b - 1) * BatchSize + 1
Last(b) == IF b * BatchSize > NTx THEN NTx ELSE b * BatchSize

(* Mutant of the part_002 capacity: one slot short.                        *)
CapShort == (NTx + BatchSize - 1) \div BatchSize - 1

(* make(chan error, ...) in each version.                                  *)
ErrCap ==
  IF ErrorContinues THEN NTx \div BatchSize + 1
                    ELSE (NTx + BatchSize - 1) \div BatchSize

VARIABLES
  mpc,      \* caller: "spawn", "wait", "drain", "done"
  next,     \* the loop index i of the spawning loop
  wg,       \* the WaitGroup counter
  gpc,      \* batch goroutine: "none", "run", "send", "done"
  pos,      \* the transaction it is at
  errs,     \* errors buffered in errChan
  failed,   \* transactions whose marshalling failed
  signed,   \* transactions whose Signature was set
  result    \* what the call returns: "none", "ok" or "err"

vars == <<mpc, next, wg, gpc, pos, errs, failed, signed, result>>

TypeOK ==
  /\ mpc \in {"spawn", "wait", "drain", "done"}
  /\ next \in Nat
  /\ wg \in Nat
  /\ gpc \in [Batches -> {"none", "run", "send", "done"}]
  /\ pos \in [Batches -> Nat]
  /\ errs \in Nat
  /\ failed \subseteq Txs
  /\ signed \subseteq Txs
  /\ result \in {"none", "ok", "err"}

Init ==
  /\ mpc = "spawn"
  /\ next = 0
  /\ wg = 0
  /\ gpc = [b \in Batches |-> "none"]
  /\ pos = [b \in Batches |-> 0]
  /\ errs = 0
  /\ failed = {}
  /\ signed = {}
  /\ result = "none"

(* One iteration of `for i := 0; i < len(transactions); i += batchSize`:   *)
(* wg.Add(1) and `go func(batch)`; the loop ends when i reaches len.       *)
Spawn ==
  /\ mpc = "spawn"
  /\ IF next < NTx
       THEN LET b == next \div BatchSize + 1 IN
            /\ gpc' = [gpc EXCEPT ![b] = "run"]
            /\ pos' = [pos EXCEPT ![b] = First(b)]
            /\ wg' = wg + 1
            /\ next' = next + BatchSize
            /\ UNCHANGED mpc
       ELSE /\ mpc' = "wait"
            /\ UNCHANGED <<gpc, pos, wg, next>>
  /\ UNCHANGED <<errs, failed, signed, result>>

(* Mutant of Advance: wg.Done called both explicitly and by the defer.     *)
AdvanceDoneTwice(b) ==
  IF pos[b] = Last(b)
    THEN /\ gpc' = [gpc EXCEPT ![b] = "done"]
         /\ wg' = wg - 2
         /\ UNCHANGED pos
    ELSE /\ pos' = [pos EXCEPT ![b] = pos[b] + 1]
         /\ gpc' = [gpc EXCEPT ![b] = "run"]
         /\ UNCHANGED wg

(* The goroutine moves past its current transaction; at the end of the     *)
(* batch the deferred wg.Done runs.                                        *)
Advance(b) ==
  IF pos[b] = Last(b)
    THEN /\ gpc' = [gpc EXCEPT ![b] = "done"]
         /\ wg' = wg - 1
         /\ UNCHANGED pos
    ELSE /\ pos' = [pos EXCEPT ![b] = pos[b] + 1]
         /\ gpc' = [gpc EXCEPT ![b] = "run"]
         /\ UNCHANGED wg

(* proto.Marshal succeeds: ed25519.Sign and customTx.Signature = ...       *)
Sign(b) ==
  /\ gpc[b] = "run"
  /\ signed' = signed \cup {pos[b]}
  /\ Advance(b)
  /\ UNCHANGED <<mpc, next, errs, failed, result>>

(* proto.Marshal (or ConvertToProtoTransaction) returns an error: the      *)
(* goroutine goes on to `errChan <- err`.                                  *)
SignFails(b) ==
  /\ gpc[b] = "run"
  /\ failed' = failed \cup {pos[b]}
  /\ gpc' = [gpc EXCEPT ![b] = "send"]
  /\ UNCHANGED <<mpc, next, wg, pos, errs, signed, result>>

(* Mutant of SendErr: the error is logged instead of sent.                 *)
SendErrDropped(b) ==
  /\ gpc[b] = "send"
  /\ IF ErrorContinues
       THEN Advance(b)
       ELSE /\ gpc' = [gpc EXCEPT ![b] = "done"]
            /\ wg' = wg - 1
            /\ UNCHANGED pos
  /\ UNCHANGED <<mpc, next, errs, failed, signed, result>>

(* The send completes when errChan has room; then `return` (part_002) or   *)
(* `continue` (transaction.go).                                            *)
SendErr(b) ==
  /\ gpc[b] = "send"
  /\ errs < ErrCap
  /\ errs' = errs + 1
  /\ IF ErrorContinues
       THEN Advance(b)
       ELSE /\ gpc' = [gpc EXCEPT ![b] = "done"]
            /\ wg' = wg - 1
            /\ UNCHANGED pos
  /\ UNCHANGED <<mpc, next, failed, signed, result>>

(* wg.Wait returns once every goroutine has called Done; close(errChan).   *)
Wait ==
  /\ mpc = "wait"
  /\ wg = 0
  /\ mpc' = "drain"
  /\ UNCHANGED <<next, wg, gpc, pos, errs, failed, signed, result>>

(* `for e := range errChan`: the first error is returned, else nil.        *)
Drain ==
  /\ mpc = "drain"
  /\ result' = IF errs > 0 THEN "err" ELSE "ok"
  /\ mpc' = "done"
  /\ UNCHANGED <<next, wg, gpc, pos, errs, failed, signed>>

Step(b) == Sign(b) \/ SignFails(b) \/ SendErr(b)

Next ==
  \/ Spawn \/ Wait \/ Drain
  \/ \E b \in Batches : Step(b)

(* The Go scheduler runs every runnable goroutine.                         *)
Spec ==
  /\ Init /\ [][Next]_vars
  /\ WF_vars(Spawn) /\ WF_vars(Wait) /\ WF_vars(Drain)
  /\ \A b \in Batches : WF_vars(Step(b))

-----------------------------------------------------------------------------
(* The call returns: no goroutine stays blocked on a full errChan, so       *)
(* wg.Wait and the call end.                                               *)
Terminates == <>(mpc = "done")

(* When BatchSignTransactions returns nil every transaction carries its    *)
(* signature, and it returns an error whenever some marshalling failed: no *)
(* error is lost between the batch goroutines, errChan and the caller.     *)
ResultFaithful ==
  mpc = "done" =>
    /\ (result = "ok") <=> (failed = {})
    /\ result = "ok" => signed = Txs

(* Both versions implement the contract of BatchSignTransactions          *)
(* (ABatchSign): the batches split the transactions so that each is signed *)
(* or fails at most once, in one step, and the call returns once, with the *)
(* result the contract allows.                                             *)
AB == INSTANCE ABatchSign WITH returned <- (mpc = "done")

ImplementsContract == AB!ASpec

=============================================================================
