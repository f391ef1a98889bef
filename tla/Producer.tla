------------------------------ MODULE Producer ------------------------------
(***************************************************************************)
(* ModernBlockProducer (src/unnamed/part_004, package core).  Each Start   *)
(* makes a ticker of period TargetBlockTime and a goroutine that, on each  *)
(* tick, runs shouldProduceBlock (three separate reads: isProducing, then  *)
(* lastBlockTime under mu, then the pool length under the chain lock) and, *)
(* if it says so, tryProduceBlock (CompareAndSwap on isProducing, deferred *)
(* Store(false), ProcessPendingTransactions, then lastBlockTime = now).    *)
(* Stop only stores false into isProducing.                                *)
(*                                                                         *)
(* Blockchain.ProcessPendingTransactions is not in the repository; it is   *)
(* modelled from the design (drain up to MaxTransactions from the head of  *)
(* the pool, drop the ones that fail re-verification, append one block in  *)
(* one store transaction; on failure put the drained transactions back at  *)
(* the head of the pool in order).                                         *)
(*                                                                         *)
(* Time is kept relative: Elapsed is time.Since(lastBlockTime), saturated  *)
(* at TargetBlockTime, which is all that shouldProduceBlock compares.       *)
(***************************************************************************)
EXTENDS Naturals, Sequences, FiniteSets, SequencesExt

CONSTANTS
  Loops,             \* goroutines that Start can create
  TxIds,             \* transactions submitted to the pool
  Invalid,           \* the ones that fail re-verification
  TargetBlockTime,   \* ticker period and minimum time between blocks
  MinTransactions,
  MaxTransactions

ASSUME ProducerAssumption ==
  /\ Invalid \subseteq TxIds
  /\ TargetBlockTime \in Nat \ {0}
  /\ MinTransactions \in Nat \ {0}
  /\ MaxTransactions \in Nat \ {0}

VARIABLES
  isProducing,   \* the atomic.Bool
  elapsed,       \* time.Since(lastBlockTime), capped at TargetBlockTime
  pending,       \* blockchain.PendingTransactions, in insertion order
  chain,         \* the blocks appended, each a sequence of transactions
  lpc,           \* where each producer goroutine is
  snapTime,      \* timeSinceLastBlock as read by shouldProduceBlock
  drained,       \* transactions a goroutine took from the pool
  countdown,     \* time to the next tick of a goroutine's ticker
  tickReady,     \* a tick buffered in ticker.C
  stopped,       \* Stop has been called
  admitted,      \* transactions added to the pool so far
  dropped,       \* transactions rejected by re-verification
  sinceBlock     \* time since the last block or the producer's creation

vars == <<isProducing, elapsed, pending, chain, lpc, snapTime, drained,
          countdown, tickReady, stopped, admitted, dropped, sinceBlock>>

LoopPcs == {"off", "wait", "load", "time", "count", "cas",
            "drain", "apply", "stamp", "release"}

Cap(x) == IF x < TargetBlockTime THEN x ELSE TargetBlockTime

TypeOK ==
  /\ isProducing \in BOOLEAN
  /\ elapsed \in 0..TargetBlockTime
  /\ pending \in Seq(TxIds)
  /\ chain \in Seq(BoundedSeq(TxIds, MaxTransactions))
  /\ lpc \in [Loops -> LoopPcs]
  /\ snapTime \in [Loops -> 0..TargetBlockTime]
  /\ drained \in [Loops -> BoundedSeq(TxIds, MaxTransactions)]
  /\ countdown \in [Loops -> 1..TargetBlockTime]
  /\ tickReady \in [Loops -> BOOLEAN]
  /\ stopped \in BOOLEAN
  /\ admitted \subseteq TxIds
  /\ dropped \subseteq TxIds
  /\ sinceBlock \in 0..TargetBlockTime

(* NewBlockProducer: lastBlockTime = time.Now(), nothing started.          *)
Init ==
  /\ isProducing = FALSE
  /\ elapsed = 0
  /\ pending = <<>>
  /\ chain = <<>>
  /\ lpc = [l \in Loops |-> "off"]
  /\ snapTime = [l \in Loops |-> 0]
  /\ drained = [l \in Loops |-> <<>>]
  /\ countdown = [l \in Loops |-> TargetBlockTime]
  /\ tickReady = [l \in Loops |-> FALSE]
  /\ stopped = FALSE
  /\ admitted = {}
  /\ dropped = {}
  /\ sinceBlock = 0

Goto(l, p) == lpc' = [lpc EXCEPT ![l] = p]

(* Start: time.NewTicker(TargetBlockTime) and the goroutine ranging over it. *)
Start(l) ==
  /\ lpc[l] = "off"
  /\ Goto(l, "wait")
  /\ countdown' = [countdown EXCEPT ![l] = TargetBlockTime]
  /\ UNCHANGED <<isProducing, elapsed, pending, chain, snapTime, drained,
                 tickReady, stopped, admitted, dropped, sinceBlock>>

(* One unit of time passes.  A running ticker whose period is up puts a    *)
(* tick into ticker.C, dropping it if one is already buffered.             *)
Advance ==
  /\ elapsed' = Cap(elapsed + 1)
  /\ sinceBlock' = Cap(sinceBlock + 1)
  /\ countdown' = [l \in Loops |-> IF lpc[l] # "off" /\ countdown[l] = 1
                                     THEN TargetBlockTime
                                     ELSE IF lpc[l] # "off" THEN countdown[l] - 1
                                     ELSE countdown[l]]
  /\ tickReady' = [l \in Loops |-> tickReady[l] \/ (lpc[l] # "off" /\ countdown[l] = 1)]
  /\ UNCHANGED <<isProducing, pending, chain, lpc, snapTime, drained,
                 stopped, admitted, dropped>>

(* for range ticker.C: the goroutine takes a tick.                         *)
Receive(l) ==
  /\ lpc[l] = "wait"
  /\ tickReady[l]
  /\ tickReady' = [tickReady EXCEPT ![l] = FALSE]
  /\ Goto(l, "load")
  /\ UNCHANGED <<isProducing, elapsed, pending, chain, snapTime, drained,
                 countdown, stopped, admitted, dropped, sinceBlock>>

(* shouldProduceBlock: if isProducing.Load() return false.                 *)
LoadFlag(l) ==
  /\ lpc[l] = "load"
  /\ Goto(l, IF isProducing THEN "wait" ELSE "time")
  /\ UNCHANGED <<isProducing, elapsed, pending, chain, snapTime, drained,
                 countdown, tickReady, stopped, admitted, dropped, sinceBlock>>

(* shouldProduceBlock: timeSinceLastBlock := time.Since(lastBlockTime).    *)
ReadTime(l) ==
  /\ lpc[l] = "time"
  /\ snapTime' = [snapTime EXCEPT ![l] = elapsed]
  /\ Goto(l, "count")
  /\ UNCHANGED <<isProducing, elapsed, pending, chain, drained,
                 countdown, tickReady, stopped, admitted, dropped, sinceBlock>>

(* shouldProduceBlock: pendingCount := len(PendingTransactions), and the   *)
(* decision; on true the loop calls tryProduceBlock.                       *)
ReadCount(l) ==
  /\ lpc[l] = "count"
  /\ Goto(l, IF snapTime[l] >= TargetBlockTime /\ Len(pending) >= MinTransactions
               THEN "cas" ELSE "wait")
  /\ UNCHANGED <<isProducing, elapsed, pending, chain, snapTime, drained,
                 countdown, tickReady, stopped, admitted, dropped, sinceBlock>>

(* tryProduceBlock: if !isProducing.CompareAndSwap(false, true) return.    *)
CAS(l) ==
  /\ lpc[l] = "cas"
  /\ isProducing' = TRUE
  /\ Goto(l, IF isProducing THEN "wait" ELSE "drain")
  /\ UNCHANGED <<elapsed, pending, chain, snapTime, drained,
                 countdown, tickReady, stopped, admitted, dropped, sinceBlock>>

(* Mutant of Drain: the whole pool is taken, MaxTransactions ignored.       *)
DrainAll(l) ==
  /\ lpc[l] = "drain"
  /\ drained' = [drained EXCEPT ![l] = pending]
  /\ pending' = <<>>
  /\ Goto(l, IF pending = <<>> THEN "release" ELSE "apply")
  /\ UNCHANGED <<isProducing, elapsed, chain, snapTime, countdown, tickReady,
                 stopped, admitted, dropped, sinceBlock>>

(* GetCurrentValidator, then ProcessPendingTransactions takes up to        *)
(* MaxTransactions from the head of the pool.  An empty pool gives no      *)
(* block and no error.                                                     *)
Drain(l) ==
  LET k == IF Len(pending) < MaxTransactions THEN Len(pending) ELSE MaxTransactions
  IN
  /\ lpc[l] = "drain"
  /\ drained' = [drained EXCEPT ![l] = SubSeq(pending, 1, k)]
  /\ pending' = SubSeq(pending, k + 1, Len(pending))
  /\ Goto(l, IF k = 0 THEN "release" ELSE "apply")
  /\ UNCHANGED <<isProducing, elapsed, chain, snapTime, countdown, tickReady,
                 stopped, admitted, dropped, sinceBlock>>

IsValid(x) == x \notin Invalid

(* ProcessPendingTransactions re-verifies the drained transactions, drops  *)
(* the offending ones, and appends the block in one store transaction      *)
(* (newBlock is nil when nothing is left).                                 *)
Apply(l) ==
  LET keep == SelectSeq(drained[l], IsValid)
  IN
  /\ lpc[l] = "apply"
  /\ dropped' = dropped \cup {drained[l][i] : i \in {j \in DOMAIN drained[l] : ~IsValid(drained[l][j])}}
  /\ drained' = [drained EXCEPT ![l] = <<>>]
  /\ IF keep # <<>>
       THEN /\ chain' = Append(chain, keep)
            /\ sinceBlock' = 0
            /\ Goto(l, "stamp")
       ELSE /\ UNCHANGED <<chain, sinceBlock>>
            /\ Goto(l, "release")
  /\ UNCHANGED <<isProducing, elapsed, pending, snapTime, countdown, tickReady,
                 stopped, admitted>>

(* Mutant of ApplyFails: the error path returns without the deferred       *)
(* Store(false).                                                           *)
ApplyFailsKeepsFlag(l) ==
  /\ lpc[l] = "apply"
  /\ pending' = drained[l] \o pending
  /\ drained' = [drained EXCEPT ![l] = <<>>]
  /\ Goto(l, "wait")
  /\ UNCHANGED <<isProducing, elapsed, chain, snapTime, countdown, tickReady,
                 stopped, admitted, dropped, sinceBlock>>

(* ProcessPendingTransactions returns an error and tryProduceBlock returns *)
(* without stamping lastBlockTime; the deferred Store(false) follows.      *)
(* ProcessPendingTransactions is not in the repository: what happens to   *)
(* the drained transactions is spec 4.4's failure semantics (the store    *)
(* transaction is rolled back and they go back to the head of the pool).  *)
ApplyFails(l) ==
  /\ lpc[l] = "apply"
  /\ pending' = drained[l] \o pending
  /\ drained' = [drained EXCEPT ![l] = <<>>]
  /\ Goto(l, "release")
  /\ UNCHANGED <<isProducing, elapsed, chain, snapTime, countdown, tickReady,
                 stopped, admitted, dropped, sinceBlock>>

(* Mutant of Stamp: lastBlockTime is not updated.                          *)
StampSkipped(l) ==
  /\ lpc[l] = "stamp"
  /\ Goto(l, "release")
  /\ UNCHANGED <<isProducing, elapsed, pending, chain, snapTime, drained, countdown,
                 tickReady, stopped, admitted, dropped, sinceBlock>>

(* newBlock != nil: lastBlockTime = time.Now() under mu.                   *)
Stamp(l) ==
  /\ lpc[l] = "stamp"
  /\ elapsed' = 0
  /\ Goto(l, "release")
  /\ UNCHANGED <<isProducing, pending, chain, snapTime, drained, countdown,
                 tickReady, stopped, admitted, dropped, sinceBlock>>

(* The deferred isProducing.Store(false); back to the range loop.          *)
Release(l) ==
  /\ lpc[l] = "release"
  /\ isProducing' = FALSE
  /\ Goto(l, "wait")
  /\ UNCHANGED <<elapsed, pending, chain, snapTime, drained, countdown,
                 tickReady, stopped, admitted, dropped, sinceBlock>>

(* Stop: isProducing.Store(false), whatever the goroutines are doing.      *)
Stop ==
  /\ isProducing' = FALSE
  /\ stopped' = TRUE
  /\ UNCHANGED <<elapsed, pending, chain, lpc, snapTime, drained, countdown,
                 tickReady, admitted, dropped, sinceBlock>>

(* A transaction is added at the tail of the pool, once.                   *)
Admit(x) ==
  /\ x \notin admitted
  /\ pending' = Append(pending, x)
  /\ admitted' = admitted \cup {x}
  /\ UNCHANGED <<isProducing, elapsed, chain, lpc, snapTime, drained, countdown,
                 tickReady, stopped, dropped, sinceBlock>>

(* The steps of one producer goroutine.                                    *)
LoopStep(l) ==
  \/ Receive(l) \/ LoadFlag(l) \/ ReadTime(l) \/ ReadCount(l) \/ CAS(l)
  \/ Drain(l) \/ Apply(l) \/ ApplyFails(l) \/ Stamp(l) \/ Release(l)

Next ==
  \/ \E l \in Loops : Start(l) \/ LoopStep(l)
  \/ Advance
  \/ Stop
  \/ \E x \in TxIds : Admit(x)

(* The node starts its producer; time passes; goroutines are scheduled;    *)
(* and a store transaction does not fail forever.                          *)
Fairness ==
  /\ WF_vars(Advance)
  /\ \A l \in Loops : WF_vars(Start(l)) /\ WF_vars(LoopStep(l)) /\ SF_vars(Apply(l))

Spec == Init /\ [][Next]_vars /\ Fairness

-----------------------------------------------------------------------------
(***************************************************************************)
(* Properties.                                                             *)
(***************************************************************************)

Occurrences(s, x) == Cardinality({i \in DOMAIN s : s[i] = x})

InChain(x) == Occurrences(FlattenSeq(chain), x)

InBlocks == {x \in TxIds : InChain(x) > 0}

(* Blocks are at least TargetBlockTime apart: a block is appended only     *)
(* when TargetBlockTime has passed since the previous block (or since the  *)
(* producer was created).  shouldProduceBlock reads lastBlockTime before   *)
(* tryProduceBlock takes the flag, so the read may be stale.               *)
BlockSpacing ==
  [][Len(chain') > Len(chain) => sinceBlock >= TargetBlockTime]_vars

(* Spec 5: the CompareAndSwap on isProducing ensures at most one           *)
(* production in flight.                                                   *)
InFlight == {"drain", "apply", "stamp"}
AtMostOneInFlight == Cardinality({l \in Loops : lpc[l] \in InFlight}) <= 1

(* Spec 5: the producer observes a stop signal between ticks: once Stop    *)
(* has been called no goroutine begins a new production.                   *)
StopHalts ==
  [][stopped => \A l \in Loops : ~(lpc[l] = "cas" /\ lpc'[l] = "drain")]_vars

(* Spec 5 (1): a transaction added to the pool is eventually either in a   *)
(* block or rejected by re-verification.                                   *)
EventuallyIncluded ==
  \A x \in TxIds : (x \in admitted) ~> (x \in InBlocks \/ x \in dropped)

=============================================================================
