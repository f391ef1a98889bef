--------------------------- MODULE ProducerProofs ---------------------------
(***************************************************************************)
(* Proofs about ModernBlockProducer when the node has called Start once:   *)
(* one ticker goroutine.  With a second goroutine (Start after Stop) the   *)
(* stale read of lastBlockTime in shouldProduceBlock breaks BlockSpacing,  *)
(* which TLC shows on MCProducer with Loops = {l1, l2}.                    *)
(***************************************************************************)
EXTENDS Producer, TLAPS

USE ProducerAssumption

(* The time variables and the goroutine's program counter keep their      *)
(* types (the part of TypeOK that the spacing argument needs).             *)
TimeTypeOK ==
  /\ elapsed \in 0..TargetBlockTime
  /\ sinceBlock \in 0..TargetBlockTime
  /\ snapTime \in [Loops -> 0..TargetBlockTime]
  /\ lpc \in [Loops -> LoopPcs]

(* The invariant behind BlockSpacing for a single goroutine:               *)
(*  - time.Since(lastBlockTime) never exceeds the time since the last      *)
(*    block, except between appending a block and stamping lastBlockTime;  *)
(*  - the value shouldProduceBlock read stays a lower bound of the time    *)
(*    since the last block until the production ends, and it was the full *)
(*    TargetBlockTime once the goroutine decided to produce.               *)
SpacingInv ==
  /\ TimeTypeOK
  /\ \A l \in Loops : lpc[l] # "stamp" => elapsed <= sinceBlock
  /\ \A l \in Loops : lpc[l] \in {"count", "cas", "drain", "apply"} =>
                        snapTime[l] <= sinceBlock
  /\ \A l \in Loops : lpc[l] \in {"cas", "drain", "apply"} =>
                        snapTime[l] = TargetBlockTime

LEMMA InitSpacing == Init => SpacingInv
  BY DEF Init, SpacingInv, TimeTypeOK, LoopPcs

(* Each step of the one goroutine l, of the clock, of Stop and of a        *)
(* client keeps SpacingInv.                                                *)
LEMMA NextSpacing ==
  ASSUME NEW l, Loops = {l}, SpacingInv, [Next]_vars
  PROVE  SpacingInv'
  <1> USE DEF SpacingInv, TimeTypeOK
  <1>1. CASE Start(l)  BY <1>1 DEF Start, Goto, LoopPcs
  <1>2. CASE Advance
    <2>1. elapsed' \in 0..TargetBlockTime /\ sinceBlock' \in 0..TargetBlockTime
      BY <1>2 DEF Advance, Cap
    <2>2. elapsed <= sinceBlock => elapsed' <= sinceBlock'
      BY <1>2 DEF Advance, Cap
    <2>3. \A x \in 0..TargetBlockTime : x <= sinceBlock => x <= sinceBlock'
      BY <1>2 DEF Advance, Cap
    <2>. QED  BY <1>2, <2>1, <2>2, <2>3 DEF Advance
  <1>3. CASE Receive(l)  BY <1>3 DEF Receive, Goto, LoopPcs
  <1>4. CASE LoadFlag(l)  BY <1>4 DEF LoadFlag, Goto, LoopPcs
  <1>5. CASE ReadTime(l)  BY <1>5 DEF ReadTime, Goto, LoopPcs
  <1>6. CASE ReadCount(l)  BY <1>6 DEF ReadCount, Goto, LoopPcs
  <1>7. CASE CAS(l)  BY <1>7 DEF CAS, Goto, LoopPcs
  <1>8. CASE Drain(l)  BY <1>8 DEF Drain, Goto, LoopPcs
  <1>9. CASE Apply(l)
    <2>1. UNCHANGED <<elapsed, snapTime>>  BY <1>9 DEF Apply
    <2>2. \/ sinceBlock' = 0 /\ lpc' = [lpc EXCEPT ![l] = "stamp"]
          \/ sinceBlock' = sinceBlock /\ lpc' = [lpc EXCEPT ![l] = "release"]
      BY <1>9 DEF Apply, Goto
    <2>3. CASE sinceBlock' = 0 /\ lpc' = [lpc EXCEPT ![l] = "stamp"]
      <3>1. lpc'[l] = "stamp" /\ lpc' \in [Loops -> LoopPcs]  BY <2>3 DEF LoopPcs
      <3>. QED  BY <2>1, <2>3, <3>1
    <2>4. CASE sinceBlock' = sinceBlock /\ lpc' = [lpc EXCEPT ![l] = "release"]
      <3>1. lpc'[l] = "release" /\ lpc' \in [Loops -> LoopPcs]  BY <2>4 DEF LoopPcs
      <3>2. elapsed <= sinceBlock  BY <1>9 DEF Apply
      <3>. QED  BY <2>1, <2>4, <3>1, <3>2
    <2>. QED  BY <2>2, <2>3, <2>4
  <1>10. CASE ApplyFails(l)  BY <1>10 DEF ApplyFails, Goto, LoopPcs
  <1>11. CASE Stamp(l)  BY <1>11 DEF Stamp, Goto, LoopPcs
  <1>12. CASE Release(l)  BY <1>12 DEF Release, Goto, LoopPcs
  <1>13. CASE Stop  BY <1>13 DEF Stop
  <1>14. CASE \E x \in TxIds : Admit(x)  BY <1>14 DEF Admit
  <1>15. CASE UNCHANGED vars  BY <1>15 DEF vars
  <1>. QED  BY <1>1, <1>2, <1>3, <1>4, <1>5, <1>6, <1>7, <1>8, <1>9, <1>10,
               <1>11, <1>12, <1>13, <1>14, <1>15 DEF Next, LoopStep

(* Only Apply appends to the chain, and the goroutine applies only with    *)
(* TargetBlockTime passed since the last block.                            *)
LEMMA StepSpacing ==
  ASSUME NEW l, Loops = {l}, SpacingInv, [Next]_vars
  PROVE  [Len(chain') > Len(chain) => sinceBlock >= TargetBlockTime]_vars
  <1>1. CASE Apply(l)
    <2>1. snapTime[l] <= sinceBlock /\ snapTime[l] = TargetBlockTime
      BY <1>1 DEF Apply, SpacingInv
    <2>. QED  BY <2>1 DEF SpacingInv, TimeTypeOK
  <1>2. CASE ~Apply(l)
    <2>1. UNCHANGED chain
      BY <1>2 DEF Next, LoopStep, vars, Start, Advance, Receive, LoadFlag, ReadTime,
                  ReadCount, CAS, Drain, ApplyFails, Stamp, Release, Stop, Admit
    <2>. QED  BY <2>1
  <1>. QED  BY <1>1, <1>2

(* Spec 5 / shouldProduceBlock: with the one goroutine Start creates,      *)
(* for every TargetBlockTime, pool and block size, a block is appended     *)
(* only when TargetBlockTime has passed since the previous block.          *)
THEOREM SingleProducerSpacing ==
  ASSUME NEW l, Loops = {l}
  PROVE  Spec => BlockSpacing
  <1>1. Init => SpacingInv  BY InitSpacing
  <1>2. SpacingInv /\ [Next]_vars => SpacingInv'  BY NextSpacing
  <1>3. SpacingInv /\ [Next]_vars =>
          [Len(chain') > Len(chain) => sinceBlock >= TargetBlockTime]_vars
    BY StepSpacing
  <1>. QED  BY <1>1, <1>2, <1>3, PTL DEF Spec, BlockSpacing

=============================================================================
