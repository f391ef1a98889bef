--------------------------- MODULE BatchSignProofs ---------------------------
(***************************************************************************)
(* Proofs about BatchSign for every len(transactions), every batchSize > 0 *)
(* and both versions of BatchSignTransactions.                             *)
(***************************************************************************)
EXTENDS BatchSign, FiniteSetTheorems, TLAPS

USE BatchSignAssumption

(* The spawning loop starts batch k + 1 when i = k * batchSize < len:      *)
(* i / batchSize is k, and batch k + 1 exists.                             *)
LEMMA SpawnedBatch ==
  ASSUME NEW k \in Nat, k * BatchSize < NTx
  PROVE  /\ (k * BatchSize) \div BatchSize = k
         /\ k + 1 \in Batches
         /\ First(k + 1) = k * BatchSize + 1
  <1>1. (k * BatchSize) \div BatchSize = k
    OBVIOUS
  <1>2. k + 1 <= (NTx + BatchSize - 1) \div BatchSize
    OBVIOUS
  <1>. QED  BY <1>1, <1>2 DEF Batches, First

(* Once i >= len every batch has been started.                             *)
LEMMA AllSpawned ==
  ASSUME NEW k \in Nat, k * BatchSize >= NTx, NEW b \in Batches
  PROVE  b <= k
  <1> DEFINE q == (NTx + BatchSize - 1) \div BatchSize
  <1>1. b <= q /\ b \in Nat  BY DEF Batches
  <1>2. q * BatchSize <= NTx + BatchSize - 1  OBVIOUS
  <1>3. b * BatchSize <= q * BatchSize  BY <1>1
  <1>4. (k + 1) * BatchSize = k * BatchSize + BatchSize  OBVIOUS
  <1>5. b * BatchSize < (k + 1) * BatchSize
    <2>1. b * BatchSize <= NTx + BatchSize - 1  BY <1>1, <1>2, <1>3
    <2>. QED  BY <1>1, <2>1, <1>4
  <1>6. b >= k + 1 => b * BatchSize >= (k + 1) * BatchSize  BY <1>1
  <1>. QED  BY <1>1, <1>5, <1>6

(* Each transaction lies in one batch.                                     *)
LEMMA Covered ==
  ASSUME NEW t \in Txs
  PROVE  \E b \in Batches : t \in First(b)..Last(b)
  <1> DEFINE b == (t - 1) \div BatchSize + 1
  <1>1. t \in 1..NTx  BY DEF Txs
  <1>2. (b - 1) * BatchSize <= t - 1 /\ t - 1 < b * BatchSize  BY <1>1
  <1>3. b \in Batches
    <2>1. b * BatchSize <= NTx + BatchSize - 1  BY <1>1, <1>2
    <2>. QED  BY <2>1, <1>1 DEF Batches
  <1>4. t \in First(b)..Last(b)  BY <1>1, <1>2 DEF First, Last
  <1>. QED  BY <1>3, <1>4

-----------------------------------------------------------------------------
(* The transactions of batch b, and the batch goroutines that have been    *)
(* started and not yet called wg.Done.                                     *)
BatchTxs(b) == First(b)..Last(b)
Active == {b \in Batches : gpc[b] \in {"run", "send"}}

(* The inductive invariant behind ResultFaithful:                          *)
(*  - the loop index is a multiple k of batchSize and exactly the batches  *)
(*    1..k have been started; it has reached len once the loop is over;    *)
(*  - the WaitGroup counts the goroutines that have not returned, so       *)
(*    wg.Wait returns only after all of them have;                         *)
(*  - a goroutine has signed or failed every transaction of its batch      *)
(*    before pos, is at a failed one while it sends, and one that returned *)
(*    covered its whole batch unless some marshalling failed;              *)
(*  - errChan holds an error only after a failure, and a failure is either *)
(*    in errChan or about to be sent.                                      *)
IInv ==
  /\ TypeOK
  /\ \E k \in 0..next : /\ next = k * BatchSize
                    /\ \A b \in Batches : gpc[b] = "none" <=> b > k
  /\ mpc # "spawn" => next >= NTx
  /\ wg = Cardinality(Active)
  /\ \A b \in Active : /\ pos[b] \in BatchTxs(b)
                      /\ First(b)..(pos[b] - 1) \subseteq signed \cup failed
  /\ \A b \in Batches : gpc[b] = "send" => pos[b] \in failed
  /\ \A b \in Batches : gpc[b] = "done" =>
                         BatchTxs(b) \subseteq signed \cup failed \/ failed # {}
  /\ errs > 0 => failed # {}
  /\ failed # {} => errs > 0 \/ \E b \in Batches : gpc[b] = "send"
  /\ mpc \in {"drain", "done"} => Active = {}
  /\ mpc = "done" => result = IF errs > 0 THEN "err" ELSE "ok"

(* The batches form a finite set, so Active has a cardinality.             *)
LEMMA ActiveFinite == IsFiniteSet(Active) /\ IsFiniteSet(Active')
  <1>1. IsFiniteSet(Batches)  BY FS_Interval DEF Batches
  <1>. QED  BY <1>1, FS_Subset DEF Active

LEMMA InitIInv == Init => IInv
  <1> SUFFICES ASSUME Init PROVE IInv  OBVIOUS
  <1>1. TypeOK  BY DEF Init, TypeOK
  <1>2. \E k \in 0..next : /\ next = k * BatchSize
                         /\ \A b \in Batches : gpc[b] = "none" <=> b > k
    BY DEF Init, Batches
  <1>3. Active = {}  BY DEF Init, Active
  <1>4. wg = Cardinality(Active)  BY <1>3, FS_EmptySet DEF Init
  <1>. QED  BY <1>1, <1>2, <1>3, <1>4 DEF Init, IInv

(* One iteration of the spawning loop.                                     *)
LEMMA SpawnIInv == IInv /\ Spawn => IInv'
  <1> SUFFICES ASSUME IInv, Spawn PROVE IInv'  OBVIOUS
  <1>1. CASE next >= NTx
    <2>1. mpc' = "wait" /\ UNCHANGED <<gpc, pos, wg, next, errs, failed, signed, result>>
      BY <1>1 DEF Spawn, IInv, TypeOK
    <2>2. Active' = Active  BY <2>1 DEF Active
    <2>. QED  BY <1>1, <2>1, <2>2 DEF IInv, TypeOK
  <1>2. CASE next < NTx
    <2>1. PICK k \in 0..next : /\ next = k * BatchSize
                              /\ \A b \in Batches : gpc[b] = "none" <=> b > k
      BY DEF IInv
    <2>2. k \in Nat /\ next \in Nat  BY <2>1 DEF IInv, TypeOK
    <2>3. /\ next \div BatchSize = k
          /\ k + 1 \in Batches
          /\ First(k + 1) = k * BatchSize + 1
      BY <1>2, <2>1, <2>2, SpawnedBatch
    <2> DEFINE nb == k + 1
    <2>4. /\ gpc' = [gpc EXCEPT ![nb] = "run"]
          /\ pos' = [pos EXCEPT ![nb] = First(nb)]
          /\ wg' = wg + 1
          /\ next' = next + BatchSize
          /\ UNCHANGED <<mpc, errs, failed, signed, result>>
      BY <1>2, <2>3 DEF Spawn
    <2>5. gpc[nb] = "none"  BY <2>1, <2>2, <2>3
    <2>6. Active' = Active \cup {nb} /\ nb \notin Active
      BY <2>3, <2>4, <2>5 DEF Active, IInv, TypeOK
    <2>7. wg' = Cardinality(Active')
      BY <2>4, <2>6, ActiveFinite, FS_AddElement DEF IInv
    <2>8. First(nb) \in BatchTxs(nb)
      BY <1>2, <2>2, <2>3 DEF BatchTxs, Last
    <2>9. TypeOK'
      BY <2>2, <2>3, <2>4, <2>8 DEF IInv, TypeOK, BatchTxs, First
    <2>10. \E j \in 0..next' : /\ next' = j * BatchSize
                              /\ \A b \in Batches : gpc'[b] = "none" <=> b > j
      <3>1. next' = nb * BatchSize  BY <2>1, <2>2, <2>4
      <3>2. nb <= nb * BatchSize  BY <2>2
      <3>3. nb \in 0..next'  BY <3>1, <3>2, <2>2
      <3>4. \A b \in Batches : gpc'[b] = "none" <=> b > nb
        BY <2>1, <2>2, <2>3, <2>4 DEF Batches, IInv, TypeOK
      <3>. QED  BY <3>1, <3>3, <3>4
    <2>11. \A b \in Active' : /\ pos'[b] \in BatchTxs(b)
                              /\ First(b)..(pos'[b] - 1) \subseteq signed' \cup failed'
      <3> SUFFICES ASSUME NEW b \in Active'
                   PROVE  /\ pos'[b] \in BatchTxs(b)
                          /\ First(b)..(pos'[b] - 1) \subseteq signed' \cup failed'
        OBVIOUS
      <3>1. CASE b = nb
        <4>1. pos'[b] = First(b)  BY <3>1, <2>3, <2>4 DEF IInv, TypeOK
        <4>2. First(b)..(First(b) - 1) = {}  BY <3>1, <2>2, <2>3
        <4>. QED  BY <4>1, <4>2, <2>8, <3>1
      <3>2. CASE b # nb
        <4>1. b \in Active /\ pos'[b] = pos[b]  BY <3>2, <2>4, <2>6 DEF Active
        <4>. QED  BY <4>1, <2>4 DEF IInv
      <3>. QED  BY <3>1, <3>2
    <2>12. \A b \in Batches : gpc'[b] = "send" => pos'[b] \in failed'
      BY <2>4, <2>3 DEF IInv, TypeOK
    <2>13. \A b \in Batches : gpc'[b] = "done" =>
                  BatchTxs(b) \subseteq signed' \cup failed' \/ failed' # {}
      BY <2>4, <2>3 DEF IInv, TypeOK
    <2>14. failed' # {} => errs' > 0 \/ \E b \in Batches : gpc'[b] = "send"
      BY <2>4, <2>3, <2>5 DEF IInv, TypeOK
    <2>15. mpc = "spawn"  BY DEF Spawn
    <2>. QED  BY <2>4, <2>7, <2>9, <2>10, <2>11, <2>12, <2>13, <2>14, <2>15 DEF IInv
  <1>. QED  BY <1>1, <1>2 DEF IInv, TypeOK

(* A goroutine moves past its current transaction once that transaction is *)
(* signed or failed: by Advance, or (part_002) by returning after sending  *)
(* its error.  The WaitGroup count, the batch bookkeeping and the set of   *)
(* started batches stay right; the other goroutines are untouched.         *)
LEMMA MoveOn ==
  ASSUME IInv, NEW b \in Active,
         pos[b] \in signed' \cup failed',
         signed \subseteq signed', failed \subseteq failed',
         \/ Advance(b)
         \/ /\ gpc' = [gpc EXCEPT ![b] = "done"] /\ wg' = wg - 1
            /\ UNCHANGED pos /\ failed' # {}
  PROVE  /\ wg' = Cardinality(Active')
         /\ wg' \in Nat
         /\ gpc' \in [Batches -> {"none", "run", "send", "done"}]
         /\ pos' \in [Batches -> Nat]
         /\ \A c \in Active' : /\ pos'[c] \in BatchTxs(c)
                             /\ First(c)..(pos'[c] - 1) \subseteq signed' \cup failed'
         /\ \A c \in Batches : gpc'[c] = "done" =>
                         BatchTxs(c) \subseteq signed' \cup failed' \/ failed' # {}
         /\ \A c \in Batches \ {b} : gpc'[c] = gpc[c] /\ pos'[c] = pos[c]
         /\ gpc'[b] \in {"run", "done"}
  <1>0. /\ b \in Batches /\ gpc[b] \in {"run", "send"}
        /\ pos[b] \in BatchTxs(b)
        /\ First(b)..(pos[b] - 1) \subseteq signed \cup failed
        /\ wg = Cardinality(Active)
    BY DEF Active, IInv
  <1>1. First(b)..pos[b] \subseteq signed' \cup failed'
    BY <1>0 DEF BatchTxs, IInv, TypeOK
  <1>2. CASE /\ gpc' = [gpc EXCEPT ![b] = "done"] /\ wg' = wg - 1
             /\ UNCHANGED pos /\ failed' # {}
    <2>1. Active' = Active \ {b}  BY <1>0, <1>2 DEF Active, IInv, TypeOK
    <2>2. wg' = Cardinality(Active')  BY <1>0, <1>2, <2>1, ActiveFinite, FS_RemoveElement
    <2>3. wg' \in Nat  BY <2>2, ActiveFinite, FS_CardinalityType
    <2>. QED  BY <1>0, <1>2, <2>1, <2>2, <2>3 DEF IInv, TypeOK
  <1>3. CASE Advance(b) /\ pos[b] = Last(b)
    <2>1. gpc' = [gpc EXCEPT ![b] = "done"] /\ wg' = wg - 1 /\ UNCHANGED pos
      BY <1>3 DEF Advance
    <2>2. Active' = Active \ {b}  BY <1>0, <2>1 DEF Active, IInv, TypeOK
    <2>3. wg' = Cardinality(Active')  BY <1>0, <2>1, <2>2, ActiveFinite, FS_RemoveElement
    <2>4. wg' \in Nat  BY <2>3, ActiveFinite, FS_CardinalityType
    <2>5. BatchTxs(b) \subseteq signed' \cup failed'  BY <1>1, <1>3 DEF BatchTxs
    <2>. QED  BY <1>0, <2>1, <2>2, <2>3, <2>4, <2>5 DEF IInv, TypeOK
  <1>4. CASE Advance(b) /\ pos[b] # Last(b)
    <2>1. /\ pos' = [pos EXCEPT ![b] = pos[b] + 1]
          /\ gpc' = [gpc EXCEPT ![b] = "run"]
          /\ wg' = wg
      BY <1>4 DEF Advance
    <2>2. Active' = Active  BY <1>0, <2>1 DEF Active, IInv, TypeOK
    <2>3. pos[b] + 1 \in BatchTxs(b)  BY <1>0, <1>4 DEF BatchTxs, First, Last, Batches
    <2>4. \A c \in Active' : /\ pos'[c] \in BatchTxs(c)
                            /\ First(c)..(pos'[c] - 1) \subseteq signed' \cup failed'
      <3> SUFFICES ASSUME NEW c \in Active'
                   PROVE  /\ pos'[c] \in BatchTxs(c)
                          /\ First(c)..(pos'[c] - 1) \subseteq signed' \cup failed'
        OBVIOUS
      <3>1. CASE c = b  BY <3>1, <1>0, <1>1, <2>1, <2>3 DEF IInv, TypeOK
      <3>2. CASE c # b  BY <3>2, <2>1, <2>2 DEF IInv, TypeOK, Active
      <3>. QED  BY <3>1, <3>2
    <2>. QED  BY <1>0, <2>1, <2>2, <2>3, <2>4 DEF IInv, TypeOK, BatchTxs
  <1>. QED  BY <1>2, <1>3, <1>4

(* Every batch lies within the transactions.                               *)
LEMMA BatchInTxs == ASSUME NEW b \in Batches PROVE BatchTxs(b) \subseteq Txs
  BY DEF BatchTxs, Batches, First, Last, Txs

(* A step that starts no goroutine and leaves the loop index alone keeps   *)
(* the started batches.                                                    *)
LEMMA SpawnedKept ==
  ASSUME IInv, next' = next,
         \A c \in Batches : gpc'[c] = "none" <=> gpc[c] = "none"
  PROVE  \E k \in 0..next' : /\ next' = k * BatchSize
                           /\ \A c \in Batches : gpc'[c] = "none" <=> c > k
  BY DEF IInv

(* A goroutine that is running or sending keeps the caller before Drain.   *)
LEMMA ActiveCaller ==
  ASSUME IInv, NEW b \in Active PROVE mpc \notin {"drain", "done"}
  BY DEF IInv

LEMMA SignIInv ==
  ASSUME IInv, NEW b \in Batches, Sign(b) PROVE IInv'
  <1>1. b \in Active /\ gpc[b] = "run"  BY DEF Sign, Active
  <1>2. /\ signed' = signed \cup {pos[b]} /\ Advance(b)
        /\ UNCHANGED <<mpc, next, errs, failed, result>>
    BY DEF Sign
  <1>3. /\ wg' = Cardinality(Active')
        /\ wg' \in Nat
        /\ gpc' \in [Batches -> {"none", "run", "send", "done"}]
        /\ pos' \in [Batches -> Nat]
        /\ \A c \in Active' : /\ pos'[c] \in BatchTxs(c)
                            /\ First(c)..(pos'[c] - 1) \subseteq signed' \cup failed'
        /\ \A c \in Batches : gpc'[c] = "done" =>
                        BatchTxs(c) \subseteq signed' \cup failed' \/ failed' # {}
        /\ \A c \in Batches \ {b} : gpc'[c] = gpc[c] /\ pos'[c] = pos[c]
        /\ gpc'[b] \in {"run", "done"}
    BY <1>1, <1>2, MoveOn
  <1>4. signed' \subseteq Txs
    BY <1>1, <1>2, BatchInTxs DEF IInv, TypeOK, Active
  <1>5. \E k \in 0..next' : /\ next' = k * BatchSize
                          /\ \A c \in Batches : gpc'[c] = "none" <=> c > k
    BY <1>1, <1>2, <1>3, SpawnedKept
  <1>6. \A c \in Batches : gpc'[c] = "send" => pos'[c] \in failed'
    BY <1>2, <1>3 DEF IInv
  <1>7. failed' # {} => errs' > 0 \/ \E c \in Batches : gpc'[c] = "send"
    BY <1>1, <1>2, <1>3 DEF IInv
  <1>8. mpc \notin {"drain", "done"}  BY <1>1, ActiveCaller
  <1>. QED  BY <1>2, <1>3, <1>4, <1>5, <1>6, <1>7, <1>8 DEF IInv, TypeOK

LEMMA SignFailsIInv ==
  ASSUME IInv, NEW b \in Batches, SignFails(b) PROVE IInv'
  <1>1. b \in Active /\ gpc[b] = "run"  BY DEF SignFails, Active
  <1>2. /\ failed' = failed \cup {pos[b]} /\ gpc' = [gpc EXCEPT ![b] = "send"]
        /\ UNCHANGED <<mpc, next, wg, pos, errs, signed, result>>
    BY DEF SignFails
  <1>3. Active' = Active  BY <1>1, <1>2 DEF Active, IInv, TypeOK
  <1>4. failed' \subseteq Txs
    BY <1>1, <1>2, BatchInTxs DEF IInv, TypeOK, Active
  <1>5. \E k \in 0..next' : /\ next' = k * BatchSize
                          /\ \A c \in Batches : gpc'[c] = "none" <=> c > k
    BY <1>1, <1>2, SpawnedKept DEF IInv, TypeOK
  <1>6. \A c \in Batches : gpc'[c] = "send" => pos'[c] \in failed'
    BY <1>2 DEF IInv, TypeOK
  <1>7. \A c \in Batches : gpc'[c] = "done" =>
                    BatchTxs(c) \subseteq signed' \cup failed' \/ failed' # {}
    BY <1>2
  <1>8. \E c \in Batches : gpc'[c] = "send"  BY <1>2 DEF IInv, TypeOK
  <1>9. mpc \notin {"drain", "done"}  BY <1>1, ActiveCaller
  <1>10. \A c \in Active' : /\ pos'[c] \in BatchTxs(c)
                           /\ First(c)..(pos'[c] - 1) \subseteq signed' \cup failed'
    BY <1>2, <1>3 DEF IInv
  <1>. QED  BY <1>2, <1>3, <1>4, <1>5, <1>6, <1>7, <1>8, <1>9, <1>10 DEF IInv, TypeOK

LEMMA SendErrIInv ==
  ASSUME IInv, NEW b \in Batches, SendErr(b) PROVE IInv'
  <1>1. b \in Active /\ gpc[b] = "send" /\ pos[b] \in failed
    BY DEF SendErr, Active, IInv
  <1>2. /\ errs' = errs + 1
        /\ UNCHANGED <<mpc, next, failed, signed, result>>
        /\ \/ Advance(b)
           \/ /\ gpc' = [gpc EXCEPT ![b] = "done"] /\ wg' = wg - 1
              /\ UNCHANGED pos /\ failed' # {}
    BY <1>1 DEF SendErr
  <1>3. /\ wg' = Cardinality(Active')
        /\ wg' \in Nat
        /\ gpc' \in [Batches -> {"none", "run", "send", "done"}]
        /\ pos' \in [Batches -> Nat]
        /\ \A c \in Active' : /\ pos'[c] \in BatchTxs(c)
                            /\ First(c)..(pos'[c] - 1) \subseteq signed' \cup failed'
        /\ \A c \in Batches : gpc'[c] = "done" =>
                        BatchTxs(c) \subseteq signed' \cup failed' \/ failed' # {}
        /\ \A c \in Batches \ {b} : gpc'[c] = gpc[c] /\ pos'[c] = pos[c]
        /\ gpc'[b] \in {"run", "done"}
    BY <1>1, <1>2, MoveOn
  <1>4. \E k \in 0..next' : /\ next' = k * BatchSize
                          /\ \A c \in Batches : gpc'[c] = "none" <=> c > k
    BY <1>1, <1>2, <1>3, SpawnedKept
  <1>5. \A c \in Batches : gpc'[c] = "send" => pos'[c] \in failed'
    BY <1>2, <1>3 DEF IInv
  <1>6. errs' > 0 /\ failed' # {}  BY <1>1, <1>2 DEF IInv, TypeOK
  <1>7. mpc \notin {"drain", "done"}  BY <1>1, ActiveCaller
  <1>. QED  BY <1>2, <1>3, <1>5, <1>4, <1>6, <1>7 DEF IInv, TypeOK

(* wg.Wait returns: the counter is zero, so no goroutine is left.          *)
LEMMA WaitIInv == IInv /\ Wait => IInv'
  <1> SUFFICES ASSUME IInv, Wait PROVE IInv'  OBVIOUS
  <1>1. Active = {}  BY ActiveFinite, FS_EmptySet DEF Wait, IInv
  <1>2. mpc' = "drain" /\ UNCHANGED <<next, wg, gpc, pos, errs, failed, signed, result>>
    BY DEF Wait
  <1>. QED  BY <1>1, <1>2 DEF Wait, IInv, TypeOK, Active

LEMMA DrainIInv == IInv /\ Drain => IInv'
  <1> SUFFICES ASSUME IInv, Drain PROVE IInv'  OBVIOUS
  <1>. QED  BY DEF Drain, IInv, TypeOK, Active

LEMMA NextIInv == IInv /\ [Next]_vars => IInv'
  <1> SUFFICES ASSUME IInv, [Next]_vars PROVE IInv'  OBVIOUS
  <1>1. CASE Spawn  BY <1>1, SpawnIInv
  <1>2. CASE Wait  BY <1>2, WaitIInv
  <1>3. CASE Drain  BY <1>3, DrainIInv
  <1>4. ASSUME NEW b \in Batches, Step(b) PROVE IInv'
    BY <1>4, SignIInv, SignFailsIInv, SendErrIInv DEF Step
  <1>5. CASE UNCHANGED vars  BY <1>5 DEF vars, IInv, TypeOK, Active
  <1>. QED  BY <1>1, <1>2, <1>3, <1>4, <1>5 DEF Next

(* When the call has returned, every goroutine has returned, so the nil    *)
(* result and the signed transactions agree with the marshalling failures. *)
LEMMA IInvFaithful == IInv => ResultFaithful
  <1> SUFFICES ASSUME IInv, mpc = "done"
               PROVE  /\ (result = "ok") <=> (failed = {})
                      /\ result = "ok" => signed = Txs
    BY DEF ResultFaithful
  <1>1. Active = {}  BY DEF IInv
  <1>2. \A b \in Batches : gpc[b] = "done"
    <2>1. PICK k \in 0..next : /\ next = k * BatchSize
                              /\ \A b \in Batches : gpc[b] = "none" <=> b > k
      BY DEF IInv
    <2>2. k \in Nat /\ k * BatchSize >= NTx  BY <2>1 DEF IInv, TypeOK
    <2>3. \A b \in Batches : b <= k  BY <2>2, AllSpawned
    <2>. QED  BY <1>1, <2>1, <2>3 DEF IInv, TypeOK, Active, Batches
  <1>3. (errs > 0) <=> (failed # {})  BY <1>2 DEF IInv
  <1>4. (result = "ok") <=> (failed = {})  BY <1>3 DEF IInv, TypeOK
  <1>5. ASSUME result = "ok" PROVE signed = Txs
    <2>1. failed = {}  BY <1>4, <1>5
    <2>2. \A b \in Batches : BatchTxs(b) \subseteq signed  BY <1>2, <2>1 DEF IInv
    <2>3. Txs \subseteq signed  BY <2>2, Covered DEF BatchTxs
    <2>. QED  BY <2>3 DEF IInv, TypeOK
  <1>. QED  BY <1>4, <1>5

(* BatchSign keeps its types, for every len(transactions) and batchSize    *)
(* > 0, in both versions.                                                  *)
THEOREM TypeCorrect == Spec => []TypeOK
  <1>1. Init => IInv  BY InitIInv
  <1>2. IInv /\ [Next]_vars => IInv'  BY NextIInv
  <1>3. IInv => TypeOK  BY DEF IInv
  <1>. QED  BY <1>1, <1>2, <1>3, PTL DEF Spec

(* BatchSignTransactions, in both versions, for every len(transactions)    *)
(* and batchSize > 0: when it returns nil every transaction carries its    *)
(* signature, and it returns an error exactly when some marshalling        *)
(* failed.                                                                 *)
THEOREM ResultCorrect == Spec => []ResultFaithful
  <1>1. Init => IInv  BY InitIInv
  <1>2. IInv /\ [Next]_vars => IInv'  BY NextIInv
  <1>3. IInv => ResultFaithful  BY IInvFaithful
  <1>. QED  BY <1>1, <1>2, <1>3, PTL DEF Spec

-----------------------------------------------------------------------------
(* Refinement of ABatchSign.                                               *)

(* The transactions batch b has still to reach: the whole batch before    *)
(* its goroutine starts, pos onwards while it runs, and past pos while it *)
(* sends the error of pos.                                                 *)
Pending(b) ==
  CASE gpc[b] = "none" -> BatchTxs(b)
    [] gpc[b] = "run"  -> pos[b]..Last(b)
    [] gpc[b] = "send" -> (pos[b] + 1)..Last(b)
    [] OTHER           -> {}

(* No goroutine signs or fails a transaction twice, nor one of another     *)
(* batch: none it has still to reach has been signed or has failed.        *)
Untouched == \A b \in Batches : Pending(b) \cap (signed \cup failed) = {}

RInv == IInv /\ Untouched

(* Batches do not overlap.                                                 *)
LEMMA Disjoint ==
  ASSUME NEW b \in Batches, NEW c \in Batches, b # c
  PROVE  BatchTxs(b) \cap BatchTxs(c) = {}
  <1>1. ASSUME NEW x \in Batches, NEW y \in Batches, x < y
        PROVE  BatchTxs(x) \cap BatchTxs(y) = {}
    <2>1. x \in Nat /\ y \in Nat /\ x <= y - 1  BY <1>1 DEF Batches
    <2>2. x * BatchSize <= (y - 1) * BatchSize  BY <2>1
    <2>3. Last(x) \in Int /\ Last(x) <= x * BatchSize  BY <2>1 DEF Last
    <2>4. First(y) \in Int /\ First(y) = (y - 1) * BatchSize + 1  BY <2>1 DEF First
    <2>5. Last(x) < First(y)  BY <2>1, <2>2, <2>3, <2>4
    <2>6. First(x) \in Int /\ Last(y) \in Int  BY <2>1 DEF First, Last
    <2>. QED  BY <2>3, <2>4, <2>5, <2>6 DEF BatchTxs
  <1>. QED  BY <1>1 DEF Batches

(* A transaction of batch b is outside what any other batch has still to   *)
(* reach.                                                                  *)
LEMMA OtherBatch ==
  ASSUME NEW b \in Batches, NEW c \in Batches, b # c, NEW t \in BatchTxs(b),
         NEW from \in Int, from >= First(c)
  PROVE  t \notin from..Last(c)
  <1>1. t \notin BatchTxs(c)  BY Disjoint
  <1>2. First(c) \in Int /\ Last(c) \in Int  BY DEF First, Last, Batches
  <1>3. t \in Int  BY DEF BatchTxs, First, Last, Batches
  <1>. QED  BY <1>1, <1>2, <1>3 DEF BatchTxs

LEMMA InitUntouched == Init => Untouched
  BY DEF Init, Untouched

(* What batch c has still to reach lies in its own batch.                  *)
LEMMA PendingInBatch ==
  ASSUME IInv, NEW c \in Batches PROVE Pending(c) \subseteq BatchTxs(c)
  <1>1. CASE gpc[c] \in {"run", "send"}
    <2>1. pos[c] \in BatchTxs(c) /\ pos[c] \in Nat  BY <1>1 DEF IInv, Active, TypeOK
    <2>2. First(c) \in Int /\ Last(c) \in Int  BY DEF First, Last, Batches
    <2>. QED  BY <1>1, <2>1, <2>2 DEF Pending, BatchTxs
  <1>2. CASE gpc[c] \notin {"run", "send"}  BY <1>2 DEF Pending
  <1>. QED  BY <1>1, <1>2

(* A step of goroutine b, which handles at most its transaction pos[b],   *)
(* leaves what every other batch has still to reach untouched.             *)
LEMMA OthersUntouched ==
  ASSUME IInv, Untouched, NEW b \in Active,
         signed' \cup failed' \subseteq signed \cup failed \cup {pos[b]},
         NEW c \in Batches \ {b}, gpc'[c] = gpc[c], pos'[c] = pos[c]
  PROVE  Pending(c)' \cap (signed' \cup failed') = {}
  <1>1. Pending(c)' = Pending(c)  BY DEF Pending
  <1>2. Pending(c) \cap (signed \cup failed) = {}  BY DEF Untouched
  <1>3. pos[b] \in BatchTxs(b)  BY DEF IInv, Active
  <1>4. pos[b] \notin BatchTxs(c)  BY <1>3, Disjoint DEF Active
  <1>5. pos[b] \notin Pending(c)  BY <1>4, PendingInBatch
  <1>. QED  BY <1>1, <1>2, <1>5

(* Signing pos[b] moves the goroutine past it, or ends the batch.          *)
LEMMA SignUntouched ==
  ASSUME IInv, Untouched, NEW b \in Batches, Sign(b) PROVE Untouched'
  <1>1. b \in Active /\ gpc[b] = "run"  BY DEF Sign, Active
  <1>2. /\ signed' = signed \cup {pos[b]} /\ failed' = failed /\ Advance(b)
    BY DEF Sign
  <1>3. \A c \in Batches \ {b} : gpc'[c] = gpc[c] /\ pos'[c] = pos[c]
    BY <1>1, <1>2, MoveOn
  <1>4. pos[b] \in Nat /\ Last(b) \in Int  BY DEF IInv, TypeOK, Last, Batches
  <1>5. (pos[b]..Last(b)) \cap (signed \cup failed) = {}
    BY <1>1 DEF Untouched, Pending
  <1>6. Pending(b)' \cap (signed' \cup failed') = {}
    <2>1. CASE pos[b] = Last(b)
      <3>1. gpc'[b] = "done"  BY <1>2, <2>1 DEF Advance, IInv, TypeOK
      <3>. QED  BY <3>1 DEF Pending
    <2>2. CASE pos[b] # Last(b)
      <3>1. gpc'[b] = "run" /\ pos'[b] = pos[b] + 1
        BY <1>2, <2>2 DEF Advance, IInv, TypeOK
      <3>2. Pending(b)' = (pos[b] + 1)..Last(b)  BY <3>1 DEF Pending
      <3>. QED  BY <1>2, <1>4, <1>5, <3>2
    <2>. QED  BY <2>1, <2>2
  <1>. QED  BY <1>1, <1>2, <1>3, <1>6, OthersUntouched DEF Untouched

(* A failed marshalling of pos[b] leaves the goroutine sending its error.  *)
LEMMA SignFailsUntouched ==
  ASSUME IInv, Untouched, NEW b \in Batches, SignFails(b) PROVE Untouched'
  <1>1. b \in Active /\ gpc[b] = "run"  BY DEF SignFails, Active
  <1>2. /\ failed' = failed \cup {pos[b]} /\ signed' = signed
        /\ gpc' = [gpc EXCEPT ![b] = "send"] /\ pos' = pos
    BY DEF SignFails
  <1>3. \A c \in Batches \ {b} : gpc'[c] = gpc[c] /\ pos'[c] = pos[c]
    BY <1>2 DEF IInv, TypeOK
  <1>4. pos[b] \in Nat /\ Last(b) \in Int  BY DEF IInv, TypeOK, Last, Batches
  <1>5. (pos[b]..Last(b)) \cap (signed \cup failed) = {}
    BY <1>1 DEF Untouched, Pending
  <1>6. Pending(b)' = (pos[b] + 1)..Last(b)  BY <1>2 DEF Pending, IInv, TypeOK
  <1>7. Pending(b)' \cap (signed' \cup failed') = {}  BY <1>2, <1>4, <1>5, <1>6
  <1>. QED  BY <1>1, <1>2, <1>3, <1>7, OthersUntouched DEF Untouched

(* Sending the error changes no transaction; the goroutine then goes on    *)
(* past pos[b] (transaction.go) or returns (part_002).                     *)
LEMMA SendErrUntouched ==
  ASSUME IInv, Untouched, NEW b \in Batches, SendErr(b) PROVE Untouched'
  <1>1. gpc[b] = "send" /\ signed' = signed /\ failed' = failed  BY DEF SendErr
  <1>2. ((pos[b] + 1)..Last(b)) \cap (signed \cup failed) = {}
    BY <1>1 DEF Untouched, Pending
  <1>3. \/ gpc' = [gpc EXCEPT ![b] = "done"] /\ pos' = pos
        \/ gpc' = [gpc EXCEPT ![b] = "run"] /\ pos' = [pos EXCEPT ![b] = pos[b] + 1]
    BY DEF SendErr, Advance
  <1>4. \A c \in Batches \ {b} : gpc'[c] = gpc[c] /\ pos'[c] = pos[c]
    BY <1>3 DEF IInv, TypeOK
  <1>5. Pending(b)' \cap (signed' \cup failed') = {}
    BY <1>1, <1>2, <1>3 DEF Pending, IInv, TypeOK
  <1>6. ASSUME NEW c \in Batches \ {b} PROVE Pending(c)' = Pending(c)
    BY <1>4 DEF Pending
  <1>. QED  BY <1>1, <1>5, <1>6 DEF Untouched

(* Starting batch nb = i/batchSize + 1 puts its goroutine at its first     *)
(* transaction, none of which is handled yet.                              *)
LEMMA SpawnUntouched == IInv /\ Untouched /\ Spawn => Untouched'
  <1> SUFFICES ASSUME IInv, Untouched, Spawn PROVE Untouched'  OBVIOUS
  <1>1. UNCHANGED <<signed, failed>>  BY DEF Spawn
  <1>2. CASE next < NTx
    <2> DEFINE nb == next \div BatchSize + 1
    <2>1. PICK k \in 0..next : /\ next = k * BatchSize
                              /\ \A c \in Batches : gpc[c] = "none" <=> c > k
      BY DEF IInv
    <2>2. nb = k + 1 /\ nb \in Batches /\ First(nb) = k * BatchSize + 1
      BY <1>2, <2>1, SpawnedBatch
    <2>3. gpc[k + 1] = "none"  BY <2>1, <2>2
    <2>4. gpc' = [gpc EXCEPT ![k + 1] = "run"] /\ pos' = [pos EXCEPT ![k + 1] = First(k + 1)]
      BY <1>2, <2>2 DEF Spawn
    <2>5. gpc'[k + 1] = "run" /\ pos'[k + 1] = First(k + 1)  BY <2>2, <2>4 DEF IInv, TypeOK
    <2>6. Pending(k + 1)' = First(k + 1)..Last(k + 1)  BY <2>5 DEF Pending
    <2>7. Pending(k + 1) = First(k + 1)..Last(k + 1)  BY <2>3 DEF Pending, BatchTxs
    <2>8. ASSUME NEW c \in Batches \ {k + 1} PROVE Pending(c)' = Pending(c)
      BY <2>4 DEF Pending, IInv, TypeOK
    <2>. QED  BY <1>1, <2>2, <2>6, <2>7, <2>8 DEF Untouched
  <1>3. CASE ~(next < NTx)
    BY <1>1, <1>3 DEF Spawn, Untouched, Pending
  <1>. QED  BY <1>2, <1>3

LEMMA NextRInv == RInv /\ [Next]_vars => RInv'
  <1> SUFFICES ASSUME IInv, Untouched, [Next]_vars PROVE IInv' /\ Untouched'
    BY DEF RInv
  <1>1. IInv'  BY NextIInv
  <1> SUFFICES Untouched'  BY <1>1
  <1>2. CASE Spawn  BY <1>2, SpawnUntouched
  <1>3. CASE Wait \/ Drain  BY <1>3 DEF Wait, Drain, Untouched, Pending
  <1>4. ASSUME NEW b \in Batches, Step(b) PROVE Untouched'
    BY <1>4, SignUntouched, SignFailsUntouched, SendErrUntouched DEF Step
  <1>5. CASE UNCHANGED vars  BY <1>5 DEF vars, Untouched, Pending
  <1>. QED  BY <1>1, <1>2, <1>3, <1>4, <1>5 DEF Next

(* Once wg.Wait has returned every goroutine has: errChan holds an error   *)
(* exactly when some marshalling failed, and with none failed every        *)
(* transaction is signed.                                                  *)
LEMMA Settled ==
  ASSUME IInv, mpc \in {"drain", "done"}
  PROVE  /\ (errs > 0) <=> (failed # {})
         /\ failed = {} => signed = Txs
  <1>1. Active = {}  BY DEF IInv
  <1>2. \A b \in Batches : gpc[b] = "done"
    <2>1. PICK k \in 0..next : /\ next = k * BatchSize
                              /\ \A b \in Batches : gpc[b] = "none" <=> b > k
      BY DEF IInv
    <2>2. k \in Nat /\ k * BatchSize >= NTx  BY <2>1 DEF IInv, TypeOK
    <2>3. \A b \in Batches : b <= k  BY <2>2, AllSpawned
    <2>. QED  BY <1>1, <2>1, <2>3 DEF IInv, TypeOK, Active, Batches
  <1>3. (errs > 0) <=> (failed # {})  BY <1>2 DEF IInv
  <1>4. ASSUME failed = {} PROVE signed = Txs
    <2>1. \A b \in Batches : BatchTxs(b) \subseteq signed  BY <1>2, <1>4 DEF IInv
    <2>2. Txs \subseteq signed  BY <2>1, Covered DEF BatchTxs
    <2>. QED  BY <2>2 DEF IInv, TypeOK
  <1>. QED  BY <1>3, <1>4

(* Each step of BatchSign is a step of ABatchSign or leaves its variables  *)
(* alone: Sign is ASign(pos[b]), SignFails is AFail(pos[b]), Drain is      *)
(* AReturn, and the rest change no transaction, result or return.         *)
LEMMA StepRefines == RInv /\ [Next]_vars => [AB!ANext]_AB!avars
  <1> SUFFICES ASSUME IInv, Untouched, [Next]_vars PROVE [AB!ANext]_AB!avars
    BY DEF RInv
  <1>1. ASSUME NEW b \in Batches, gpc[b] = "run"
        PROVE  /\ mpc # "done"
               /\ pos[b] \in Txs \ (signed \cup failed)
    <2>1. b \in Active  BY <1>1 DEF Active
    <2>2. mpc # "done"  BY <2>1, ActiveCaller
    <2>3. pos[b] \in BatchTxs(b) /\ pos[b] \in Nat /\ Last(b) \in Int
      BY <2>1 DEF IInv, TypeOK, Last, Batches
    <2>4. pos[b] \in pos[b]..Last(b)  BY <2>3 DEF BatchTxs
    <2>5. pos[b] \notin signed \cup failed  BY <1>1, <2>4 DEF Untouched, Pending
    <2>. QED  BY <2>2, <2>3, <2>5, BatchInTxs
  <1>2. CASE Spawn \/ Wait  BY <1>2 DEF Spawn, Wait, AB!avars
  <1>3. CASE Drain
    <2>1. mpc = "drain" /\ mpc' = "done"  BY <1>3 DEF Drain
    <2>2. (errs > 0) <=> (failed # {})  BY <2>1, Settled
    <2>3. failed = {} => signed = Txs  BY <2>1, Settled
    <2>. QED  BY <1>3, <2>1, <2>2, <2>3 DEF Drain, AB!ANext, AB!AReturn, AB!Txs, Txs
  <1>4. ASSUME NEW b \in Batches, Sign(b) PROVE AB!ASign(pos[b])
    BY <1>1, <1>4 DEF Sign, AB!ASign, AB!Txs, Txs
  <1>5. ASSUME NEW b \in Batches, SignFails(b) PROVE AB!AFail(pos[b])
    BY <1>1, <1>5 DEF SignFails, AB!AFail, AB!Txs, Txs
  <1>6. ASSUME NEW b \in Batches, SendErr(b) PROVE UNCHANGED AB!avars
    BY <1>6 DEF SendErr, AB!avars
  <1>7. ASSUME NEW b \in Batches, Step(b) PROVE [AB!ANext]_AB!avars
    <2>1. CASE Sign(b) \/ SignFails(b)
      <3>1. pos[b] \in AB!Txs  BY <2>1, <1>1 DEF Sign, SignFails, AB!Txs, Txs
      <3>. QED  BY <2>1, <1>4, <1>5, <3>1 DEF AB!ANext
    <2>2. CASE SendErr(b)  BY <2>2, <1>6
    <2>. QED  BY <1>7, <2>1, <2>2 DEF Step
  <1>8. CASE UNCHANGED vars  BY <1>8 DEF vars, AB!avars
  <1>. QED  BY <1>2, <1>3, <1>7, <1>8 DEF Next

(* BatchSignTransactions, in both versions and for every len(transactions) *)
(* and batchSize > 0, implements its contract ABatchSign: every            *)
(* transaction is signed or fails at most once, only before the call       *)
(* returns, and the call returns once with a result the contract allows.   *)
THEOREM ContractRefinement == Spec => ImplementsContract
  <1>1. Init => RInv /\ AB!AInit
    BY InitIInv, InitUntouched DEF RInv, Init, AB!AInit
  <1>2. RInv /\ [Next]_vars => RInv'  BY NextRInv
  <1>3. RInv /\ [Next]_vars => [AB!ANext]_AB!avars  BY StepRefines
  <1>. QED  BY <1>1, <1>2, <1>3, PTL DEF Spec, ImplementsContract, AB!ASpec

=============================================================================
