---------------------------- MODULE LedgerProofs ----------------------------
(***************************************************************************)
(* Proofs about Ledger for every set of goroutines, transactions, keys and *)
(* genesis store: the type invariant, and that the concurrent write path   *)
(* with its failing Sets and Commits implements AtomicLedger.              *)
(***************************************************************************)
EXTENDS Ledger, SequenceTheorems, TLAPS

(***************************************************************************)
(* The inductive invariant.  A goroutine inside a call holds a transaction *)
(* of Txs; while it writes, it has not yet done all the Sets of it; its    *)
(* badger txn holds exactly the writes of its first n Sets; once its UTXO  *)
(* Sets are done it has done all of them (AddTransaction does none); and   *)
(* its txn holds the "transaction-" Set exactly when ProcessTransaction or *)
(* AddTransaction has reached Commit.  TypeOK alone is not inductive: the  *)
(* bound on n is what keeps the next Set's key inside the transaction.     *)
(***************************************************************************)
WorkerInv(w) ==
  \/ /\ pc[w] = "idle"
     /\ n[w] = 0
     /\ buf[w] = NoWrites
     /\ ~rec[w]
  \/ /\ pc[w] # "idle"
     /\ cur[w] \in Txs
     /\ buf[w] = Pending(cur[w], n[w])
     /\ pc[w] = "write" => op[w] # "add" /\ n[w] < NW(cur[w])
     /\ pc[w] \in {"record", "commit"} =>
          n[w] = IF op[w] = "add" THEN 0 ELSE NW(cur[w])
     /\ pc[w] = "record" => op[w] \in {"process", "add"} /\ ~rec[w]
     /\ pc[w] = "commit" => (rec[w] <=> op[w] \in {"process", "add"})
     /\ pc[w] = "write" => ~rec[w]

IInv == TypeOK /\ \A w \in Workers : WorkerInv(w)

-----------------------------------------------------------------------------
(***************************************************************************)
(* Lemmas about the writes updateUTXOsInTxn makes.                          *)
(***************************************************************************)

(* The inputs and outputs of a transaction are finite sequences.          *)
LEMMA TxLens ==
  ASSUME NEW t \in Tx
  PROVE  Len(t.inputs) \in Nat /\ Len(t.outputs) \in Nat /\ NW(t) \in Nat
<1>1. t.inputs \in Seq(UTXO) /\ t.outputs \in Seq(UTXO)
  BY DEF Tx
<1>2. Len(t.inputs) \in Nat
  BY <1>1, LenProperties
<1>3. Len(t.outputs) \in Nat
  BY <1>1, LenProperties
<1>4. \A x, y \in Nat : x + y \in Nat
  OBVIOUS
<1>. QED  BY <1>2, <1>3, <1>4, Zenon DEF NW

(* Write j of a transaction goes to a key of the store and writes a UTXO.  *)
LEMMA WriteTyped ==
  ASSUME NEW t \in Tx, NEW j \in 1..NW(t)
  PROVE  WKey(t, j) \in Keys /\ WVal(t, j) \in UTXO
<1>1. CASE j <= Len(t.inputs)
  <2>1. t.inputs[j] \in UTXO
    BY <1>1 DEF Tx, NW
  <2>2. [t.inputs[j] EXCEPT !.spent = TRUE] \in UTXO
    BY <2>1 DEF UTXO
  <2>. QED  BY <1>1, <2>1, <2>2 DEF WKey, WVal, Key, Keys, UTXO
<1>2. CASE ~(j <= Len(t.inputs))
  <2>1. j - Len(t.inputs) \in 1..Len(t.outputs)
    BY <1>2 DEF NW, Tx
  <2>2. t.outputs[j - Len(t.inputs)] \in UTXO
    BY <2>1 DEF Tx
  <2>. QED  BY <1>2, <2>2 DEF WKey, WVal, Key, Keys, UTXO
<1>. QED  BY <1>1, <1>2

(* A txn that has done no Set holds no writes.                             *)
LEMMA PendingNone ==
  ASSUME NEW t \in Tx
  PROVE  Pending(t, 0) = NoWrites
BY DEF Pending, WritesTo, NoWrites

(* The (n+1)-th Set of t replaces the pending write of its key: the last   *)
(* write of a key wins.                                                    *)
LEMMA PendingStep ==
  ASSUME NEW t \in Tx, NEW m \in Nat, m < NW(t)
  PROVE  Pending(t, m + 1) = [Pending(t, m) EXCEPT ![WKey(t, m + 1)] = WVal(t, m + 1)]
<1>. DEFINE kk == WKey(t, m + 1)
<1>0. m + 1 \in 1..NW(t)
  BY DEF NW, Tx
<1>1. kk \in Keys
  BY <1>0, WriteTyped
<1>2. ASSUME NEW k \in Keys, k # kk
      PROVE  WritesTo(t, m + 1, k) = WritesTo(t, m, k)
  BY <1>2 DEF WritesTo
<1>3. WritesTo(t, m + 1, kk) # {}
  BY DEF WritesTo
<1>4. LastWrite(t, m + 1, kk) = m + 1
  <2>. DEFINE S == WritesTo(t, m + 1, kk)
  <2>1. m + 1 \in S /\ \A i \in S : i <= m + 1
    BY DEF WritesTo
  <2>2. \E j \in S : \A i \in S : i <= j
    BY <2>1
  <2>3. LastWrite(t, m + 1, kk) \in S /\ \A i \in S : i <= LastWrite(t, m + 1, kk)
    BY <2>2 DEF LastWrite
  <2>4. S \subseteq Nat
    BY DEF WritesTo
  <2>. QED  BY <2>1, <2>3, <2>4
<1>5. ASSUME NEW k \in Keys
      PROVE  Pending(t, m + 1)[k] = [Pending(t, m) EXCEPT ![kk] = WVal(t, m + 1)][k]
  <2>1. CASE k = kk
    <3>1. Pending(t, m + 1)[kk] = WVal(t, LastWrite(t, m + 1, kk))
      BY <1>1, <1>3 DEF Pending
    <3>2. [Pending(t, m) EXCEPT ![kk] = WVal(t, m + 1)][kk] = WVal(t, m + 1)
      BY <1>1 DEF Pending
    <3>. QED  BY <2>1, <3>1, <3>2, <1>4
  <2>2. CASE k # kk
    <3>1. WritesTo(t, m + 1, k) = WritesTo(t, m, k)
      BY <1>2, <2>2
    <3>2. LastWrite(t, m + 1, k) = LastWrite(t, m, k)
      BY <3>1 DEF LastWrite
    <3>3. Pending(t, m + 1)[k] = Pending(t, m)[k]
      BY <3>1, <3>2 DEF Pending
    <3>. QED  BY <1>1, <2>2, <3>3 DEF Pending
  <2>. QED  BY <2>1, <2>2
<1>. QED  BY <1>5 DEF Pending

(* A commit that holds no writes leaves the store as it is.                *)
LEMMA OverlayNone ==
  ASSUME NEW s \in Store
  PROVE  Overlay(s, NoWrites) = s
BY DEF Overlay, NoWrites, Store

-----------------------------------------------------------------------------
(***************************************************************************)
(* IInv is an inductive invariant of Ledger.                               *)
(***************************************************************************)

(* Every goroutine starts outside any call, with an empty txn.             *)
LEMMA InitIInv == Init => IInv
<1>. SUFFICES ASSUME Init PROVE IInv
  OBVIOUS
<1>1. NoWrites \in Store
  BY DEF NoWrites, Store, Entry
<1>2. TypeOK
  BY <1>1, LedgerDataAssumption DEF Init, TypeOK, Pcs, Ops
<1>3. \A w \in Workers : WorkerInv(w)
  BY DEF Init, WorkerInv
<1>. QED  BY <1>2, <1>3 DEF IInv

(* The cache stays a cache of UTXOs when a shared range variable changes.  *)
LEMMA LoopVarTyped ==
  ASSUME TypeOK, NEW w \in Workers, NEW u \in UTXO
  PROVE  LoopVar(w, u) \in Store
BY DEF LoopVar, TypeOK, Store, Entry

(* A goroutine other than the one that steps keeps its state.              *)
LEMMA OtherWorker ==
  ASSUME NEW x, WorkerInv(x),
         pc'[x] = pc[x], op'[x] = op[x], cur'[x] = cur[x],
         n'[x] = n[x], buf'[x] = buf[x], rec'[x] = rec[x]
  PROVE  WorkerInv(x)'
BY DEF WorkerInv

(* Ending a call puts the goroutine back outside any call and leaves the  *)
(* others as they are.                                                     *)
LEMMA ResetInv ==
  ASSUME TypeOK, NEW w \in Workers, Reset(w)
  PROVE  /\ WorkerInv(w)'
         /\ \A x \in Workers \ {w} :
              /\ pc'[x] = pc[x] /\ cur'[x] = cur[x] /\ n'[x] = n[x]
              /\ buf'[x] = buf[x] /\ rec'[x] = rec[x]
         /\ pc' \in [Workers -> Pcs] /\ cur' \in [Workers -> Txs \cup {NoTx}]
         /\ n' \in [Workers -> Nat] /\ buf' \in [Workers -> Store]
         /\ rec' \in [Workers -> BOOLEAN] /\ alias' \in [Workers -> SUBSET Keys]
<1>1. NoWrites \in Store
  BY DEF NoWrites, Store, Entry
<1>. QED  BY <1>1 DEF Reset, TypeOK, WorkerInv, Pcs

(* Every action preserves IInv.                                            *)
LEMMA NextIInv == IInv /\ [Next]_vars => IInv'
<1>. SUFFICES ASSUME IInv, [Next]_vars PROVE IInv'
  OBVIOUS
<1>. USE LedgerDataAssumption, LedgerAssumption
<1>1. ASSUME NEW w \in Workers, Call(w) PROVE IInv'
  <2>1. PICK t \in Txs, o \in Ops :
          /\ op' = [op EXCEPT ![w] = o]
          /\ cur' = [cur EXCEPT ![w] = t]
          /\ pc' = [pc EXCEPT ![w] = IF o = "add" THEN "record"
                                     ELSE IF NW(t) = 0 THEN AfterWrites(o)
                                     ELSE "write"]
    BY <1>1 DEF Call
  <2>2. t \in Tx /\ NW(t) \in Nat
    <3>1. t \in Tx
      OBVIOUS
    <3>. QED  BY <3>1 DEF NW, Tx
  <2>3. WorkerInv(w)
    BY DEF IInv
  <2>4. pc[w] = "idle" /\ n[w] = 0 /\ buf[w] = NoWrites /\ ~rec[w]
    BY <1>1, <2>3 DEF Call, WorkerInv
  <2>5. buf[w] = Pending(t, 0)
    BY <2>2, <2>4, PendingNone
  <2>6. TypeOK'
    BY <1>1, <2>1 DEF IInv, TypeOK, Call, Ops, Pcs, AfterWrites
  <2>7. WorkerInv(w)'
    BY <1>1, <2>1, <2>2, <2>4, <2>5, <2>6 DEF Call, WorkerInv, TypeOK, AfterWrites, Ops
  <2>8. ASSUME NEW x \in Workers, x # w PROVE WorkerInv(x)'
    <3>1. pc'[x] = pc[x] /\ op'[x] = op[x] /\ cur'[x] = cur[x]
          /\ n'[x] = n[x] /\ buf'[x] = buf[x] /\ rec'[x] = rec[x]
      BY <1>1, <2>1, <2>8 DEF IInv, TypeOK, Call
    <3>. QED  BY <3>1, OtherWorker DEF IInv
  <2>. QED  BY <2>6, <2>7, <2>8 DEF IInv
<1>2. ASSUME NEW w \in Workers, SetUTXO(w) PROVE IInv'
  <2>. DEFINE t == cur[w]
              j == n[w] + 1
              k == WKey(t, j)
              v == WVal(t, j)
  <2>1. /\ pc[w] = "write" /\ t \in Txs /\ op[w] # "add" /\ ~rec[w]
        /\ n[w] < NW(t) /\ buf[w] = Pending(t, n[w])
    BY <1>2 DEF SetUTXO, IInv, WorkerInv
  <2>2. t \in Tx /\ n[w] \in Nat /\ j \in 1..NW(t)
    <3>1. t \in Tx
      BY <2>1
    <3>2. n[w] \in Nat
      BY DEF IInv, TypeOK
    <3>3. NW(t) \in Nat
      BY <3>1, TxLens
    <3>. QED  BY <2>1, <3>1, <3>2, <3>3
  <2>3. k \in Keys /\ v \in UTXO
    BY <2>2, WriteTyped
  <2>4. buf'[w] = Pending(t, j)
    <3>1. buf'[w] = [buf[w] EXCEPT ![k] = v]
      BY <1>2 DEF SetUTXO, IInv, TypeOK
    <3>2. Pending(t, j) = [Pending(t, n[w]) EXCEPT ![k] = v]
      BY <2>1, <2>2, PendingStep
    <3>. QED  BY <2>1, <3>1, <3>2
  <2>5. cache' \in Store
    <3>1. LoopVar(w, v) \in Store
      BY <2>3, LoopVarTyped DEF IInv
    <3>2. CASE op[w] = "process" /\ j > Len(t.inputs)
      <4>1. cache' = [LoopVar(w, v) EXCEPT ![k] = v]
        BY <1>2, <3>2 DEF SetUTXO
      <4>. QED  BY <2>3, <3>1, <4>1 DEF Store, Entry
    <3>3. CASE op[w] = "process" /\ ~(j > Len(t.inputs))
      <4>1. cache' = [cache EXCEPT ![k] = Absent]
        BY <1>2, <3>3 DEF SetUTXO
      <4>. QED  BY <2>3, <4>1 DEF IInv, TypeOK, Store, Entry
    <3>4. CASE op[w] # "process"
      BY <1>2, <3>4 DEF SetUTXO, IInv, TypeOK
    <3>. QED  BY <3>2, <3>3, <3>4
  <2>6. alias' \in [Workers -> SUBSET Keys]
    BY <1>2, <2>3 DEF SetUTXO, IInv, TypeOK
  <2>7. /\ n' = [n EXCEPT ![w] = j]
        /\ buf' = [buf EXCEPT ![w][k] = v]
        /\ pc' = [pc EXCEPT ![w] = IF j = NW(t) THEN AfterWrites(op[w]) ELSE "write"]
        /\ UNCHANGED <<utxo, txrec, op, cur, rec>>
    BY <1>2 DEF SetUTXO
  <2>8. TypeOK'
    <3>1. pc' \in [Workers -> Pcs]
      BY <2>7 DEF IInv, TypeOK, Pcs, AfterWrites
    <3>2. buf' \in [Workers -> Store]
      BY <2>3, <2>7 DEF IInv, TypeOK, Store, Entry
    <3>3. n' \in [Workers -> Nat]
      BY <2>2, <2>7 DEF IInv, TypeOK
    <3>. QED  BY <2>5, <2>6, <2>7, <3>1, <3>2, <3>3 DEF IInv, TypeOK
  <2>9. WorkerInv(w)'
    <3>1. pc'[w] = IF j = NW(t) THEN AfterWrites(op[w]) ELSE "write"
      BY <2>7 DEF IInv, TypeOK
    <3>2. n'[w] = j /\ op'[w] = op[w] /\ cur'[w] = t /\ ~rec'[w]
      BY <2>1, <2>7 DEF IInv, TypeOK
    <3>3. CASE j = NW(t)
      <4>1. pc'[w] \in {"record", "commit"} /\ pc'[w] # "idle" /\ pc'[w] # "write"
        BY <3>1, <3>3 DEF AfterWrites
      <4>2. pc'[w] = "record" => op'[w] = "process"
        BY <3>1, <3>2, <3>3 DEF AfterWrites
      <4>3. pc'[w] = "commit" => op'[w] = "update"
        BY <2>1, <3>1, <3>2, <3>3 DEF AfterWrites, IInv, TypeOK, Ops
      <4>4. /\ cur'[w] \in Txs /\ buf'[w] = Pending(cur'[w], n'[w])
            /\ op'[w] # "add" /\ n'[w] = NW(cur'[w]) /\ ~rec'[w]
        BY <2>1, <2>4, <3>2, <3>3
      <4>5. pc'[w] = "commit" => (rec'[w] <=> op'[w] \in {"process", "add"})
        <5>1. "update" \notin {"process", "add"}
          OBVIOUS
        <5>. QED  BY <4>3, <4>4, <5>1, Zenon
      <4>. QED  BY <4>1, <4>2, <4>4, <4>5, Zenon DEF WorkerInv
    <3>4. CASE j # NW(t)
      <4>1. pc'[w] = "write" /\ n'[w] < NW(cur'[w])
        BY <2>2, <3>1, <3>2, <3>4, TxLens
      <4>2. /\ cur'[w] \in Txs /\ buf'[w] = Pending(cur'[w], n'[w])
            /\ op'[w] # "add" /\ ~rec'[w]
        BY <2>1, <2>4, <3>2
      <4>. QED  BY <4>1, <4>2 DEF WorkerInv
    <3>. QED  BY <3>3, <3>4
  <2>10. ASSUME NEW x \in Workers, x # w PROVE WorkerInv(x)'
    <3>1. pc'[x] = pc[x] /\ op'[x] = op[x] /\ cur'[x] = cur[x]
          /\ n'[x] = n[x] /\ buf'[x] = buf[x] /\ rec'[x] = rec[x]
      BY <2>7, <2>10 DEF IInv, TypeOK
    <3>. QED  BY <3>1, OtherWorker DEF IInv
  <2>. QED  BY <2>8, <2>9, <2>10 DEF IInv
<1>3. ASSUME NEW w \in Workers, SetRecord(w) PROVE IInv'
  <2>1. /\ pc[w] = "record" /\ cur[w] \in Txs /\ buf[w] = Pending(cur[w], n[w])
        /\ op[w] \in {"process", "add"}
        /\ n[w] = IF op[w] = "add" THEN 0 ELSE NW(cur[w])
    BY <1>3 DEF SetRecord, IInv, WorkerInv
  <2>2. /\ rec' = [rec EXCEPT ![w] = TRUE]
        /\ pc' = [pc EXCEPT ![w] = "commit"]
        /\ UNCHANGED <<utxo, txrec, cache, op, cur, n, buf, alias>>
    BY <1>3 DEF SetRecord
  <2>3. TypeOK'
    BY <2>2 DEF IInv, TypeOK, Pcs
  <2>4. WorkerInv(w)'
    <3>1. pc'[w] = "commit" /\ rec'[w] /\ op'[w] = op[w] /\ cur'[w] = cur[w]
          /\ n'[w] = n[w] /\ buf'[w] = buf[w]
      BY <2>2 DEF IInv, TypeOK
    <3>. QED  BY <2>1, <3>1 DEF WorkerInv
  <2>5. ASSUME NEW x \in Workers, x # w PROVE WorkerInv(x)'
    <3>1. pc'[x] = pc[x] /\ op'[x] = op[x] /\ cur'[x] = cur[x]
          /\ n'[x] = n[x] /\ buf'[x] = buf[x] /\ rec'[x] = rec[x]
      BY <2>2, <2>5 DEF IInv, TypeOK
    <3>. QED  BY <3>1, OtherWorker DEF IInv
  <2>. QED  BY <2>3, <2>4, <2>5 DEF IInv
<1>4. ASSUME NEW w \in Workers, SetFails(w) PROVE IInv'
  <2>1. cache' \in Store
    <3>1. CASE pc[w] = "write" /\ op[w] = "process" /\ n[w] + 1 > Len(cur[w].inputs)
      <4>1. cur[w] \in Tx /\ n[w] + 1 \in 1..NW(cur[w])
        <5>1. cur[w] \in Tx /\ n[w] < NW(cur[w]) /\ n[w] \in Nat
          BY <3>1 DEF IInv, WorkerInv, TypeOK
        <5>. QED  BY <5>1, TxLens
      <4>2. WVal(cur[w], n[w] + 1) \in UTXO
        BY <4>1, WriteTyped
      <4>. QED  BY <1>4, <3>1, <4>2, LoopVarTyped DEF SetFails, IInv
    <3>2. CASE ~(pc[w] = "write" /\ op[w] = "process" /\ n[w] + 1 > Len(cur[w].inputs))
      BY <1>4, <3>2 DEF SetFails, IInv, TypeOK
    <3>. QED  BY <3>1, <3>2
  <2>2. Reset(w) /\ UNCHANGED <<utxo, txrec, op>>
    BY <1>4 DEF SetFails
  <2>3. TypeOK'
    BY <2>1, <2>2, ResetInv DEF IInv, TypeOK
  <2>4. ASSUME NEW x \in Workers, x # w PROVE WorkerInv(x)'
    BY <2>2, <2>4, ResetInv, OtherWorker DEF IInv, TypeOK
  <2>. QED  BY <2>2, <2>3, <2>4, ResetInv DEF IInv
<1>5. ASSUME NEW w \in Workers, Commit(w) PROVE IInv'
  <2>1. cur[w] \in Tx
    BY <1>5 DEF Commit, IInv, WorkerInv
  <2>2. utxo' \in Store
    BY <1>5 DEF Commit, IInv, TypeOK, Overlay, Store
  <2>3. txrec' \subseteq TxIds
    BY <1>5, <2>1 DEF Commit, IInv, TypeOK, Tx
  <2>4. Reset(w) /\ UNCHANGED <<cache, op>>
    BY <1>5 DEF Commit
  <2>5. TypeOK'
    BY <2>2, <2>3, <2>4, ResetInv DEF IInv, TypeOK
  <2>6. ASSUME NEW x \in Workers, x # w PROVE WorkerInv(x)'
    BY <2>4, <2>6, ResetInv, OtherWorker DEF IInv, TypeOK
  <2>. QED  BY <2>4, <2>5, <2>6, ResetInv DEF IInv
<1>6. ASSUME NEW w \in Workers, CommitFails(w) PROVE IInv'
  <2>1. Reset(w) /\ UNCHANGED <<utxo, txrec, cache, op>>
    BY <1>6 DEF CommitFails
  <2>2. TypeOK'
    BY <2>1, ResetInv DEF IInv, TypeOK
  <2>3. ASSUME NEW x \in Workers, x # w PROVE WorkerInv(x)'
    BY <2>1, <2>3, ResetInv, OtherWorker DEF IInv, TypeOK
  <2>. QED  BY <2>1, <2>2, <2>3, ResetInv DEF IInv
<1>7. CASE UNCHANGED vars
  BY <1>7 DEF vars, IInv, TypeOK, WorkerInv
<1>. QED  BY <1>1, <1>2, <1>3, <1>4, <1>5, <1>6, <1>7 DEF Next

(* Type correctness of the write path: the store, the cache and every      *)
(* goroutine's call state keep their types under any interleaving of       *)
(* ProcessTransaction, UpdateUTXOs and AddTransaction and any failures.    *)
THEOREM TypeCorrect == Spec => []TypeOK
<1>1. Spec => []IInv
  BY InitIInv, NextIInv, PTL DEF Spec
<1>. QED  BY <1>1, PTL DEF IInv

-----------------------------------------------------------------------------
(***************************************************************************)
(* Ledger implements AtomicLedger.  The mapping is the identity on the     *)
(* store: the writes pending in an open badger txn are invisible, and a    *)
(* successful Commit is the one step at which the call takes effect.       *)
(***************************************************************************)

(* The data operators seen through the instance are the ones Ledger uses. *)
LEMMA SameWrites ==
  ASSUME NEW s, NEW t
  PROVE  AL!Overlay(s, AL!Pending(t, AL!NW(t))) = Overlay(s, Pending(t, NW(t)))
BY DEF AL!Overlay, Overlay, AL!Pending, Pending, AL!NW, NW, AL!WritesTo, WritesTo,
       AL!LastWrite, LastWrite, AL!WKey, WKey, AL!WVal, WVal, AL!Key, Key, AL!Keys, Keys

(* A successful Commit applies a whole call, every other step leaves the  *)
(* store alone.                                                            *)
LEMMA StepRefines == IInv /\ [Next]_vars => [AL!ANext]_<<utxo, txrec>>
<1>. SUFFICES ASSUME IInv, [Next]_vars PROVE [AL!ANext]_<<utxo, txrec>>
  OBVIOUS
<1>. USE LedgerDataAssumption
<1>1. ASSUME NEW w \in Workers, Commit(w) PROVE AL!ANext
  <2>. DEFINE t == cur[w]
  <2>1. /\ t \in Txs /\ buf[w] = Pending(t, n[w])
        /\ n[w] = IF op[w] = "add" THEN 0 ELSE NW(t)
        /\ (rec[w] <=> op[w] \in {"process", "add"})
        /\ op[w] \in Ops
    BY <1>1 DEF Commit, IInv, WorkerInv, TypeOK
  <2>2. /\ utxo' = Overlay(utxo, buf[w])
        /\ txrec' = IF rec[w] THEN txrec \cup {t.id} ELSE txrec
    BY <1>1 DEF Commit
  <2>3. CASE op[w] = "process"
    <3>1. rec[w] /\ n[w] = NW(t)
      BY <2>1, <2>3
    <3>2. utxo' = Overlay(utxo, Pending(t, NW(t))) /\ txrec' = txrec \cup {t.id}
      BY <2>1, <2>2, <3>1
    <3>3. AL!AProcess(t)
      BY <3>2, SameWrites DEF AL!AProcess
    <3>. QED  BY <2>1, <3>3 DEF AL!ANext
  <2>4. CASE op[w] = "update"
    <3>1. ~rec[w] /\ n[w] = NW(t)
      BY <2>1, <2>4
    <3>2. utxo' = Overlay(utxo, Pending(t, NW(t))) /\ txrec' = txrec
      BY <2>1, <2>2, <3>1
    <3>3. AL!AUpdate(t)
      BY <3>2, SameWrites DEF AL!AUpdate
    <3>. QED  BY <2>1, <3>3 DEF AL!ANext
  <2>5. CASE op[w] = "add"
    <3>1. buf[w] = NoWrites
      BY <2>1, <2>5, PendingNone
    <3>2. utxo' = utxo
      BY <2>2, <3>1, OverlayNone DEF IInv, TypeOK
    <3>3. AL!AAdd(t)
      BY <2>1, <2>2, <2>5, <3>2 DEF AL!AAdd
    <3>. QED  BY <2>1, <3>3 DEF AL!ANext
  <2>. QED  BY <2>1, <2>3, <2>4, <2>5 DEF Ops
<1>2. ASSUME NEW w \in Workers,
             Call(w) \/ SetUTXO(w) \/ SetRecord(w) \/ SetFails(w) \/ CommitFails(w)
      PROVE  UNCHANGED <<utxo, txrec>>
  BY <1>2 DEF Call, SetUTXO, SetRecord, SetFails, CommitFails
<1>3. CASE UNCHANGED vars
  BY <1>3 DEF vars
<1>. QED  BY <1>1, <1>2, <1>3 DEF Next

(* Atomicity of the write path: with any number of goroutines calling      *)
(* ProcessTransaction, UpdateUTXOs and AddTransaction concurrently, and    *)
(* any txn.Set or txn.Commit failing, the store moves only by the whole    *)
(* effect of one call (Ledger refines AtomicLedger).                       *)
THEOREM Refinement == Spec => Atomicity
<1>1. Init => AL!AInit
  BY DEF Init, AL!AInit
<1>2. Spec => []IInv
  BY InitIInv, NextIInv, PTL DEF Spec
<1>. QED  BY <1>1, <1>2, StepRefines, PTL DEF Spec, Atomicity, AL!ASpec, AL!avars

=============================================================================
