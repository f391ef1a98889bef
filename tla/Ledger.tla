------------------------------- MODULE Ledger -------------------------------
(***************************************************************************)
(* The write path of BlockchainDB (src/unnamed/part_004) as it runs: any   *)
(* number of goroutines (Workers) call ProcessTransaction, UpdateUTXOs or  *)
(* AddTransaction at once.  Each call owns a badger read-write txn whose   *)
(* Sets are buffered until Commit; the txns never read, so badger's        *)
(* conflict detection never rejects one.  Every txn.Set may fail (for      *)
(* example ErrTxnTooBig) and so may Commit; either failure discards the    *)
(* txn.  ProcessTransaction also updates globalUTXOCache at each Set,      *)
(* before the txn commits.  Before Go 1.22 the range variable `output` is  *)
(* one variable per loop, so every cache entry added through &output       *)
(* points at the output the loop holds last (LoopVarPerIteration = FALSE). *)
(***************************************************************************)
EXTENDS LedgerData

CONSTANTS
  Workers,              \* goroutines calling into BlockchainDB
  LoopVarPerIteration   \* TRUE: Go >= 1.22 range semantics

ASSUME LedgerAssumption ==
  /\ LoopVarPerIteration \in BOOLEAN
  /\ Absent \notin Tx

(* The local transaction of a goroutine that is not inside a call.         *)
NoTx == Absent

Ops == {"process", "update", "add"}
Pcs == {"idle", "write", "record", "commit"}

VARIABLES
  utxo,    \* the "utxo-" entries of the badger store
  txrec,   \* ids under a "transaction-" key
  cache,   \* globalUTXOCache: key -> the UTXO its *UTXO points at
  pc,      \* where each goroutine is in its call
  op,      \* which call it is in
  cur,     \* the transaction it was called with
  n,       \* UTXO Sets done so far in updateUTXOsInTxn / UpdateUTXOs
  buf,     \* UTXO writes pending in its badger txn
  rec,     \* whether its txn holds a pending "transaction-" Set
  alias    \* cache keys whose value is &output of its current loop

vars == <<utxo, txrec, cache, pc, op, cur, n, buf, rec, alias>>

TypeOK ==
  /\ utxo \in Store
  /\ txrec \subseteq TxIds
  /\ cache \in Store
  /\ pc \in [Workers -> Pcs]
  /\ op \in [Workers -> Ops]
  /\ cur \in [Workers -> Txs \cup {NoTx}]
  /\ n \in [Workers -> Nat]
  /\ buf \in [Workers -> Store]
  /\ rec \in [Workers -> BOOLEAN]
  /\ alias \in [Workers -> SUBSET Keys]

Init ==
  /\ utxo = Genesis
  /\ txrec = {}
  /\ cache = NoWrites
  /\ pc = [w \in Workers |-> "idle"]
  /\ op = [w \in Workers |-> "process"]
  /\ cur = [w \in Workers |-> NoTx]
  /\ n = [w \in Workers |-> 0]
  /\ buf = [w \in Workers |-> NoWrites]
  /\ rec = [w \in Workers |-> FALSE]
  /\ alias = [w \in Workers |-> {}]

(* Where a goroutine goes once its UTXO Sets are done: ProcessTransaction *)
(* goes on to addTransactionInTxn, UpdateUTXOs to txn.Commit.              *)
AfterWrites(o) == IF o = "process" THEN "record" ELSE "commit"

(* The cache once the range variable of w's output loop holds u: before    *)
(* Go 1.22 every entry added through &output in this loop now shows u.     *)
LoopVar(w, u) ==
  IF LoopVarPerIteration THEN cache
  ELSE [k \in Keys |-> IF k \in alias[w] THEN u ELSE cache[k]]

(* End of a call: the txn is committed or discarded and its state dropped. *)
Reset(w) ==
  /\ pc' = [pc EXCEPT ![w] = "idle"]
  /\ cur' = [cur EXCEPT ![w] = NoTx]
  /\ n' = [n EXCEPT ![w] = 0]
  /\ buf' = [buf EXCEPT ![w] = NoWrites]
  /\ rec' = [rec EXCEPT ![w] = FALSE]
  /\ alias' = [alias EXCEPT ![w] = {}]

(* A call starts: NewTransaction(true) (or DB.Update) opens a txn.          *)
Call(w) ==
  /\ pc[w] = "idle"
  /\ \E t \in Txs, o \in Ops :
       /\ op' = [op EXCEPT ![w] = o]
       /\ cur' = [cur EXCEPT ![w] = t]
       /\ pc' = [pc EXCEPT ![w] = IF o = "add" THEN "record"
                                  ELSE IF NW(t) = 0 THEN AfterWrites(o)
                                  ELSE "write"]
  /\ UNCHANGED <<utxo, txrec, cache, n, buf, rec, alias>>

(* Mutant of SetUTXO: each Set is committed on its own, as CreateAndStoreUTXO *)
(* does with one DB.Update per UTXO, instead of joining the call's txn.    *)
SetUTXOAutoCommit(w) ==
  LET t == cur[w]
      j == n[w] + 1
  IN
  /\ pc[w] = "write"
  /\ n' = [n EXCEPT ![w] = j]
  /\ utxo' = [utxo EXCEPT ![WKey(t, j)] = WVal(t, j)]
  /\ pc' = [pc EXCEPT ![w] = IF j = NW(t) THEN AfterWrites(op[w]) ELSE "write"]
  /\ UNCHANGED <<txrec, cache, op, cur, buf, rec, alias>>

(* One iteration of the input or output loop whose txn.Set succeeds.  In   *)
(* ProcessTransaction an input Set is followed by Remove of its cache key, *)
(* an output Set by Add(key, &output).                                     *)
SetUTXO(w) ==
  LET t == cur[w]
      j == n[w] + 1
      k == WKey(t, j)
      v == WVal(t, j)
      isOut == j > Len(t.inputs)
  IN
  /\ pc[w] = "write"
  /\ n' = [n EXCEPT ![w] = j]
  /\ buf' = [buf EXCEPT ![w][k] = v]
  /\ pc' = [pc EXCEPT ![w] = IF j = NW(t) THEN AfterWrites(op[w]) ELSE "write"]
  /\ IF op[w] = "process"
       THEN /\ cache' = IF isOut THEN [LoopVar(w, v) EXCEPT ![k] = v]
                                 ELSE [cache EXCEPT ![k] = Absent]
            /\ alias' = [x \in Workers |->
                           IF x = w /\ isOut /\ ~LoopVarPerIteration
                             THEN alias[x] \cup {k} ELSE alias[x] \ {k}]
       ELSE UNCHANGED <<cache, alias>>
  /\ UNCHANGED <<utxo, txrec, op, cur, rec>>

(* The Set of the "transaction-" record: addTransactionInTxn in            *)
(* ProcessTransaction, the only Set of AddTransaction.                     *)
SetRecord(w) ==
  /\ pc[w] = "record"
  /\ rec' = [rec EXCEPT ![w] = TRUE]
  /\ pc' = [pc EXCEPT ![w] = "commit"]
  /\ UNCHANGED <<utxo, txrec, cache, op, cur, n, buf, alias>>

(* A txn.Set returns an error: the call returns it and the txn is          *)
(* discarded.  The cache changes already made stay; an output iteration    *)
(* has already copied its element into a shared range variable.            *)
SetFails(w) ==
  LET t == cur[w]
      j == n[w] + 1
  IN
  /\ pc[w] \in {"write", "record"}
  /\ cache' = IF pc[w] = "write" /\ op[w] = "process" /\ j > Len(t.inputs)
                THEN LoopVar(w, WVal(t, j)) ELSE cache
  /\ Reset(w)
  /\ UNCHANGED <<utxo, txrec, op>>

(* Mutant of Commit: the record is stored under the whole transaction       *)
(* instead of its ID.                                                      *)
CommitWholeTx(w) ==
  /\ pc[w] = "commit"
  /\ utxo' = Overlay(utxo, buf[w])
  /\ txrec' = IF rec[w] THEN txrec \cup {cur[w]} ELSE txrec
  /\ Reset(w)
  /\ UNCHANGED <<cache, op>>

(* txn.Commit succeeds: all pending writes become visible at once.         *)
Commit(w) ==
  /\ pc[w] = "commit"
  /\ utxo' = Overlay(utxo, buf[w])
  /\ txrec' = IF rec[w] THEN txrec \cup {cur[w].id} ELSE txrec
  /\ Reset(w)
  /\ UNCHANGED <<cache, op>>

(* txn.Commit returns an error: nothing of the txn is applied.             *)
CommitFails(w) ==
  /\ pc[w] = "commit"
  /\ Reset(w)
  /\ UNCHANGED <<utxo, txrec, cache, op>>

Next ==
  \E w \in Workers :
    Call(w) \/ SetUTXO(w) \/ SetRecord(w) \/ SetFails(w)
    \/ Commit(w) \/ CommitFails(w)

Spec == Init /\ [][Next]_vars

-----------------------------------------------------------------------------
(***************************************************************************)
(* Properties.                                                             *)
(***************************************************************************)

(* Refinement: under concurrent calls and failing Sets and Commits, the    *)
(* store only ever moves by the whole effect of one ProcessTransaction,    *)
(* UpdateUTXOs or AddTransaction call (the badger txn of each call).       *)
AL == INSTANCE AtomicLedger

Atomicity == AL!ASpec

(* Spec 4.1: the cache is never the source of truth and is dropped on a    *)
(* write that cannot be confirmed; so whenever no call is in flight every  *)
(* entry globalUTXOCache holds is the entry the store holds.  It is        *)
(* threatened by the Add/Remove in updateUTXOsInTxn happening before the   *)
(* txn commits, by failed Sets and Commits, and by commit order.           *)
CacheCoherent ==
  (\A w \in Workers : pc[w] = "idle") =>
    \A k \in Keys : cache[k] # Absent => cache[k] = utxo[k]

(* Spec 3 and 8: a UTXO that is spent stays spent forever; no call of the  *)
(* write path may turn a spent entry of the store back into an unspent one *)
(* or remove it.                                                           *)
SpentStaysSpent ==
  [][\A k \in Keys :
       (utxo[k] # Absent /\ utxo[k].spent) =>
         (utxo'[k] # Absent /\ utxo'[k].spent)]_vars

=============================================================================
