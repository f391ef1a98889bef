# Verification models for thrylos

TLA+ models of the thrylos node (Go, `src/`): what is modelled, what TLC
checks on small instances, and what TLAPS proves for every instance.

## 1. The system

Thrylos is a UTXO blockchain node. The repository holds these parts:

| Part | Source | What it does |
|---|---|---|
| BlockchainDB write path | `src/unnamed/part_004` (package database) | `ProcessTransaction`, `updateUTXOsInTxn`, `addTransactionInTxn`, `UpdateUTXOs`, `MarkUTXOAsSpent`, `addNewUTXO`, `AddTransaction`. Each call writes UTXO records `utxo-<id>-<index>` and transaction records `transaction-<id>` in a badger read-write txn. `ProcessTransaction` also updates `globalUTXOCache` |
| BlockchainDB reads | same file | `GetUTXOs*`, `GetBalance`, `GetLastBlockIndex`, `GetLastBlockData`, `RetrieveBlock`, `InsertBlock`, the key store |
| Block producer | `src/unnamed/part_004` (package chain) | `ModernBlockProducer`: a ticker goroutine, `shouldProduceBlock`, `tryProduceBlock` with a CAS on `isProducing`, and `Stop` |
| Transaction validation and batches | `src/unnamed/part_002`, `src/shared/transaction.go` | `ValidateTransaction`, signing and verification, `ParallelVerifyTransactions`, `processTransactionsBatch`, `BatchSignTransactions` |
| Node | `src/core/tps_test.go` | Votes and `CountVotes`, `SelectValidator`, the pending pool, `SyncBlockchain` and the HTTP handlers |
| Staking | `src/core/staking_test.go` (tests only) | Stake, unstake and reward |
| Node process and gRPC service | `src/cmd/thrylosnode/main.go`, `src/transactions_grpc.pb.go` | Two versions of `main` (lines 61-225 and 280-450): environment checks, each a `log.Fatal`, HTTP server goroutines, the gRPC listener, `RegisterBlockchainServiceServer`, `s.Serve`; `server.SubmitTransaction`; the generated client stubs, handlers and `UnimplementedBlockchainServiceServer` |
| Crypto, encodings, generated flatbuffers | several | AES, Ed25519, protobuf and flatbuffers |

The components interact as follows:
- The producer drains the blockchain's pending pool into a block.
- Storing a block's transactions goes through the BlockchainDB write path.
- The node's handlers feed the pool.
- gRPC clients reach the store through `server.SubmitTransaction` and `db.AddTransaction`, one call of the write path.
- A client signs a transaction (`transaction.go`) and a node verifies it with `VerifyTransaction`.

## 2. Modules

| Module | Models | State ↔ code |
|---|---|---|
| `LedgerData` | `shared.UTXO`, the `utxo-%s-%d` key, `shared.Transaction`, and the sequence of `txn.Set` calls `updateUTXOsInTxn`/`UpdateUTXOs` make. Also badger's pending-write buffer (last write wins) and `Commit` as an overlay | The data only |
| `AtomicLedger` | The abstract promise of the write path: each call takes effect wholly, in one step, or not at all | `utxo` is the set of `utxo-` entries; `txrec` is the set of `transaction-` ids |
| `Ledger` | The write path as it runs: any number of goroutines (`Workers`) in those calls at once | `pc/op/cur/n` give each goroutine's place in its call. `buf` is its badger txn's pending writes; `rec` says whether the record Set is pending. `cache` is `globalUTXOCache`; `alias` holds the cache entries that point at the shared `&output` range variable (before Go 1.22) |
| `Producer` | `ModernBlockProducer` with any number of `Start` calls, `Stop`, the ticker and the pool | `isProducing` is the atomic flag. `elapsed` is the time since `lastBlockTime`, capped at `TargetBlockTime`. `lpc` is each goroutine's place in `shouldProduceBlock`/`tryProduceBlock`; `snapTime` is the time it read. `pending`, `chain` and `dropped` are the pool, the blocks and the rejected transactions |
| `Node` | `tps_test.go`'s node: `VoteForBlock`, the `/vote` and `/transaction` handlers and `SubmitTransactionHandler` (each request on its own goroutine, `Handlers`), `AddPendingTransaction`, and the `CountVotes` goroutine started by `Node.Start` | `votes`/`pool` are `node.Votes`/`node.PendingTransactions`; `hpc/hmsg/hsnap` hold a handler between the read and the write of its unlocked `append`; `cpc/chash` hold CountVotes between its scan and its clear; `net` holds posted votes and `nposts` counts the posts, bounded by `MaxPosts`; `accepted`, `cleared`, `admitted`, `adopted` are history variables |
| `ABatchSign` | The contract of `BatchSignTransactions`: each transaction is signed or fails at most once, in one step, before the call returns; the call returns once, nil only when all are signed, an error exactly when one failed | `signed`, `failed`, `result`; `returned` is `mpc = "done"` of `BatchSign` |
| `BatchSign` | Both `BatchSignTransactions` (part_002: `ErrorContinues = FALSE`; transaction.go: `TRUE`) | `mpc/next/wg` for the caller, `gpc/pos` for each batch goroutine, `errs` the errors buffered in `errChan`, `failed`/`signed`, `result` |
| `BatchProcess` | `processTransactionsBatch` and `processSingleTransaction` (part_002) | `mpc/sentN` for the caller, `chan`/`closed` for `txChannel`, `wpc/wtx` for the workers, `pending`/`committed` for the store txn |
| `NodeServer` | The node process: the steps of either `main` (`MainVersion`), the HTTP goroutines, the gRPC server, `Clients` calling the generated stubs, and `server.SubmitTransaction`. `db.AddTransaction` is one atomic step that writes the record or nothing, which `LedgerProofs` proves of the write path (`AAdd`) | `up` is the process; `mpc` is main's step; `httpUp`, `listening`, `registered` and `serving` are the HTTP goroutines, `net.Listen`, the registration and `s.Serve`. `store` is the `transaction-` records (on disk, kept after an exit). `call[c]` is a client's current call: method, request, where it is and its status code. `wrote` records that this call committed |
| `TxSign` | `transaction.go`'s signing and verification: `CreateAndSignTransaction`, `SignTransaction`, the per-transaction body of `BatchSignTransactionsConcurrently`, the three conversions, `VerifyTransactionSignature` and `VerifyTransaction`, as operators; a client signs with its own key and a node verifies | `held` is the `thrylos.Transaction` the node received; `verdict` is `VerifyTransaction`'s result |
| `LedgerProofs` | Proofs about `Ledger` | |
| `NodeServerProofs` | Proofs about `NodeServer` | |
| `BatchSignProofs` | Proofs about `BatchSign`, and its refinement of `ABatchSign` | |
| `ProducerProofs` | Proofs about `Producer` with one ticker goroutine | |
| `NodeProofs` | Proofs about `Node` | |
| `MCLedger`, `MCProducer`, `MCNode`, `MCNodeServer`, `MCTxSign` | The model values and small instances for TLC | |

Actions of `Ledger` and the code they model (all in `part_004`):

| Action | Code it models |
|---|---|
| `Call` | `NewTransaction(true)` / `DB.Update` |
| `SetUTXO` | One iteration of the input or output loop whose `txn.Set` succeeds. In `ProcessTransaction` this includes the cache `Remove`/`Add` that follows it |
| `SetRecord` | `addTransactionInTxn` or the Set of `AddTransaction` |
| `SetFails` | Any `txn.Set` returning an error: the call returns and the txn is discarded, but the cache changes stay |
| `Commit` | A successful `txn.Commit` |
| `CommitFails` | A `txn.Commit` returning an error |

Actions of `Producer`:

| Action | Code it models |
|---|---|
| `Start` | `Start`: a new ticker goroutine |
| `Advance` | Time passing; a tick is buffered in `ticker.C` |
| `Receive` | `for range ticker.C` |
| `LoadFlag`, `ReadTime`, `ReadCount` | The three separate reads of `shouldProduceBlock` |
| `CAS` | `isProducing.CompareAndSwap` |
| `Drain`, `Apply`, `ApplyFails` | `ProcessPendingTransactions`. Its body is not in the repository, so it is modelled from the design: it takes at most `MaxTransactions` from the pool head, drops invalid ones, and either appends a block or, on error, puts the batch back at the head as spec 4.4 says. Only the error return of `tryProduceBlock` (part_004:94-98: log, return, the deferred release) is code |
| `Stamp` | `lastBlockTime = time.Now()` |
| `Release` | The deferred `isProducing.Store(false)` |
| `Stop` | `Stop` |
| `Admit` | A transaction entering the pool |

Actions of `NodeServer`:

| Action | Code it models |
|---|---|
| `Advance` | The next step of `main` (`MainV1`/`MainV2`). `StepCheck` stands for the checks that call `log.Fatal` on failure (env, wasm, AES key, `NewBlockchain`, integrity, `InitializeDatabase`, the HTTP `net.Listen`, `loadCertificate`, `loadTLSCredentials`). `StepHTTP` is `go http.Serve` or `setupServers`. `StepListen` is the gRPC `net.Listen`, then `RegisterBlockchainServiceServer`. `StepServe` is `s.Serve`, which blocks |
| `HTTPFatal` | `http.Serve`/`ListenAndServe` returns an error in its goroutine: `log.Fatalf` ends the process |
| `ServeFails` | `s.Serve` returns an error: `log.Fatalf` |
| `Call` | A generated client stub's `Invoke` |
| `ConnFail` | `Invoke` returns Unavailable: nothing listens, or the process died during the call |
| `Dispatch` | grpc-go takes the call. An unregistered service or an `Unimplemented…` method answers Unimplemented; otherwise `_BlockchainService_*_Handler` decodes the request (Internal on failure) and, with no interceptor (`grpc.NewServer` gets none), calls the method |
| `Submit` | `server.SubmitTransaction`: InvalidArgument for a nil transaction; otherwise `AddTransaction` commits, or fails with Internal |
| `Reply` | The success response |

## 3. Runs

| Run | Config | Expect | What it shows |
|---|---|---|---|
| `ledger` | `MCLedger.cfg` | pass | Two goroutines, transactions G→T1→T2, every Set and Commit may fail. `TypeOK`, and `Atomicity`: `Ledger` implements `AtomicLedger` under the identity mapping on `utxo`, `txrec` |
| `ledger_cache` | `MCLedger_CacheCoherent.cfg` | violation | `CacheCoherent` fails in 4 steps: a Set fails after the cache `Add` |
| `ledger_resurrect` | `MCLedger_SpentStaysSpent.cfg` | violation | `SpentStaysSpent` fails. T1 and T2 run at once; T2 commits its spend of T1's output, then T1 commits and writes that output back as unspent |
| `producer` | `MCProducer.cfg` | pass | One `Start`, `Stop` at any time, failing block application. `BlockSpacing`: blocks are at least `TargetBlockTime` apart. `EventuallyIncluded`: every admitted transaction ends in a block or dropped. It needs every return path of `tryProduceBlock` to release `isProducing` |
| `producer_stop` | `MCProducer_StopHalts.cfg` | violation | `Stop` does not stop the goroutine |
| `node` | `MCNode.cfg` | pass | Three stakeholders (1500, 1000, 500; minimum 1000, so two vote), two competing hashes, two handler goroutines, two submissions, three posts of `VoteForBlock` (a validator may post the same vote twice). `TypeOK`: the tally, the pool and the decided hashes keep their types through every interleaving. `AdoptedHasMajority` is not a property of this run: it fails (see §5) |
| `node_readopt` | `MCNode_AdoptedOnce.cfg` | violation | a handler that read `node.Votes` before `CountVotes` cleared it writes the cleared votes back; the block is adopted twice |
| `batch_sign` | `MCBatchSign.cfg` | pass | part_002 version, five transactions in batches of two: it always returns (`Terminates`, under weak fairness of every goroutine) and returns nil exactly when every transaction is signed (`ResultFaithful`). `ImplementsContract`: it implements `ABatchSign` under the mapping `returned <- (mpc = "done")`, so the batches split the transactions and none is signed or failed twice |
| `batch_process` | `MCBatchProcess_Returns.cfg` | violation | `processTransactionsBatch` never returns: `txChannel` is closed only by a defer after `wg.Wait` |
| `node_server` | `MCNodeServer.cfg` | pass | First `main`, two clients with two calls each, calling `SubmitTransaction` or `GetBlock` (standing for the seven unimplemented methods) with a good transaction, a nil one or undecodable bytes; every check, the listener, the HTTP server and `Serve` may fail. `SubmitImplemented`: a `SubmitTransaction` is never answered Unimplemented. `AnswerMatchesEffect`: success means this call's record is in the store, and InvalidArgument, Internal or Unimplemented mean it wrote nothing. `CallsAnswered`: every call is answered |
| `node_server_v2` | `MCNodeServer_V2.cfg` | violation | Second `main`: `s.Serve` runs before the registration and never returns except into `log.Fatalf`, so `SubmitTransaction` answers Unimplemented |
| `tx_sign` | `MCTxSign.cfg` | violation | Spec 8's round trip `verify(sign(T, k), pub(k)) == ok` fails on every signing route. TLC's trace takes `CreateAndSignTransaction`, whose transaction reaches the node with no inputs. `SignTransaction` and `BatchSignTransactionsConcurrently` give `bad_signature`: the verifier marshals the signature with the message |

The `node` and `batch_*` configurations turn deadlock checking off: an idle
node with every bounded request served, and a batch call that has returned,
have nothing left to do; `batch_process` is a liveness violation by design.
The `node_server` runs turn it off too: a node that serves, or has exited,
and clients done with their calls have nothing left to do.

Three properties are stated in the modules without a run of their own; each
fails on its model:
- `AtMostOneInFlight` (`Producer`): `Stop` while a production is in flight, then a second `Start`, gives two productions.
- `NothingLost` (`Node`): two racing appends lose one vote or transaction.
- `Terminates` of `BatchSign` with `ErrorContinues = TRUE` (transaction.go): more failures than `len/batchSize + 1` block a goroutine on `errChan`.

Each is a cfg away (`INVARIANT AtMostOneInFlight` with `Loops = {l1, l2}`; `INVARIANT NothingLost`; `ErrorContinues = TRUE`). Their root causes are shown by `producer_stop` and `node_readopt`; the third needs `proto.Marshal` to fail more often than the channel holds.

**Bounds.** The ledger instance has three transaction ids, two indices, two owners, three amounts and two workers:
- G's output is spent by T1.
- T1 makes two outputs, one spent by T2.
- So the same key is written by two calls, the same call may write a key twice (T2's input and output), and every failure point is reached.

The producer instance has three transactions, one of them invalid, with `TargetBlockTime = 2`, `MinTransactions = 1` and `MaxTransactions = 2`. A block therefore takes a strict prefix of the pool, time both exceeds and falls short of the target, and an invalid transaction is dropped.

The node server instance has two clients so that calls overlap each other and the node's steps. Each client makes two calls, so that a client calls again after an answer, including after the node died. One good transaction id is enough for `AnswerMatchesEffect`: two clients may submit it at once.

**Fairness** (`NodeServer`): weak fairness on `main`'s steps and on each call's server-side steps (`Dispatch`, `Submit`, `Reply`) and connection failure. `main` and grpc-go's per-call goroutines are runnable goroutines. A client's Invoke returns once its connection is refused or reset. There is no fairness on clients calling or on any failure.

**Fairness** (`BatchSign`, `BatchProcess`): weak fairness of the caller and of each goroutine, the Go scheduler running every runnable goroutine.

**Fairness** (`Producer`):
- Weak fairness on `Advance`, because the ticker keeps ticking.
- Weak fairness on each goroutine's steps, because a runnable goroutine is scheduled.
- Strong fairness on `Apply`, because store failures are assumed transient (an assumption; the code retries only at the next tick).

`Ledger`'s properties are safety only.

## 4. Proofs (`LedgerProofs`)

- `TypeCorrect`: `Spec => []TypeOK`.
- `Refinement`: `Spec => Atomicity`, for every set of workers and transactions, whether or not the loop variable is per-iteration.

**Inductive invariant.** `TypeOK` alone is not inductive, so the proofs rest on `IInv == TypeOK /\ \A w : WorkerInv(w)`. `WorkerInv(w)` says:
- An idle goroutine has no pending writes.
- A busy one's `buf` is exactly `Pending(cur, n)`, the last-write-wins buffer of its first `n` Sets.
- `n` and `rec` agree with `pc` and `op`.

With it, `Commit` of a `process` call is `AProcess`, because `rec` holds and `buf` is all of `Pending(t, NW(t))`. Likewise, `Commit` of `update` is `AUpdate`, `Commit` of `add` is `AAdd`, and every other step leaves `utxo` and `txrec` alone.

**Lemmas.** The proofs rest on these lemmas:
- `PendingStep`: one more Set changes the buffer at one key.
- `OverlayNone`: overlaying no writes changes nothing.
- `OtherWorker`: one goroutine's step keeps another's `WorkerInv`.
- `StepRefines`.

TLC also checks `IInv` as an invariant on the `ledger` instance.

## 4b. Proofs (`NodeServerProofs`)

- `TypeCorrect`: `Spec => []TypeOK`.
- `AnswersFaithful`: `Spec => []AnswerMatchesEffect`, for every `Clients`, `Methods`, `TxIds` and `MaxCalls`, and either `main`.
- `V1SubmitServed`: `MainVersion = 1 => (Spec => []SubmitImplemented)`.

They rest on `NodeServerAssumption`: `MainVersion` is 1 or 2, `MaxCalls` is a natural number, the nil and malformed requests are not transaction ids, and clients call methods of the service.

**Inductive invariant.** `IInv == TypeOK /\ CallEffects /\ AnswerMatchesEffect /\ V1Registered`. None of the properties is inductive alone:
- `CallEffects` says a call that is sent or being handled has written nothing, and one whose `AddTransaction` committed has its record in the store. That is what makes an answer given from that point right.
- `V1Registered` says that with the first `main`, step 5 (Serve) is reached only after registration, and a serving node is registered. That is what keeps `Dispatch` from answering Unimplemented.
- `StepsShape` gives the typing of `mpc`: both step sequences end in the blocking `Serve`, so `mpc + 1` never leaves the sequence.

The proof of `NextIInv` has one lemma per action. `AnswerKeeps` covers every action that answers a call. `IInv` was model-checked on the `node_server` instance, for both versions, before it was proved.

## 4c. Proofs (`BatchSignProofs`)

For every `NTx`, every `BatchSize > 0` and both versions (`ErrorContinues`):
- `TypeCorrect`: `Spec => []TypeOK`. In particular the WaitGroup counter never goes negative.
- `ResultCorrect`: `Spec => []ResultFaithful`.
- `ContractRefinement`: `Spec => ImplementsContract`. `BatchSign` implements `ABatchSign`.

**Inductive invariant.** `IInv` says:
- The loop index is `k * batchSize` and exactly the batches `1..k` are started. It is at least `len` once the loop is over.
- `wg` is the number of goroutines still running or sending (`Active`). So `wg.Wait` returns only when all have returned.
- Every transaction of a batch before `pos` is signed or failed. A sending goroutine is at a failed transaction. A returned goroutine covered its batch, unless some marshalling failed.
- `errChan` holds an error only after a failure. Every failure is in `errChan` or about to be sent.

`ResultFaithful` needs all of this. The result depends on `errs` and on `signed` when the call returns, and these are right only if `wg` really counts the goroutines and every started batch was covered.

`AllSpawned` and `Covered` are arithmetic lemmas. They show that when the loop is over every batch was started, and that every transaction lies in batch `(t - 1) \div batchSize + 1`. `MoveOn` is the common step of `Sign`, `SendErr` and the part_002 `return`.

**Refinement.** The refinement adds `Untouched`: nothing a goroutine has still to reach (`Pending(b)`) has been signed or has failed. With it:
- `Sign(b)` is `ASign(pos[b])` and `SignFails(b)` is `AFail(pos[b])`.
- `Drain` is `AReturn`. `Settled` gives `errs > 0 <=> failed # {}` once `wg.Wait` has returned.
- Every other step leaves the contract's variables alone.

`Disjoint` (batches do not overlap) keeps one goroutine's step out of every other batch's pending set. TLC checked `IInv /\ Untouched` on six instances before it was proved: (5,2) and (7,3) in both versions, (3,1) for transaction.go's version and (4,4) for part_002's.

## 4d. Proofs (`ProducerProofs`)

- `SingleProducerSpacing`: with `Loops = {l}` (the one goroutine a first `Start` creates), `Spec => BlockSpacing` for every `TargetBlockTime`, pool and block size.

**Inductive invariant.** `SpacingInv`:
- Outside the `stamp` step, the time since `lastBlockTime` is at most the time since the last block.
- The value `shouldProduceBlock` read stays below the time since the last block until the production ends.
- That value was the full `TargetBlockTime` once the goroutine passed the CAS.

The theorem is stated for one goroutine because it is false for two. After `Stop` and a second `Start`, one goroutine can read `lastBlockTime` before the other produces and stamps, then produce right after it. TLC shows this with `Loops = {l1, l2}` (hazard `part_004:66`).

## 4e. Proofs (`NodeProofs`)

- `TypeCorrect`: `Spec => []TypeOK`.

**Inductive invariant.** `TInv` adds to `TypeOK` what the handlers and `CountVotes` hold between their two steps: a `/vote` handler a vote and a copy of `node.Votes`, a `/transaction` handler a transaction id and a copy of the pool, `CountVotes` a hash. `MinIn`, from `WellFoundedInduction`, shows that the first vote `CountVotes` finds at the majority exists, so the hash it decides is a real one.

Nothing about duplicate votes is proved: `VoteForBlock` can post a vote twice and the `/vote` handler does not deduplicate, so `node.Votes` can hold one vote twice.

## What is only model-checked, and why

- **Liveness:** `EventuallyIncluded`, `Terminates` and `CallsAnswered`. TLAPS does not handle liveness under fairness or `ENABLED`.
- **`Producer.TypeOK`:** the block size bound is a statement about `SelectSeq`. Proving it needs induction over sequences, which the installed provers cannot instantiate, and the library states no `SelectSeq` facts; the provers cannot even show that `SelectSeq` returns a sequence no longer than its argument.
- **`TxSign`:** its only property fails.

## 5. Findings

1. The cache is updated before the commit, so it can hold UTXOs the store does not (`part_004:786`).
2. Nothing checks inputs, and write-only badger txns never conflict. So two spends of one UTXO both commit, and a spent UTXO can become unspent (`part_004:763`).
3. `Stop` does not stop production (`part_004:113`).
4. A stale append after `CountVotes` clears the votes re-adopts the block (`tps_test.go:643`).
   Related, and kept without a run of its own: `CountVotes` never asks whether a validator's vote is already in `node.Votes` (`tps_test.go:631`). `VoteForBlock` has no guard against a second call for the same block. So a vote posted twice is counted twice. TLC breaks `AdoptedHasMajority` in eight steps: v1 posts its vote for h1 twice, both are appended, and 1500 counted twice reaches the majority 1501 of 3000, adopting h1 with half the stake.
5. `processTransactionsBatch` never returns (`part_002:785`).
6. The second `main` never registers BlockchainService: `s.Serve` blocks before `RegisterBlockchainServiceServer` (`main.go:441`).
7. No signed transaction verifies (`transaction.go:431`). Three causes:
   - `VerifyTransactionSignature` marshals the transaction with its signature, unlike the signer.
   - `CreateAndSignTransaction` leaves `Inputs` empty.
   - The conversions drop `Sender`.

The model also shows three issues that no run of its own keeps (see §3): a second `Start` breaking the single-production guarantee, lost appends, and transaction.go's `errChan` blocking.

## 6. Not modelled yet, and the plan

- **`Node`** (`tps_test.go`): `SelectValidator` (map iteration order against the lexicographic order the design asks for) and `SyncBlockchain` (a longer peer chain's suffix appended without validation) remain.
- **Transaction validation**: `ValidateTransaction`'s input keys and `ParallelVerifyTransactions` (results keyed by id), and the part_002 copies of signing and verification. `TxSign` covers the transaction.go signing and verification.
- **`NodeServer`**: the first `main`'s HTTP handlers (their logic is in `Node`), and `NewNode`, `StartBackgroundTasks` and `ConvertProtoTransactionToShared`, which are not in the repository. Process restarts are not modelled: nothing in the code restarts the node.
- **`BlockKeys`**: lexicographic block keys in `GetLastBlockIndex`.
- **Staking**: from the design, since only tests are present.
- **Proofs planned next:**
  - An action property of `Node`: `CountVotes` adopts a hash only when its scan found it at the majority.
- **Runs:** the project has twelve, at its limit. New questions (block keys, `SelectValidator`) replace or merge with existing runs rather than add to them.
- **Never modelled:**
  - Cryptography and encodings, which are pure functions with no interaction.
  - Generated flatbuffers accessors (`GetBalanceRequest.go`) and the `BlockchainDBInterface` declaration, which have no state.
  - Inside `TxSign`, the cipher internals and the byte layout of protobuf. Only injectivity and determinism matter to its property.
