----------------------------- MODULE NodeServer -----------------------------
(***************************************************************************)
(* The node process of src/cmd/thrylosnode/main.go and the gRPC service    *)
(* generated in src/transactions_grpc.pb.go.  The file holds two versions  *)
(* of main (MainVersion 1: lines 61-225, 2: lines 280-450).  main runs a   *)
(* sequence of steps; a failing check ends the process with log.Fatal.     *)
(* It starts the HTTP server(s) on goroutines, whose failure also calls    *)
(* log.Fatal, listens on the gRPC address, registers BlockchainService and *)
(* calls s.Serve, which blocks until the listener fails (log.Fatal again). *)
(*                                                                         *)
(* gRPC clients call the service through the generated stubs.  The server  *)
(* runs each call on its own goroutine: an unregistered service or a       *)
(* method the server type does not implement answers Unimplemented, a      *)
(* request that does not decode answers Internal, and SubmitTransaction    *)
(* (main.go) answers InvalidArgument for a nil transaction, Internal when  *)
(* db.AddTransaction fails, and success otherwise.  AddTransaction is one  *)
(* badger txn; Ledger shows it is atomic (AtomicLedger's AAdd), so here it *)
(* writes the record or nothing in one step.  The store is on disk and     *)
(* outlives the process.                                                   *)
(***************************************************************************)
EXTENDS Naturals, Sequences, FiniteSets

CONSTANTS
  MainVersion,  \* which main of main.go runs
  Clients,      \* gRPC client goroutines
  Methods,      \* BlockchainService methods the clients call
  TxIds,        \* ids of well-formed transactions
  NilTx,        \* a TransactionRequest whose Transaction is nil
  Malformed,    \* bytes that do not decode as the request message
  MaxCalls      \* calls per client

(* BlockchainService_ServiceDesc: the methods the service registers.        *)
ServiceMethods ==
  {"SubmitTransaction", "GetBlock", "GetTransaction", "GetLastBlock",
   "SubmitTransactionBatch", "GetBalance", "GetStats", "GetPendingTransactions"}

ASSUME NodeServerAssumption ==
  /\ MainVersion \in {1, 2}
  /\ MaxCalls \in Nat
  /\ {NilTx, Malformed} \cap TxIds = {}
  /\ Methods \subseteq ServiceMethods

(* type server embeds UnimplementedBlockchainServiceServer and defines only *)
(* SubmitTransaction; every other method is the embedded Unimplemented one. *)
Implemented == {"SubmitTransaction"}

Requests == TxIds \cup {NilTx, Malformed}

Codes == {"ok", "invalid", "internal", "unimplemented", "unavailable"}

(* Mutant of MainV1: Serve called before the service is registered.        *)
MainV1ServeFirst == <<"check", "http", "listen", "serve", "register">>

(* The steps of main, in order.  "check": steps that end the process with  *)
(* log.Fatal on failure and are invisible to clients otherwise; "http":    *)
(* the HTTP server goroutine(s) start; "listen": net.Listen on the gRPC    *)
(* address (log.Fatalf on error); "register": RegisterBlockchainService-   *)
(* Server; "serve": s.Serve(lis), which only returns with an error.        *)
(* Version 1: .env, DATA_DIR, WASM_PATH, wasm, AES key, NewBlockchain,     *)
(* integrity, InitializeDatabase, then the HTTP net.Listen; `go http.Serve`;*)
(* the gRPC Listen; register; Serve.                                       *)
MainV1 == <<"check", "http", "listen", "register", "serve">>

(* Version 2: loadEnv, Supabase, DATA_DIR, WASM_PATH, the wasm fetch, AES  *)
(* key, GENESIS_ACCOUNT, NewBlockchain, integrity, InitializeDatabase and, *)
(* in production, loadCertificate; setupServers starts the WebSocket and   *)
(* HTTP servers; the gRPC Listen; loadTLSCredentials in production; then   *)
(* s.Serve(lis) BEFORE RegisterBlockchainServiceServer and a second Serve. *)
MainV2 == <<"check", "http", "listen", "check", "serve", "register", "serve">>

Steps == IF MainVersion = 1 THEN MainV1 ELSE MainV2

VARIABLES
  up,          \* the process is running
  mpc,         \* main's next step (an index into Steps)
  httpUp,      \* an HTTP server goroutine is running
  listening,   \* the gRPC listener is open
  registered,  \* BlockchainService is registered with the grpc.Server
  serving,     \* s.Serve is accepting connections
  store,       \* "transaction-<id>" records in badger (persistent)
  call,        \* each client's current call
  ncalls       \* calls each client has made

vars == <<up, mpc, httpUp, listening, registered, serving, store, call, ncalls>>

Call_ == [m : ServiceMethods, r : Requests,
          st : {"idle", "sent", "handling", "stored", "done"},
          code : Codes \cup {"none"}, wrote : BOOLEAN]

TypeOK ==
  /\ up \in BOOLEAN /\ httpUp \in BOOLEAN
  /\ listening \in BOOLEAN /\ registered \in BOOLEAN /\ serving \in BOOLEAN
  /\ mpc \in 1..Len(Steps)
  /\ store \subseteq TxIds
  /\ call \in [Clients -> Call_]
  /\ ncalls \in [Clients -> 0..MaxCalls]

Init ==
  /\ up = TRUE /\ mpc = 1
  /\ httpUp = FALSE /\ listening = FALSE
  /\ registered = FALSE /\ serving = FALSE
  /\ store = {}
  /\ call = [c \in Clients |-> [m |-> "SubmitTransaction", r |-> NilTx,
                                st |-> "idle", code |-> "none", wrote |-> FALSE]]
  /\ ncalls = [c \in Clients |-> 0]

(* log.Fatal: the process exits; every goroutine and listener goes.        *)
Exit ==
  /\ up' = FALSE
  /\ httpUp' = FALSE /\ listening' = FALSE /\ serving' = FALSE

-----------------------------------------------------------------------------
(* The steps of main.                                                      *)

StepCheck ==
  \/ mpc' = mpc + 1 /\ UNCHANGED <<up, httpUp, listening, serving>>
  \/ Exit /\ UNCHANGED mpc

StepHTTP ==
  /\ httpUp' = TRUE
  /\ mpc' = mpc + 1
  /\ UNCHANGED <<up, listening, serving>>

StepListen ==
  \/ listening' = TRUE /\ mpc' = mpc + 1 /\ UNCHANGED <<up, httpUp, serving>>
  \/ Exit /\ UNCHANGED mpc

StepServe ==
  /\ serving' = TRUE
  /\ UNCHANGED <<up, mpc, httpUp, listening>>

Advance ==
  /\ up
  /\ ~serving
  /\ \/ Steps[mpc] = "check" /\ StepCheck /\ UNCHANGED registered
     \/ Steps[mpc] = "http" /\ StepHTTP /\ UNCHANGED registered
     \/ Steps[mpc] = "listen" /\ StepListen /\ UNCHANGED registered
     \/ Steps[mpc] = "register" /\ registered' = TRUE /\ mpc' = mpc + 1
        /\ UNCHANGED <<up, httpUp, listening, serving>>
     \/ Steps[mpc] = "serve" /\ StepServe /\ UNCHANGED registered
  /\ UNCHANGED <<store, call, ncalls>>

(* http.Serve / ListenAndServe returns an error: log.Fatalf.               *)
HTTPFatal ==
  /\ up /\ httpUp
  /\ Exit
  /\ UNCHANGED <<mpc, registered, store, call, ncalls>>

(* s.Serve(lis) returns an error: log.Fatalf.                              *)
ServeFails ==
  /\ up /\ serving
  /\ Exit
  /\ UNCHANGED <<mpc, registered, store, call, ncalls>>

-----------------------------------------------------------------------------
(* The calls.                                                              *)

Answer(c, code) ==
  call' = [call EXCEPT ![c].st = "done", ![c].code = code]

(* A generated client stub: c.cc.Invoke(ctx, FullMethodName, in, out).     *)
Call(c, m, r) ==
  /\ call[c].st \in {"idle", "done"}
  /\ ncalls[c] < MaxCalls
  /\ call' = [call EXCEPT ![c] = [m |-> m, r |-> r, st |-> "sent",
                                  code |-> "none", wrote |-> FALSE]]
  /\ ncalls' = [ncalls EXCEPT ![c] = @ + 1]
  /\ UNCHANGED <<up, mpc, httpUp, listening, registered, serving, store>>

(* Mutant of ConnFail: the caller retries Invoke on Unavailable instead   *)
(* of returning the error.                                                 *)
ConnFailRetries(c) ==
  /\ \/ call[c].st = "sent" /\ ~listening
     \/ call[c].st \in {"handling", "stored"} /\ ~up
  /\ call' = [call EXCEPT ![c].st = "sent"]
  /\ UNCHANGED <<up, mpc, httpUp, listening, registered, serving, store, ncalls>>

(* Invoke returns Unavailable: no listener accepts the connection, or the  *)
(* process died with the call in flight.                                   *)
ConnFail(c) ==
  /\ \/ call[c].st = "sent" /\ ~listening
     \/ call[c].st \in {"handling", "stored"} /\ ~up
  /\ Answer(c, "unavailable")
  /\ UNCHANGED <<up, mpc, httpUp, listening, registered, serving, store, ncalls>>

(* The grpc.Server takes the call: an unknown service or a method of the   *)
(* embedded UnimplementedBlockchainServiceServer answers Unimplemented;    *)
(* otherwise the generated _BlockchainService_<M>_Handler decodes the      *)
(* request (an error is returned as is) and, with no interceptor, calls    *)
(* the server's method on this goroutine.                                  *)
Dispatch(c) ==
  /\ up /\ serving
  /\ call[c].st = "sent"
  /\ \/ (~registered \/ call[c].m \notin Implemented)
        /\ Answer(c, "unimplemented")
     \/ registered /\ call[c].m \in Implemented /\ call[c].r = Malformed
        /\ Answer(c, "internal")
     \/ registered /\ call[c].m \in Implemented /\ call[c].r # Malformed
        /\ call' = [call EXCEPT ![c].st = "handling"]
  /\ UNCHANGED <<up, mpc, httpUp, listening, registered, serving, store, ncalls>>

(* Mutant of SubmitTransaction: the nil check is dropped and the nil       *)
(* transaction goes on to AddTransaction.                                  *)
SubmitNoNilCheck(c) ==
  /\ up
  /\ call[c].st = "handling"
  /\ \/ store' = store \cup {call[c].r}
        /\ call' = [call EXCEPT ![c].st = "stored", ![c].wrote = TRUE]
     \/ Answer(c, "internal") /\ UNCHANGED store
  /\ UNCHANGED <<up, mpc, httpUp, listening, registered, serving, ncalls>>

(* Mutant of SubmitTransaction: AddTransaction's error is logged and the   *)
(* success response is sent anyway.                                        *)
SubmitIgnoresError(c) ==
  /\ up
  /\ call[c].st = "handling"
  /\ \/ call[c].r = NilTx /\ Answer(c, "invalid") /\ UNCHANGED store
     \/ call[c].r \in TxIds /\ store' = store \cup {call[c].r}
        /\ call' = [call EXCEPT ![c].st = "stored", ![c].wrote = TRUE]
     \/ call[c].r \in TxIds /\ Answer(c, "ok") /\ UNCHANGED store
  /\ UNCHANGED <<up, mpc, httpUp, listening, registered, serving, ncalls>>

(* server.SubmitTransaction: InvalidArgument for a nil transaction; else   *)
(* ConvertProtoTransactionToShared and s.db.AddTransaction, which writes   *)
(* the record or fails with nothing written (Internal).                    *)
Submit(c) ==
  /\ up
  /\ call[c].st = "handling"
  /\ \/ call[c].r = NilTx /\ Answer(c, "invalid") /\ UNCHANGED store
     \/ call[c].r \in TxIds /\ store' = store \cup {call[c].r}
        /\ call' = [call EXCEPT ![c].st = "stored", ![c].wrote = TRUE]
     \/ call[c].r \in TxIds /\ Answer(c, "internal") /\ UNCHANGED store
  /\ UNCHANGED <<up, mpc, httpUp, listening, registered, serving, ncalls>>

(* The TransactionResponse reaches the client.                             *)
Reply(c) ==
  /\ up
  /\ call[c].st = "stored"
  /\ Answer(c, "ok")
  /\ UNCHANGED <<up, mpc, httpUp, listening, registered, serving, store, ncalls>>

Next ==
  \/ Advance \/ HTTPFatal \/ ServeFails
  \/ \E c \in Clients :
       \/ \E m \in Methods, r \in Requests : Call(c, m, r)
       \/ ConnFail(c) \/ Dispatch(c) \/ Submit(c) \/ Reply(c)

(* main and the server goroutines run whenever they can; clients need not  *)
(* call, and nothing forces a failure.                                     *)
Spec ==
  /\ Init /\ [][Next]_vars
  /\ WF_vars(Advance)
  /\ \A c \in Clients : WF_vars(ConnFail(c) \/ Dispatch(c) \/ Submit(c) \/ Reply(c))

-----------------------------------------------------------------------------
(* Spec 6 (RPC surface): SubmitTransaction is served by the node's         *)
(* SubmitTransaction; a call the running node takes is never answered      *)
(* Unimplemented.  Threatened by main calling s.Serve before               *)
(* RegisterBlockchainServiceServer.                                        *)
SubmitImplemented ==
  \A c \in Clients :
    call[c].m = "SubmitTransaction" /\ call[c].st = "done"
      => call[c].code # "unimplemented"

(* What a SubmitTransaction caller is told matches what its call did to    *)
(* the store: success means this call's record is in badger (and stays     *)
(* there after the process dies), and InvalidArgument, Internal or         *)
(* Unimplemented mean the call wrote nothing.  Only Unavailable, a call    *)
(* cut off by log.Fatal, leaves the outcome open.                          *)
AnswerMatchesEffect ==
  \A c \in Clients :
    /\ call[c].st = "done" /\ call[c].code = "ok"
         => call[c].wrote /\ call[c].r \in store
    /\ call[c].st = "done" /\ call[c].code \in {"invalid", "internal", "unimplemented"}
         => ~call[c].wrote

(* Every call a client makes is answered: by the service, or with          *)
(* Unavailable when no listener takes it or the process dies under it.     *)
CallsAnswered ==
  \A c \in Clients : call[c].st = "sent" ~> call[c].st = "done"

=============================================================================
