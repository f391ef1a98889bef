-------------------------- MODULE NodeServerProofs --------------------------
(***************************************************************************)
(* Proofs about NodeServer for every set of clients, methods and           *)
(* transactions and every call bound: the type invariant, that a caller's  *)
(* answer agrees with what its call wrote to the store, and that with the  *)
(* first main of main.go SubmitTransaction is never answered               *)
(* Unimplemented.                                                          *)
(***************************************************************************)
EXTENDS NodeServer, TLAPS

(***************************************************************************)
(* What a call has written, by where it is: a call on its way to the       *)
(* handler or inside it before AddTransaction has written nothing, and a   *)
(* call whose AddTransaction committed has its record in the store (which  *)
(* never loses one).                                                       *)
(***************************************************************************)
CallEffects ==
  \A c \in Clients :
    /\ call[c].st \in {"sent", "handling"} => ~call[c].wrote
    /\ call[c].st = "stored" => call[c].wrote /\ call[c].r \in store

(***************************************************************************)
(* With the first main, main registers the service at step 4 and serves   *)
(* at step 5, so the gRPC server never serves an unregistered service.     *)
(***************************************************************************)
V1Registered ==
  MainVersion = 1 =>
    /\ mpc = 5 => registered
    /\ serving => registered
    /\ SubmitImplemented

IInv == TypeOK /\ CallEffects /\ AnswerMatchesEffect /\ V1Registered

-----------------------------------------------------------------------------
(* main's steps: a non-empty sequence of step kinds ending in the blocking *)
(* Serve, so no step but Serve can be the last.                            *)
LEMMA StepsShape ==
  /\ Len(Steps) \in Nat \ {0}
  /\ \A i \in 1..Len(Steps) : Steps[i] \in {"check", "http", "listen", "register", "serve"}
  /\ Steps[Len(Steps)] = "serve"
  /\ MainVersion = 1 => Steps = MainV1
BY NodeServerAssumption DEF Steps, MainV1, MainV2

LEMMA InitIInv == Init => IInv
<1> SUFFICES ASSUME Init PROVE IInv
  OBVIOUS
<1>1. TypeOK
  <2>1. mpc \in 1..Len(Steps)  BY StepsShape DEF Init
  <2>2. call \in [Clients -> Call_]
    BY DEF Init, Call_, Requests, ServiceMethods
  <2>3. ncalls \in [Clients -> 0..MaxCalls]  BY NodeServerAssumption DEF Init
  <2>. QED  BY <2>1, <2>2, <2>3 DEF Init, TypeOK
<1>2. CallEffects /\ AnswerMatchesEffect /\ SubmitImplemented
  BY DEF Init, CallEffects, AnswerMatchesEffect, SubmitImplemented
<1>3. V1Registered  BY <1>2 DEF Init, V1Registered
<1>. QED  BY <1>1, <1>2, <1>3 DEF IInv

(* A call changed at one client leaves the others' facts alone.            *)
LEMMA AnswerKeeps ==
  ASSUME IInv, NEW c \in Clients, NEW code \in Codes, Answer(c, code),
         call[c].st \in {"sent", "handling", "stored"},
         code = "ok" => call[c].st = "stored",
         code \in {"invalid", "internal", "unimplemented"} => call[c].st # "stored",
         MainVersion = 1 /\ call[c].m = "SubmitTransaction" => code # "unimplemented",
         UNCHANGED store
  PROVE  /\ call' \in [Clients -> Call_]
         /\ CallEffects' /\ AnswerMatchesEffect'
         /\ (MainVersion = 1 => SubmitImplemented')
<1>1. call' \in [Clients -> Call_]
  <2>1. call[c] \in Call_  BY DEF IInv, TypeOK
  <2>2. [call[c] EXCEPT !.st = "done", !.code = code] \in Call_
    BY <2>1 DEF Call_, Codes
  <2>3. call' = [call EXCEPT ![c] = [call[c] EXCEPT !.st = "done", !.code = code]]
    BY DEF Answer
  <2>. QED  BY <2>2, <2>3 DEF IInv, TypeOK
<1>2. /\ call'[c].st = "done" /\ call'[c].code = code
      /\ call'[c].wrote = call[c].wrote /\ call'[c].r = call[c].r
      /\ call'[c].m = call[c].m
  BY DEF IInv, TypeOK, Call_, Answer
<1>3. \A d \in Clients \ {c} : call'[d] = call[d]
  BY DEF IInv, TypeOK, Answer
<1>4. call[c].st \in {"sent", "handling"} => ~call[c].wrote
  BY DEF IInv, CallEffects
<1>5. call[c].st = "stored" => call[c].wrote /\ call[c].r \in store
  BY DEF IInv, CallEffects
<1>6. CallEffects'
  BY <1>2, <1>3 DEF IInv, CallEffects
<1>7. AnswerMatchesEffect'
  BY <1>2, <1>3, <1>4, <1>5 DEF IInv, AnswerMatchesEffect
<1>8. MainVersion = 1 => SubmitImplemented'
  BY <1>2, <1>3 DEF IInv, V1Registered, SubmitImplemented
<1>. QED  BY <1>1, <1>6, <1>7, <1>8

LEMMA AdvanceIInv == IInv /\ Advance => IInv'
<1> SUFFICES ASSUME IInv, Advance PROVE IInv'
  OBVIOUS
<1>1. mpc \in 1..Len(Steps) /\ Steps[mpc] \in {"check", "http", "listen", "register", "serve"}
  BY StepsShape DEF IInv, TypeOK
<1>2. Steps[mpc] # "serve" => mpc + 1 \in 1..Len(Steps)
  BY <1>1, StepsShape
<1>3. TypeOK'
  BY <1>1, <1>2 DEF IInv, TypeOK, Advance, StepCheck, StepHTTP, StepListen, StepServe, Exit
<1>4. (CallEffects /\ AnswerMatchesEffect)'
  BY DEF IInv, Advance, CallEffects, AnswerMatchesEffect
<1>5. V1Registered'
  <2> SUFFICES ASSUME MainVersion = 1 PROVE V1Registered'
    BY DEF V1Registered
  <2>1. Steps = MainV1
    BY StepsShape
  <2>2. SubmitImplemented'
    BY DEF IInv, V1Registered, Advance, SubmitImplemented
  <2>3. mpc \in 1..5 /\ ~serving /\ (mpc = 5 => registered)
    BY <1>1, <2>1 DEF IInv, V1Registered, Advance, MainV1
  <2>4. CASE Steps[mpc] = "check" /\ StepCheck /\ UNCHANGED registered
    <3>1. mpc = 1  BY <2>1, <2>3, <2>4 DEF MainV1
    <3>. QED  BY <2>2, <2>3, <2>4, <3>1 DEF V1Registered, StepCheck, Exit
  <2>5. CASE Steps[mpc] = "http" /\ StepHTTP /\ UNCHANGED registered
    <3>1. mpc = 2  BY <2>1, <2>3, <2>5 DEF MainV1
    <3>. QED  BY <2>2, <2>3, <2>5, <3>1 DEF V1Registered, StepHTTP
  <2>6. CASE Steps[mpc] = "listen" /\ StepListen /\ UNCHANGED registered
    <3>1. mpc = 3  BY <2>1, <2>3, <2>6 DEF MainV1
    <3>. QED  BY <2>2, <2>3, <2>6, <3>1 DEF V1Registered, StepListen, Exit
  <2>7. CASE Steps[mpc] = "register" /\ registered' = TRUE /\ mpc' = mpc + 1
             /\ UNCHANGED <<up, httpUp, listening, serving>>
    BY <2>2, <2>3, <2>7 DEF V1Registered
  <2>8. CASE Steps[mpc] = "serve" /\ StepServe /\ UNCHANGED registered
    <3>1. mpc = 5  BY <2>1, <2>3, <2>8 DEF MainV1
    <3>. QED  BY <2>2, <2>3, <2>8, <3>1 DEF V1Registered, StepServe
  <2>. QED  BY <2>4, <2>5, <2>6, <2>7, <2>8 DEF Advance
<1>. QED  BY <1>3, <1>4, <1>5 DEF IInv

(* log.Fatal: HTTPFatal and ServeFails change nothing a property reads     *)
(* except the process flags.                                               *)
LEMMA ExitIInv == IInv /\ (HTTPFatal \/ ServeFails) => IInv'
BY DEF IInv, TypeOK, HTTPFatal, ServeFails, Exit, CallEffects,
       AnswerMatchesEffect, V1Registered, SubmitImplemented

LEMMA CallIInv ==
  ASSUME IInv, NEW c \in Clients, NEW m \in Methods, NEW r \in Requests, Call(c, m, r)
  PROVE  IInv'
BY NodeServerAssumption
   DEF IInv, TypeOK, Call_, Codes, Call, CallEffects, AnswerMatchesEffect,
       V1Registered, SubmitImplemented

LEMMA ConnFailIInv ==
  ASSUME IInv, NEW c \in Clients, ConnFail(c) PROVE IInv'
<1>1. /\ call[c].st \in {"sent", "handling", "stored"}
      /\ Answer(c, "unavailable") /\ UNCHANGED store
  BY DEF ConnFail
<1>. QED
  BY <1>1, AnswerKeeps DEF IInv, TypeOK, Codes, ConnFail, V1Registered

LEMMA DispatchIInv ==
  ASSUME IInv, NEW c \in Clients, Dispatch(c) PROVE IInv'
<1>1. CASE (~registered \/ call[c].m \notin Implemented) /\ Answer(c, "unimplemented")
  <2>1. MainVersion = 1 /\ call[c].m = "SubmitTransaction" => "unimplemented" # "unimplemented"
    BY <1>1 DEF IInv, V1Registered, Dispatch, Implemented
  <2>. QED  BY <1>1, <2>1, AnswerKeeps DEF IInv, TypeOK, Codes, Dispatch, V1Registered
<1>2. CASE registered /\ call[c].m \in Implemented /\ call[c].r = Malformed
           /\ Answer(c, "internal")
  BY <1>2, AnswerKeeps DEF IInv, TypeOK, Codes, Dispatch, V1Registered
<1>3. CASE registered /\ call[c].m \in Implemented /\ call[c].r # Malformed
           /\ call' = [call EXCEPT ![c].st = "handling"]
  BY <1>3 DEF IInv, TypeOK, Call_, Dispatch, CallEffects, AnswerMatchesEffect,
              V1Registered, SubmitImplemented
<1>. QED  BY <1>1, <1>2, <1>3 DEF Dispatch

LEMMA SubmitIInv ==
  ASSUME IInv, NEW c \in Clients, Submit(c) PROVE IInv'
<1>1. CASE call[c].r = NilTx /\ Answer(c, "invalid") /\ UNCHANGED store
  BY <1>1, AnswerKeeps DEF IInv, TypeOK, Codes, Submit, V1Registered
<1>2. CASE call[c].r \in TxIds /\ store' = store \cup {call[c].r}
           /\ call' = [call EXCEPT ![c].st = "stored", ![c].wrote = TRUE]
  BY <1>2 DEF IInv, TypeOK, Call_, Submit, CallEffects, AnswerMatchesEffect,
              V1Registered, SubmitImplemented
<1>3. CASE call[c].r \in TxIds /\ Answer(c, "internal") /\ UNCHANGED store
  BY <1>3, AnswerKeeps DEF IInv, TypeOK, Codes, Submit, V1Registered
<1>. QED  BY <1>1, <1>2, <1>3 DEF Submit

LEMMA ReplyIInv ==
  ASSUME IInv, NEW c \in Clients, Reply(c) PROVE IInv'
BY AnswerKeeps DEF IInv, TypeOK, Codes, Reply, V1Registered

LEMMA NextIInv == IInv /\ [Next]_vars => IInv'
<1> SUFFICES ASSUME IInv, [Next]_vars PROVE IInv'
  OBVIOUS
<1>1. CASE Advance  BY <1>1, AdvanceIInv
<1>2. CASE HTTPFatal \/ ServeFails  BY <1>2, ExitIInv
<1>3. ASSUME NEW c \in Clients, NEW m \in Methods, NEW r \in Requests, Call(c, m, r)
      PROVE IInv'
  BY <1>3, CallIInv
<1>4. ASSUME NEW c \in Clients, ConnFail(c) PROVE IInv'
  BY <1>4, ConnFailIInv
<1>5. ASSUME NEW c \in Clients, Dispatch(c) PROVE IInv'
  BY <1>5, DispatchIInv
<1>6. ASSUME NEW c \in Clients, Submit(c) PROVE IInv'
  BY <1>6, SubmitIInv
<1>7. ASSUME NEW c \in Clients, Reply(c) PROVE IInv'
  BY <1>7, ReplyIInv
<1>8. CASE UNCHANGED vars
  BY <1>8 DEF vars, IInv, TypeOK, CallEffects, AnswerMatchesEffect,
              V1Registered, SubmitImplemented
<1>. QED  BY <1>1, <1>2, <1>3, <1>4, <1>5, <1>6, <1>7, <1>8 DEF Next

-----------------------------------------------------------------------------
(* NodeServer keeps its types: calls, codes, main's step and the store.    *)
THEOREM TypeCorrect == Spec => []TypeOK
<1>1. IInv => TypeOK  BY DEF IInv
<1>. QED  BY InitIInv, NextIInv, <1>1, PTL DEF Spec

(* server.SubmitTransaction with an atomic AddTransaction: a caller told   *)
(* success has its record in badger, and a caller told InvalidArgument,    *)
(* Internal or Unimplemented had nothing written, for every instance and   *)
(* through every log.Fatal of main and its servers.                        *)
THEOREM AnswersFaithful == Spec => []AnswerMatchesEffect
<1>1. IInv => AnswerMatchesEffect  BY DEF IInv
<1>. QED  BY InitIInv, NextIInv, <1>1, PTL DEF Spec

(* With the first main (RegisterBlockchainServiceServer before s.Serve),   *)
(* no SubmitTransaction call is answered Unimplemented.                    *)
THEOREM V1SubmitServed == MainVersion = 1 => (Spec => []SubmitImplemented)
<1> SUFFICES ASSUME MainVersion = 1 PROVE Spec => []SubmitImplemented
  OBVIOUS
<1>1. IInv => SubmitImplemented  BY DEF IInv, V1Registered
<1>. QED  BY InitIInv, NextIInv, <1>1, PTL DEF Spec

=============================================================================
