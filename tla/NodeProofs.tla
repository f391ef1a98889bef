----------------------------- MODULE NodeProofs -----------------------------
(***************************************************************************)
(* Proofs about the vote tally and pending pool of one node, for every set *)
(* of validators, stakes, blocks and handler goroutines.                   *)
(***************************************************************************)
EXTENDS Node, SequenceTheorems, WellFoundedInduction, TLAPS

USE NodeAssumption

(* The inductive invariant behind TypeOK: a /vote handler between its     *)
(* read and its write holds a vote and a copy of node.Votes, a             *)
(* /transaction handler a transaction id and a copy of the pool, and       *)
(* CountVotes a block hash between its scan and its clear.                 *)
TInv ==
  /\ TypeOK
  /\ \A h \in Handlers : hpc[h] = "vote" => hmsg[h] \in Vote /\ hsnap[h] \in Seq(Vote)
  /\ \A h \in Handlers : hpc[h] = "tx" => hmsg[h] \in TxIds /\ hsnap[h] \in Seq(TxIds)
  /\ cpc = "clear" => chash \in Hashes

(* The least element CountVotes breaks at exists: a nonempty set of        *)
(* naturals has a minimum (by the well-foundedness of < on Nat).           *)
LEMMA MinIn ==
  ASSUME NEW S \in SUBSET Nat, S # {}
  PROVE  Min(S) \in S
  <1>1. \E x \in S : \A y \in S : ~(<<y, x>> \in OpToRel(<, Nat))
    BY NatLessThanWellFounded, WFMin
  <1>2. PICK x \in S : \A y \in S : ~(<<y, x>> \in OpToRel(<, Nat))  BY <1>1
  <1>3. ASSUME NEW y \in S PROVE x =< y
    <2>1. ~(<<y, x>> \in OpToRel(<, Nat))  BY <1>2, <1>3
    <2>2. <<y, x>> \in Nat \X Nat  BY <1>3
    <2>3. ~(y < x)  BY <2>1, <2>2 DEF OpToRel
    <2>. QED  BY <2>3, <1>3
  <1>4. \E z \in S : \A y \in S : z =< y  BY <1>3
  <1>. QED  BY <1>4 DEF Min

LEMMA InitTInv == Init => TInv
  BY DEF Init, TInv, TypeOK

(* VoteForBlock posts a vote of a stakeholder, within the bound.           *)
LEMMA VoteForBlockTInv ==
  ASSUME TInv, NEW v \in Validators, NEW hh \in Hashes, VoteForBlock(v, hh)
  PROVE  TInv'
  <1>1. [hash |-> hh, validator |-> v, stake |-> Stake[v]] \in Vote  BY DEF Vote
  <1>. QED  BY <1>1 DEF VoteForBlock, TInv, TypeOK

LEMMA LoseVoteTInv ==
  ASSUME TInv, NEW m \in net, LoseVote(m) PROVE TInv'
  BY DEF LoseVote, TInv, TypeOK

(* A handler takes a posted vote off the network with a copy of the votes. *)
LEMMA VoteReadTInv ==
  ASSUME TInv, NEW h \in Handlers, NEW m \in net, VoteRead(h, m) PROVE TInv'
  <1>1. m \in Vote  BY DEF TInv, TypeOK
  <1>. QED  BY <1>1 DEF VoteRead, TInv, TypeOK

(* A handler writes back its copy with its vote appended.                  *)
LEMMA VoteWriteTInv ==
  ASSUME TInv, NEW h \in Handlers, VoteWrite(h) PROVE TInv'
  <1>1. hmsg[h] \in Vote /\ hsnap[h] \in Seq(Vote)  BY DEF VoteWrite, TInv
  <1>2. votes' \in Seq(Vote)  BY <1>1, AppendProperties DEF VoteWrite
  <1>3. accepted' \subseteq Vote  BY <1>1 DEF VoteWrite, TInv, TypeOK
  <1>. QED  BY <1>2, <1>3 DEF VoteWrite, TInv, TypeOK

LEMMA TxReadTInv ==
  ASSUME TInv, NEW h \in Handlers, NEW x \in TxIds, TxRead(h, x) PROVE TInv'
  BY DEF TxRead, TInv, TypeOK

LEMMA TxWriteTInv ==
  ASSUME TInv, NEW h \in Handlers, TxWrite(h) PROVE TInv'
  <1>1. hmsg[h] \in TxIds /\ hsnap[h] \in Seq(TxIds)  BY DEF TxWrite, TInv
  <1>2. pool' \in Seq(TxIds)  BY <1>1, AppendProperties DEF TxWrite
  <1>. QED  BY <1>1, <1>2 DEF TxWrite, TInv, TypeOK

(* CountVotes breaks at the least vote index whose hash has the majority.  *)
LEMMA CountScanTInv == TInv /\ CountScan => TInv'
  <1> SUFFICES ASSUME TInv, CountScan PROVE TInv'  OBVIOUS
  <1>1. MajorityAt(votes) \in SUBSET Nat /\ MajorityAt(votes) # {}
    BY DEF CountScan, MajorityAt
  <1>2. Min(MajorityAt(votes)) \in 1..Len(votes)  BY <1>1, MinIn DEF MajorityAt
  <1>3. votes[Min(MajorityAt(votes))] \in Vote  BY <1>2 DEF TInv, TypeOK
  <1>4. chash' \in Hashes  BY <1>3 DEF CountScan, Vote
  <1>. QED  BY <1>4 DEF CountScan, TInv, TypeOK

(* BroadcastBlock and the clear of node.Votes.                             *)
LEMMA CountClearTInv == TInv /\ CountClear => TInv'
  <1> SUFFICES ASSUME TInv, CountClear PROVE TInv'  OBVIOUS
  <1>1. chash \in Hashes  BY DEF CountClear, TInv
  <1>2. adopted' \in Seq(Hashes)  BY <1>1, AppendProperties DEF CountClear, TInv, TypeOK
  <1>3. cleared' \subseteq Vote  BY DEF CountClear, TInv, TypeOK, ToSet
  <1>. QED  BY <1>2, <1>3 DEF CountClear, TInv, TypeOK

LEMMA NextTInv == TInv /\ [Next]_vars => TInv'
  <1> SUFFICES ASSUME TInv, [Next]_vars PROVE TInv'  OBVIOUS
  <1>1. CASE \E v \in Validators, hh \in Hashes : VoteForBlock(v, hh)
    BY <1>1, VoteForBlockTInv
  <1>2. CASE \E m \in net : LoseVote(m)  BY <1>2, LoseVoteTInv
  <1>3. ASSUME NEW h \in Handlers,
               \/ \E m \in net : VoteRead(h, m)
               \/ VoteWrite(h)
               \/ \E x \in TxIds : TxRead(h, x)
               \/ TxWrite(h)
        PROVE  TInv'
    BY <1>3, VoteReadTInv, VoteWriteTInv, TxReadTInv, TxWriteTInv
  <1>4. CASE CountScan  BY <1>4, CountScanTInv
  <1>5. CASE CountClear  BY <1>5, CountClearTInv
  <1>6. CASE UNCHANGED vars  BY <1>6 DEF vars, TInv, TypeOK
  <1>. QED  BY <1>1, <1>2, <1>3, <1>4, <1>5, <1>6 DEF Next

(* The vote tally and pending pool keep their types for every instance,   *)
(* however often VoteForBlock posts a vote: in particular CountVotes only  *)
(* ever broadcasts a hash some vote carried, and the pool holds            *)
(* transaction ids only.                                                   *)
THEOREM TypeCorrect == Spec => []TypeOK
  <1>1. TInv => TypeOK  BY DEF TInv
  <1>. QED  BY <1>1, InitTInv, NextTInv, PTL DEF Spec

=============================================================================
