-------------------------------- MODULE Node --------------------------------
(***************************************************************************)
(* One node's vote tally and pending pool (src/core/tps_test.go, package   *)
(* core).  Validators call VoteForBlock, which posts a Vote to the node's  *)
(* /vote endpoint.  net/http serves every request on its own goroutine     *)
(* (Handlers): /vote appends to node.Votes and /transaction (like          *)
(* SubmitTransactionHandler) appends to node.PendingTransactions through   *)
(* AddPendingTransaction, both without a lock.  A background goroutine     *)
(* started by Node.Start runs CountVotes every minute: it tallies stake per *)
(* block hash in vote order and, when one hash reaches the majority, calls *)
(* BroadcastBlock and then clears node.Votes.                              *)
(*                                                                         *)
(* An unlocked `s = append(s, x)` reads the slice header, then writes a    *)
(* new one; a racing writer in between is overwritten.  The model splits   *)
(* each append into that read and that write; the values a racing read can *)
(* return are the headers written before it, which this split produces.    *)
(***************************************************************************)
EXTENDS Naturals, Sequences, FiniteSets, SequencesExt

CONSTANTS
  Validators,       \* addresses in Blockchain.Stakeholders
  Stake,            \* Stakeholders: address -> stake
  MinStake,         \* minStakeRequirement
  Hashes,           \* block hashes validators vote for
  Handlers,         \* net/http handler goroutines
  TxIds,            \* transaction ids clients submit
  ValidTxs,         \* those VerifyAndProcessTransaction accepts
  MaxSubmissions,   \* bound on /transaction requests
  MaxPosts,         \* bound on VoteForBlock posts
  None

ASSUME NodeAssumption ==
  /\ Stake \in [Validators -> Nat]
  /\ MinStake \in Nat
  /\ ValidTxs \subseteq TxIds
  /\ MaxSubmissions \in Nat
  /\ MaxPosts \in Nat

Vote == [hash : Hashes, validator : Validators, stake : Nat]

(* TotalStake and the majority CountVotes computes from it.               *)
TotalStake == MapThenSumSet(LAMBDA v : Stake[v], Validators)

(* Mutant of Majority: half the stake, without the + 1.                   *)
MajorityHalf == TotalStake \div 2

Majority == TotalStake \div 2 + 1

VARIABLES
  votes,      \* node.Votes
  pool,       \* node.PendingTransactions
  net,        \* votes posted to /vote and not yet handled
  hpc,        \* handler goroutine: "idle", "vote" or "tx" (between read and write)
  hmsg,       \* the vote or transaction id it is handling
  hsnap,      \* the slice header it read
  cpc,        \* CountVotes goroutine: "idle" or "clear"
  chash,      \* the hash that reached the majority
  nposts,     \* VoteForBlock posts so far
  accepted,   \* ghost: votes a /vote handler appended
  cleared,    \* ghost: votes removed by `node.Votes = []Vote{}`
  admitted,   \* ghost: ids a /transaction handler appended
  adopted,    \* ghost: hashes CountVotes broadcast, in order
  nsub        \* /transaction requests so far

vars == <<votes, pool, net, hpc, hmsg, hsnap, cpc, chash,
          nposts, accepted, cleared, admitted, adopted, nsub>>

TypeOK ==
  /\ votes \in Seq(Vote)
  /\ pool \in Seq(TxIds)
  /\ net \subseteq Vote
  /\ hpc \in [Handlers -> {"idle", "vote", "tx"}]
  /\ hmsg \in [Handlers -> Vote \cup TxIds \cup {None}]
  /\ hsnap \in [Handlers -> Seq(Vote) \cup Seq(TxIds)]
  /\ cpc \in {"idle", "clear"}
  /\ chash \in Hashes \cup {None}
  /\ nposts \in 0..MaxPosts
  /\ accepted \subseteq Vote /\ cleared \subseteq Vote
  /\ admitted \subseteq TxIds
  /\ adopted \in Seq(Hashes)
  /\ nsub \in 0..MaxSubmissions

Init ==
  /\ votes = << >>
  /\ pool = << >>
  /\ net = {}
  /\ hpc = [h \in Handlers |-> "idle"]
  /\ hmsg = [h \in Handlers |-> None]
  /\ hsnap = [h \in Handlers |-> << >>]
  /\ cpc = "idle"
  /\ chash = None
  /\ nposts = 0
  /\ accepted = {} /\ cleared = {} /\ admitted = {}
  /\ adopted = << >>
  /\ nsub = 0

(* VoteForBlock: a stakeholder with at least minStakeRequirement posts     *)
(* Vote{hash, address, stake} to the node.  Nothing stops a second call    *)
(* for the same block, which posts the same vote again.  Two equal posts   *)
(* in flight at once are one element of net; a post made after the first  *)
(* was read is delivered again.                                            *)
VoteForBlock(v, hh) ==
  LET m == [hash |-> hh, validator |-> v, stake |-> Stake[v]] IN
  /\ Stake[v] >= MinStake
  /\ nposts < MaxPosts
  /\ nposts' = nposts + 1
  /\ net' = net \cup {m}
  /\ UNCHANGED <<votes, pool, hpc, hmsg, hsnap, cpc, chash,
                 accepted, cleared, admitted, adopted, nsub>>

(* http.Post fails and VoteForBlock ignores the error: the vote is lost.   *)
LoseVote(m) ==
  /\ m \in net
  /\ net' = net \ {m}
  /\ UNCHANGED <<votes, pool, hpc, hmsg, hsnap, cpc, chash,
                 nposts, accepted, cleared, admitted, adopted, nsub>>

(* /vote: the body decodes and `append(node.Votes, vote)` reads the slice. *)
VoteRead(h, m) ==
  /\ hpc[h] = "idle"
  /\ m \in net
  /\ net' = net \ {m}
  /\ hpc' = [hpc EXCEPT ![h] = "vote"]
  /\ hmsg' = [hmsg EXCEPT ![h] = m]
  /\ hsnap' = [hsnap EXCEPT ![h] = votes]
  /\ UNCHANGED <<votes, pool, cpc, chash, nposts, accepted, cleared,
                 admitted, adopted, nsub>>

(* /vote: `node.Votes = ...` stores the slice built from what it read.     *)
VoteWrite(h) ==
  /\ hpc[h] = "vote"
  /\ votes' = Append(hsnap[h], hmsg[h])
  /\ accepted' = accepted \cup {hmsg[h]}
  /\ hpc' = [hpc EXCEPT ![h] = "idle"]
  /\ hmsg' = [hmsg EXCEPT ![h] = None]
  /\ hsnap' = [hsnap EXCEPT ![h] = << >>]
  /\ UNCHANGED <<pool, net, cpc, chash, nposts, cleared, admitted, adopted, nsub>>

(* VerifyAndProcessTransaction: inputs present, both public keys found and *)
(* the signature valid; which ids pass is given by ValidTxs.               *)
Verified(x) == x \in ValidTxs

(* /transaction (and SubmitTransactionHandler): VerifyAndProcessTransaction *)
(* succeeds and AddPendingTransaction's append reads the slice.  No check  *)
(* that the id is already pending.  A transaction that fails verification  *)
(* gets an error response and changes nothing.                             *)
TxRead(h, x) ==
  /\ hpc[h] = "idle"
  /\ nsub < MaxSubmissions
  /\ Verified(x)
  /\ nsub' = nsub + 1
  /\ hpc' = [hpc EXCEPT ![h] = "tx"]
  /\ hmsg' = [hmsg EXCEPT ![h] = x]
  /\ hsnap' = [hsnap EXCEPT ![h] = pool]
  /\ UNCHANGED <<votes, pool, net, cpc, chash, nposts, accepted, cleared,
                 admitted, adopted>>

(* Mutant of TxWrite: the handler stores into node.Votes instead.          *)
TxWriteVotes(h) ==
  /\ hpc[h] = "tx"
  /\ votes' = Append(hsnap[h], hmsg[h])
  /\ admitted' = admitted \cup {hmsg[h]}
  /\ hpc' = [hpc EXCEPT ![h] = "idle"]
  /\ hmsg' = [hmsg EXCEPT ![h] = None]
  /\ hsnap' = [hsnap EXCEPT ![h] = << >>]
  /\ UNCHANGED <<pool, net, cpc, chash, nposts, accepted, cleared, adopted, nsub>>

(* AddPendingTransaction stores the appended slice.                         *)
TxWrite(h) ==
  /\ hpc[h] = "tx"
  /\ pool' = Append(hsnap[h], hmsg[h])
  /\ admitted' = admitted \cup {hmsg[h]}
  /\ hpc' = [hpc EXCEPT ![h] = "idle"]
  /\ hmsg' = [hmsg EXCEPT ![h] = None]
  /\ hsnap' = [hsnap EXCEPT ![h] = << >>]
  /\ UNCHANGED <<votes, net, cpc, chash, nposts, accepted, cleared, adopted, nsub>>

(* The stake CountVotes has summed for the hash of vote i once the loop    *)
(* reaches it, and the first vote at which some hash has the majority.     *)
HashStake(cs, i) ==
  MapThenSumSet(LAMBDA j : cs[j].stake, {j \in 1..i : cs[j].hash = cs[i].hash})

MajorityAt(cs) == {i \in 1..Len(cs) : HashStake(cs, i) >= Majority}

(* CountVotes: ranges over node.Votes and breaks at the first vote whose   *)
(* hash reaches majorityStake.  Without a majority it returns and nothing  *)
(* changes.                                                                *)
CountScan ==
  /\ cpc = "idle"
  /\ MajorityAt(votes) # {}
  /\ cpc' = "clear"
  /\ chash' = votes[Min(MajorityAt(votes))].hash
  /\ UNCHANGED <<votes, pool, net, hpc, hmsg, hsnap, nposts, accepted, cleared,
                 admitted, adopted, nsub>>

(* BroadcastBlock returns, then `node.Votes = []Vote{}`.  The code hands   *)
(* BroadcastBlock a nil *Block ("assume you find this block somehow");     *)
(* adopted records the hash the tally decided on.                          *)
CountClear ==
  /\ cpc = "clear"
  /\ votes' = << >>
  /\ cleared' = cleared \cup ToSet(votes)
  /\ adopted' = Append(adopted, chash)
  /\ cpc' = "idle"
  /\ chash' = None
  /\ UNCHANGED <<pool, net, hpc, hmsg, hsnap, nposts, accepted, admitted, nsub>>

Next ==
  \/ \E v \in Validators, hh \in Hashes : VoteForBlock(v, hh)
  \/ \E m \in net : LoseVote(m)
  \/ \E h \in Handlers :
       \/ \E m \in net : VoteRead(h, m)
       \/ VoteWrite(h)
       \/ \E x \in TxIds : TxRead(h, x)
       \/ TxWrite(h)
  \/ CountScan
  \/ CountClear

Spec == Init /\ [][Next]_vars

-----------------------------------------------------------------------------
(* Spec 4.5: a block is adopted only when the validators who voted for it  *)
(* hold the majority of the stake.  CountVotes sums the Stake fields of    *)
(* node.Votes and never asks whether a validator's vote is already there: *)
(* a vote posted twice by VoteForBlock, or written back by a /vote handler *)
(* after the clear, is counted twice.  No run checks it as a pass: it      *)
(* fails on this model (see README).                                       *)
VotersOf(hh) == {m.validator : m \in {mm \in accepted : mm.hash = hh}}

AdoptedHasMajority ==
  \A i \in 1..Len(adopted) :
    2 * MapThenSumSet(LAMBDA v : Stake[v], VotersOf(adopted[i])) > TotalStake

(* Every vote a /vote handler accepted is still in node.Votes or was       *)
(* removed by the clear in CountVotes, and every transaction a             *)
(* /transaction handler accepted is still in node.PendingTransactions      *)
(* (nothing in this code drains it).  Threatened by the unlocked appends.  *)
NothingLost ==
  /\ \A m \in accepted : m \in ToSet(votes) \/ m \in cleared
  /\ admitted \subseteq ToSet(pool)

(* Spec 4.5: once a block has the majority it is adopted and the vote set  *)
(* is cleared, so CountVotes broadcasts each block once.  Threatened by a  *)
(* /vote handler that read node.Votes before the clear and writes it back  *)
(* after it.                                                               *)
AdoptedOnce == IsInjective(adopted)

=============================================================================
