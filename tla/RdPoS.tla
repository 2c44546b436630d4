------------------------------- MODULE RdPoS -------------------------------
(***************************************************************************)
(* The rdPoS rules of one node (src/core/rdpos.cpp): how a round's         *)
(* validator transactions are built, which of them a node keeps in its     *)
(* mempool, what makes a block valid, and how a block's randomness orders  *)
(* the validators of the next round.  Everything here is a constant        *)
(* operator; the threads that use it are in Consensus.tla.                 *)
(*                                                                         *)
(* Lists are indexed from 0 as in the code: randomList[0] creates the next *)
(* block, randomList[1..MinValidators] contribute its randomness.          *)
(***************************************************************************)
EXTENDS Naturals, Sequences, FiniteSets

CONSTANTS
  Validators,      \* rdPoS::validators, fixed once the node has started
  MinValidators,   \* rdPoS::minValidators, 4 in the code
  Seeds,           \* the values Hash::random() may return
  Bodies,          \* the transactions of users a block may hold
  Times,           \* what the clocks of validators may show
  ZeroHash,        \* Hash(), the randomness and previous hash of the genesis
  Shuffle(_)       \* RandomGen::shuffle of the validators, seeded by a hash

NumValidators == Cardinality(Validators)

(* Cryptographic hashing: only equality of the hashed values is observable. *)
Sha3(x) == <<"sha3", x>>

(* The permutations of the validators. *)
RandomLists ==
  {l \in [0..(NumValidators - 1) -> Validators] :
     \A i, j \in 0..(NumValidators - 1) : l[i] = l[j] => i = j}

(* Block randomness: the hash of the seeds in participant order. *)
Randomness == {ZeroHash} \cup {Sha3(s) : s \in [1..MinValidators -> Seeds]}

ASSUME ConstantsAssumption ==
  /\ IsFiniteSet(Validators)
  /\ MinValidators \in Nat \ {0}
  /\ NumValidators > MinValidators
  /\ Seeds # {}
  /\ Times \subseteq Nat
  /\ ZeroHash \notin Validators

(* A shuffle is a permutation, and a function of the randomness alone. *)
ASSUME ShuffleAssumption == \A r \in Randomness : Shuffle(r) \in RandomLists

-----------------------------------------------------------------------------
(* Validator transactions. *)

TxFunctions == {"randomHash", "randomSeed"}

RandomHashTx(me, seed, nHeight) ==
  [from |-> me, func |-> "randomHash", data |-> Sha3(seed), nHeight |-> nHeight]

RandomSeedTx(me, seed, nHeight) ==
  [from |-> me, func |-> "randomSeed", data |-> seed, nHeight |-> nHeight]

TxValidator ==
  [from : Validators, func : {"randomHash"}, data : {Sha3(s) : s \in Seeds}, nHeight : Nat]
  \cup [from : Validators, func : {"randomSeed"}, data : Seeds, nHeight : Nat]

(* v contributes randomness to the round that list orders. *)
Participates(list, v) == \E i \in 1..MinValidators : v = list[i]

(* addValidatorTx adds tx to pool: it is for the next height, from a        *)
(* participant, and the first of its kind from that sender.                 *)
AcceptsTx(pool, list, next, tx) ==
  /\ tx.nHeight = next
  /\ Participates(list, tx.from)
  /\ LET txs == {t \in pool : t.from = tx.from}
     IN  \/ txs = {}
         \/ \E t \in txs : txs = {t} /\ t.func # tx.func

-----------------------------------------------------------------------------
(* Blocks. *)

BlockHash(b) ==
  Sha3(<<b.prevBlockHash, b.blockRandomness, b.txValidators, b.body, b.timestamp, b.nHeight>>)

Genesis ==
  [nHeight |-> 0, prevBlockHash |-> ZeroHash, blockRandomness |-> ZeroHash,
   txValidators |-> <<>>, body |-> ZeroHash, timestamp |-> 1, validator |-> ZeroHash]

(* The seeds of the RANDOMSEED transactions, concatenated and hashed. *)
ParseTxSeedList(txs) ==
  Sha3([i \in 1..MinValidators |-> txs[MinValidators + i].data])

(* The order of the validators in the round that follows block b. *)
ListAfter(b) == Shuffle(b.blockRandomness)

(* The block doValidatorBlock makes on top of latest; it has no signer yet. *)
NewBlock(latest, txs, body) ==
  [nHeight |-> latest.nHeight + 1, prevBlockHash |-> BlockHash(latest),
   blockRandomness |-> ZeroHash, txValidators |-> txs, body |-> body,
   timestamp |-> latest.timestamp, validator |-> ZeroHash]

(* rdPoS::signBlock by me: Block::finalize refuses a clock that is behind   *)
(* the timestamp of the block, and leaves it as it was.                     *)
SignBlock(me, b, clock) ==
  IF b.timestamp > clock THEN b
  ELSE [b EXCEPT !.timestamp = clock, !.validator = me,
                 !.blockRandomness = ParseTxSeedList(b.txValidators)]

(* The signer, the number, order, height and kind of the validator          *)
(* transactions, and that every seed is the preimage of its hash.  (The map *)
(* of the code from hashes to seeds always has MinValidators entries: the   *)
(* senders of its keys are distinct.)                                       *)
ValidateBlock(list, b) ==
  LET txs == b.txValidators
  IN  /\ b.validator = list[0]
      /\ Len(txs) = 2 * MinValidators
      /\ \A i \in 1..(2 * MinValidators) : txs[i].nHeight = b.nHeight
      /\ \A i \in 1..MinValidators :
           LET hashTx == txs[i]
               seedTx == txs[i + MinValidators]
           IN  /\ hashTx.from = list[i]
               /\ seedTx.from = list[i]
               /\ hashTx.func = "randomHash"
               /\ seedTx.func = "randomSeed"
               /\ hashTx.data = Sha3(seedTx.data)

(* Variant of Extends: neither the height nor the previous hash matters. *)
ExtendsAnything(b, latest) == b.nHeight > latest.nHeight

(* What State::validateNextBlock and Storage::pushBack ask of a successor. *)
Extends(b, latest) ==
  /\ b.nHeight = latest.nHeight + 1
  /\ b.prevBlockHash = BlockHash(latest)

=============================================================================
