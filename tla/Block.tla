-------------------------------- MODULE Block --------------------------------
(***************************************************************************)
(* A block of utils/block.cpp from its making to its reading by a peer:    *)
(* transactions are appended, the block is finalized, serialized and       *)
(* parsed again, in one thread or in several that start at offsets         *)
(* computed beforehand.                                                    *)
(*                                                                         *)
(* Behind the header the bytes are a sequence of cells: one for a length   *)
(* and Size[t] for transaction t. Offsets count from its start, and from 0.*)
(***************************************************************************)
EXTENDS Merkle, FiniteSets

CONSTANTS
  Txs,          \* transactions of users
  Validators,   \* transactions of validators of the block's height
  Size,         \* length of the serialization of each
  MaxTxs,       \* bound: transactions of users in a block
  MaxValidators,\* bound: transactions of validators in a block
  Times,        \* timestamps
  Concurrency,  \* values of hardware_concurrency
  Threshold     \* transactions up to which one thread parses, 2000 in the code

ASSUME BlockAssumption ==
  /\ \A t \in Txs \cup Validators : Size[t] \in Nat \ {0}
  /\ Concurrency \subseteq Nat \ {0}
  /\ Times \subseteq Nat
  /\ Threshold \in Nat

VARIABLES
  block,      \* the Block object of its creator
  bytes,      \* its serialization, at most one
  received    \* what peers have made of it

blockVars == <<block, bytes, received>>

BlockInit ==
  /\ \E t \in Times :
       block = [txs |-> <<>>, txValidators |-> <<>>, timestamp |-> t,
                txMerkleRoot |-> EmptyHash, validatorMerkleRoot |-> EmptyHash,
                finalized |-> FALSE]
  /\ bytes = {}
  /\ received = {}

-----------------------------------------------------------------------------
(* The creator. *)

\* appendTx; a finalized block refuses.
AppendTx(t) ==
  /\ ~block.finalized /\ Len(block.txs) < MaxTxs
  /\ block' = [block EXCEPT !.txs = Append(@, t)]
  /\ UNCHANGED <<bytes, received>>

\* appendTxValidator; a finalized block refuses.
AppendTxValidator(t) ==
  /\ ~block.finalized /\ Len(block.txValidators) < MaxValidators
  /\ block' = [block EXCEPT !.txValidators = Append(@, t)]
  /\ UNCHANGED <<bytes, received>>

\* finalize with a timestamp that is not before that of the block. The
\* randomness is a function of the validator transactions and the signature
\* one of the header; both are left out.
Finalize(t) ==
  /\ ~block.finalized /\ block.timestamp <= t
  /\ block' = [block EXCEPT
       !.timestamp = t,
       !.txMerkleRoot = GetRoot(Tree(block.txs)),
       !.validatorMerkleRoot = GetRoot(Tree(block.txValidators)),
       !.finalized = TRUE]
  /\ UNCHANGED <<bytes, received>>

-----------------------------------------------------------------------------
(* Serialization. *)

Payload(t) == [i \in 1..Size[t] |-> <<t, i>>]

\* A length and the bytes of a transaction, for every one of the list.
Cells(list) ==
  LET cells[n \in 0..Len(list)] ==
        IF n = 0 THEN <<>>
        ELSE cells[n - 1] \o <<<<"length", Size[list[n]]>>>> \o Payload(list[n])
  IN  cells[Len(list)]

SerializeHeader(b) ==
  [validatorMerkleRoot |-> b.validatorMerkleRoot, txMerkleRoot |-> b.txMerkleRoot,
   timestamp |-> b.timestamp]

\* serializeBlock: header, offset of the validator transactions, both lists.
SerializeBlock(b) ==
  [header |-> SerializeHeader(b),
   txValidatorStart |-> Len(Cells(b.txs)),
   cells |-> Cells(b.txs) \o Cells(b.txValidators)]

Serialize ==
  /\ block.finalized /\ bytes = {}
  /\ bytes' = {SerializeBlock(block)}
  /\ UNCHANGED <<block, received>>

-----------------------------------------------------------------------------
(* The constructor that parses. *)

\* Offset after n transactions from index.
Skip(cells, index, n) ==
  LET skip[k \in 0..n] ==
        IF k = 0 THEN index
        ELSE LET at == skip[k - 1] IN at + 1 + cells[at + 1][2]
  IN  skip[n]

\* Transactions that start between index and end.
Count(cells, index, end) ==
  CHOOSE n \in 0..Len(cells) :
    /\ Skip(cells, index, n) >= end
    /\ \A k \in 0..(n - 1) : Skip(cells, index, k) < end

\* The constructor of a transaction from its bytes; Garbage stands for its
\* exception.
TxOf(cells) ==
  IF \E t \in Txs \cup Validators : Payload(t) = cells
    THEN CHOOSE t \in Txs \cup Validators : Payload(t) = cells
    ELSE Garbage

\* n transactions from index: the loop of one thread.
Deserialize(cells, index, n) ==
  [k \in 1..n |-> LET at == Skip(cells, index, k - 1) IN
                  TxOf(SubSeq(cells, at + 2, at + 1 + cells[at + 1][2]))]

\* Variant: the remainder is forgotten.
EqualShares(count, threads, i) == count \div threads

\* Transactions of the ith thread; the remainder goes to the last.
TxsPerThr(count, threads, i) ==
  IF i = threads THEN (count \div threads) + (count % threads)
                 ELSE count \div threads

\* Where the thread after the ith starts: the offset is moved over what every
\* thread before takes.
ThrOff(cells, count, threads) ==
  LET thrOff[i \in 0..(threads - 1)] ==
        IF i = 0 THEN 0 ELSE Skip(cells, thrOff[i - 1], TxsPerThr(count, threads, i))
  IN  thrOff

\* The results are taken in the order of the threads, whichever ends first.
InThreads(cells, count, threads) ==
  LET joined[i \in 0..threads] ==
        IF i = 0 THEN <<>>
        ELSE joined[i - 1] \o Deserialize(cells, ThrOff(cells, count, threads)[i - 1],
                                          TxsPerThr(count, threads, i))
  IN  joined[threads]

\* Block::Block(bytes): both lists, then the checks of the Merkle roots.
Parse(b, threads) ==
  LET txCount == Count(b.cells, 0, b.txValidatorStart)
      valTxCount == Count(b.cells, b.txValidatorStart, Len(b.cells))
      txs == IF threads <= 1 \/ txCount <= Threshold
               THEN Deserialize(b.cells, 0, txCount)
               ELSE InThreads(b.cells, txCount, threads)
      txValidators == Deserialize(b.cells, b.txValidatorStart, valTxCount) IN
  IF /\ GetRoot(Tree(txs)) = b.header.txMerkleRoot
     /\ GetRoot(Tree(txValidators)) = b.header.validatorMerkleRoot
    THEN [txs |-> txs, txValidators |-> txValidators, timestamp |-> b.header.timestamp,
          txMerkleRoot |-> b.header.txMerkleRoot,
          validatorMerkleRoot |-> b.header.validatorMerkleRoot, finalized |-> TRUE]
    ELSE Garbage

Receive(threads) ==
  \E b \in bytes :
    /\ received' = received \cup {Parse(b, threads)}
    /\ UNCHANGED <<block, bytes>>

BlockNext ==
  \/ \E t \in Txs : AppendTx(t)
  \/ \E t \in Validators : AppendTxValidator(t)
  \/ \E t \in Times : Finalize(t)
  \/ Serialize
  \/ \E n \in Concurrency : Receive(n)

BlockSpec == BlockInit /\ [][BlockNext]_blockVars

-----------------------------------------------------------------------------
(* Properties. *)

\* Every peer that parses the bytes of a block gets the block: with any number
\* of threads the offsets computed for them and the order in which their
\* results are joined give back both lists, and the roots agree.
RoundTrip == \A b \in received : b = block

Lists == UNION {[1..n -> Txs] : n \in 0..MaxTxs}

\* Every list with its root.
Roots == {<<list, GetRoot(Tree(list))>> : list \in Lists}

Occurrences(list, t) == Cardinality({i \in DOMAIN list : list[i] = t})

\* The header has only the root of the transactions: another list with the
\* root of a finalized block holds the same transactions as often, in an odd layer too.
\* (Not in the same order: newLayer sorts the hashes of a pair.)
RootIdentifies ==
  block.finalized => \A other \in Roots :
    other[2] = block.txMerkleRoot =>
      \A t \in Txs : Occurrences(other[1], t) = Occurrences(block.txs, t)

\* On every layer the leaf's ancestor has a sibling.
Paired(tree, i) ==
  \A k \in 1..Levels(tree) : Sibling(i \div 2^(k - 1)) < Len(tree[k])

\* The proof getProof gives for a leaf verifies for no other hash of the leaf
\* layer, and for the leaf itself whenever its path has siblings.
ProofsExact ==
  LET tree == Tree(block.txs) IN
  \A i, j \in DOMAIN block.txs :
    LET valid == Verify(GetProof(tree, i - 1), tree[1][j], GetRoot(tree)) IN
    /\ valid => block.txs[j] = block.txs[i]
    /\ Paired(tree, i - 1) /\ i = j => valid

\* Refuted by TLC (README, Disagreements): "Verify a leaf node's data
\* integrity against its proof and the root hash" (merkle.h): every leaf of
\* every tree verifies with its own proof.
ProofsVerify ==
  LET tree == Tree(block.txs) IN
  \A i \in DOMAIN block.txs :
    Verify(GetProof(tree, i - 1), tree[1][i], GetRoot(tree))
=============================================================================
