---------------------------- MODULE StateProofs ----------------------------
(***************************************************************************)
(* State, and two algorithms below it.  Replicas agree because every node  *)
(* applies the same operator to the same blocks in the same order, which   *)
(* is what the steps of the nodes have to guarantee: there, what a block   *)
(* does to the accounts stays opaque.  The nonces and the types need it:   *)
(* what one transaction does is proved first, then what a block does, by   *)
(* induction on its length (SetInduction).  The arithmetic of the Safe     *)
(* integers never wraps, whatever its width.  RandomGen::shuffle is a      *)
(* permutation for any vector, hash and seed (what Consensus assumes of    *)
(* the order of the validators).                                           *)
(***************************************************************************)
EXTENDS State, SafeUint, Shuffle, FiniteSetTheorems, WellFoundedInduction, TLAPS

-----------------------------------------------------------------------------
(* State. *)

(* What the variables range over, as far as the proofs need it. *)
Shape ==
  /\ DOMAIN accounts = Nodes
  /\ mempool \in [Nodes -> SUBSET Txs]
  /\ adding \in [Nodes -> SUBSET Txs]
  /\ chain \in Seq(Seq(Txs))
  /\ height \in [Nodes -> Nat]
  /\ \A n \in Nodes : height[n] <= Len(chain)

(* The node building a block has processed all blocks there are. *)
CreatorUpToDate ==
  \A b \in creating :
    b.node \in Nodes /\ b.txs \in Seq(Txs) /\ height[b.node] = Len(chain)

(* h[k] is the state of the accounts after the first k blocks. *)
History(h, blocks) ==
  /\ h[0] = InitialAccounts
  /\ \A k \in 1..Len(blocks) : h[k] = ProcessTransactions(h[k - 1], blocks[k])

(* There is one history, and every node is at its place of it. *)
OneHistory ==
  \E h : History(h, chain) /\ \A n \in Nodes : accounts[n] = h[height[n]]

Inv == Shape /\ CreatorUpToDate /\ OneHistory

-----------------------------------------------------------------------------
(* All nodes start alike.                                                    *)
LEMMA InitInv == Init => Inv
<1> SUFFICES ASSUME Init PROVE Inv
  OBVIOUS
<1>1. Shape /\ CreatorUpToDate
  BY DEF Init, Shape, CreatorUpToDate
<1>2. OneHistory
  <2> DEFINE h == [k \in {0} |-> InitialAccounts]
  <2>1. History(h, chain)
    BY DEF Init, History
  <2>2. \A n \in Nodes : accounts[n] = h[height[n]]
    BY DEF Init
  <2> QED
    BY <2>1, <2>2 DEF OneHistory
<1> QED
  BY <1>1, <1>2 DEF Inv

(* The block fillBlockWithTransactions builds is a sequence of transactions. *)
LEMMA FilledBlock ==
  ASSUME NEW S \in SUBSET Txs, NEW txs \in Injection(1..Cardinality(S), S)
  PROVE  txs \in Seq(Txs)
<1>1. Cardinality(S) \in Nat
  BY TxsAssumption, FS_Subset, FS_CardinalityType
<1>2. txs \in [1..Cardinality(S) -> S]
  BY Zenon DEF Injection
<1> QED
  BY <1>1, <1>2

(* A block more in the chain is a state more in the history. *)
LEMMA HistoryGrows ==
  ASSUME NEW blocks \in Seq(Seq(Txs)), NEW b \in Seq(Txs), NEW h, History(h, blocks)
  PROVE  \E g : /\ History(g, Append(blocks, b))
                /\ \A k \in 0..Len(blocks) : g[k] = h[k]
                /\ g[Len(blocks) + 1] = ProcessTransactions(h[Len(blocks)], b)
<1> DEFINE L == Len(blocks)
           g == [k \in 0..(L + 1) |->
                   IF k <= L THEN h[k] ELSE ProcessTransactions(h[L], b)]
<1>1. L \in Nat /\ Len(Append(blocks, b)) = L + 1
  OBVIOUS
<1>2. /\ \A k \in 0..L : g[k] = h[k]
      /\ g[L + 1] = ProcessTransactions(h[L], b)
  BY <1>1
<1>3. /\ \A k \in 1..L : Append(blocks, b)[k] = blocks[k]
      /\ Append(blocks, b)[L + 1] = b
  OBVIOUS
<1> HIDE DEF g, L
<1>4. ASSUME NEW k \in 1..(L + 1)
      PROVE  g[k] = ProcessTransactions(g[k - 1], Append(blocks, b)[k])
  <2>1. CASE k \in 1..L
    <3>0. k \in 0..L /\ k - 1 \in 0..L
      BY <1>1, <2>1
    <3>1. g[k] = h[k] /\ g[k - 1] = h[k - 1]
      BY <3>0, <1>2
    <3>2. h[k] = ProcessTransactions(h[k - 1], blocks[k])
      BY <2>1 DEF History, L
    <3> QED
      BY Zenon, <3>1, <3>2, <1>3, <2>1
  <2>2. CASE k = L + 1
    <3>1. k - 1 = L /\ L \in 0..L
      BY <1>1, <2>2
    <3>2. g[k - 1] = h[L]
      BY <3>1, <1>2
    <3> QED
      BY Zenon, <3>2, <1>2, <1>3, <2>2
  <2> QED
    BY <1>1, <2>1, <2>2
<1>5. g[0] = InitialAccounts
  BY <1>1, <1>2 DEF History
<1>6. History(g, Append(blocks, b))
  BY <1>1, <1>4, <1>5 DEF History
<1> QED
  BY <1>2, <1>6 DEF L

(* Every step keeps the invariant. *)
LEMMA NextInv == Inv /\ [Next]_vars => Inv'
<1> SUFFICES ASSUME Inv, [Next]_vars PROVE Inv'
  OBVIOUS
<1> USE DEF Inv
<1>1. ASSUME NEW n \in Nodes, NEW tx \in Txs, ValidateTx(n, tx)
      PROVE  Inv'
  <2>1. Shape'
    BY <1>1 DEF ValidateTx, Shape
  <2>2. (CreatorUpToDate /\ OneHistory)'
    BY <1>1 DEF ValidateTx, CreatorUpToDate, OneHistory
  <2> QED
    BY <2>1, <2>2
<1>2. ASSUME NEW n \in Nodes, NEW tx \in adding[n], InsertTx(n, tx)
      PROVE  Inv'
  <2>1. Shape'
    BY <1>2 DEF InsertTx, Shape
  <2>2. (CreatorUpToDate /\ OneHistory)'
    BY <1>2 DEF InsertTx, CreatorUpToDate, OneHistory
  <2> QED
    BY <2>1, <2>2
<1>3. ASSUME NEW n \in Nodes, FillBlockWithTransactions(n)
      PROVE  Inv'
  <2>1. Shape'
    BY <1>3 DEF FillBlockWithTransactions, Shape
  <2>2. OneHistory'
    BY <1>3 DEF FillBlockWithTransactions, OneHistory
  <2>3. mempool[n] \in SUBSET Txs
    BY DEF Shape
  <2>4. PICK txs \in Injection(1..Cardinality(mempool[n]), mempool[n]) :
          creating' = {[node |-> n, txs |-> txs]}
    BY <1>3 DEF FillBlockWithTransactions
  <2>5. txs \in Seq(Txs)
    BY <2>3, <2>4, FilledBlock
  <2>6. height'[n] = Len(chain')
    BY <1>3 DEF FillBlockWithTransactions
  <2>7. CreatorUpToDate'
    BY <2>4, <2>5, <2>6 DEF CreatorUpToDate
  <2> QED
    BY <2>1, <2>2, <2>7
<1>4. ASSUME NEW n \in Nodes, ProcessOwnBlock(n)
      PROVE  Inv'
  <2>1. PICK b \in creating :
          /\ b.node = n
          /\ ProcessNextBlock(n, b.txs)
          /\ chain' = Append(chain, b.txs)
          /\ creating' = {}
          /\ UNCHANGED adding
    BY <1>4 DEF ProcessOwnBlock
  <2> DEFINE accts == ProcessTransactions(accounts[n], b.txs)
  <2>2. /\ accounts' = [accounts EXCEPT ![n] = accts]
        /\ mempool' = [mempool EXCEPT ![n] = RefreshMempool(accts, @, b.txs)]
        /\ height' = [height EXCEPT ![n] = @ + 1]
    BY <2>1 DEF ProcessNextBlock
  <2>3. b.txs \in Seq(Txs) /\ height[n] = Len(chain)
    BY <2>1 DEF CreatorUpToDate
  <2> HIDE DEF accts
  <2>4. RefreshMempool(accts, mempool[n], b.txs) \subseteq mempool[n]
    BY DEF RefreshMempool
  <2>5. Shape'
    <3>1. /\ chain' \in Seq(Seq(Txs)) /\ Len(chain') = Len(chain) + 1
          /\ adding' \in [Nodes -> SUBSET Txs]
      BY <2>1, <2>3 DEF Shape
    <3>2. /\ DOMAIN accounts' = Nodes
          /\ mempool' \in [Nodes -> SUBSET Txs]
          /\ height' \in [Nodes -> Nat]
      BY <2>2, <2>4 DEF Shape
    <3>3. \A m \in Nodes : height'[m] <= Len(chain')
      BY SMTT(30), <3>1, <2>2 DEF Shape
    <3> QED
      BY SMTT(30), <3>1, <3>2, <3>3 DEF Shape
  <2>6. CreatorUpToDate'
    BY <2>1 DEF CreatorUpToDate
  <2>7. OneHistory'
    <3>1. PICK h : History(h, chain) /\ \A m \in Nodes : accounts[m] = h[height[m]]
      BY Zenon DEF OneHistory
    <3>2. chain \in Seq(Seq(Txs))
      BY DEF Shape
    <3>3. PICK g : /\ History(g, Append(chain, b.txs))
                   /\ \A k \in 0..Len(chain) : g[k] = h[k]
                   /\ g[Len(chain) + 1] = ProcessTransactions(h[Len(chain)], b.txs)
      BY SMTT(30), <2>3, <3>1, <3>2, HistoryGrows
    <3>4. ASSUME NEW m \in Nodes PROVE accounts'[m] = g[height'[m]]
      <4>1. CASE m = n
        <5>1. accounts'[n] = ProcessTransactions(h[Len(chain)], b.txs)
          BY SMTT(30), <2>2, <2>3, <3>1 DEF accts, Shape
        <5>2. height'[n] = Len(chain) + 1
          BY <2>2, <2>3 DEF Shape
        <5> QED
          BY SMTT(30), <4>1, <5>1, <5>2, <3>3
      <4>2. CASE m # n
        <5>1. accounts'[m] = h[height[m]] /\ height'[m] = height[m]
          BY <4>2, <2>2, <3>1 DEF Shape
        <5>2. height[m] \in 0..Len(chain)
          BY DEF Shape
        <5> QED
          BY <5>1, <5>2, <3>3
      <4> QED
        BY <4>1, <4>2
    <3>5. History(g, chain')
      BY <3>3, <2>1
    <3> QED
      BY <3>4, <3>5 DEF OneHistory
  <2> QED
    BY <2>5, <2>6, <2>7
<1>5. ASSUME NEW n \in Nodes, HandleBlockBroadcast(n)
      PROVE  Inv'
  <2> DEFINE b == chain[height[n] + 1]
             accts == ProcessTransactions(accounts[n], b)
  <2>1. /\ accounts' = [accounts EXCEPT ![n] = accts]
        /\ mempool' = [mempool EXCEPT ![n] = RefreshMempool(accts, @, b)]
        /\ height' = [height EXCEPT ![n] = @ + 1]
        /\ height[n] < Len(chain)
        /\ UNCHANGED <<adding, creating, chain>>
    BY <1>5 DEF HandleBlockBroadcast, ProcessNextBlock
  <2> HIDE DEF accts
  <2>2. RefreshMempool(accts, mempool[n], b) \subseteq mempool[n]
    BY Zenon DEF RefreshMempool
  <2> HIDE DEF b
  <2>3. Shape'
    <3>1. /\ DOMAIN accounts' = Nodes
          /\ mempool' \in [Nodes -> SUBSET Txs]
          /\ height' \in [Nodes -> Nat]
      BY <2>1, <2>2 DEF Shape
    <3>2. \A m \in Nodes : height'[m] <= Len(chain')
      BY <2>1 DEF Shape
    <3> QED
      BY <3>1, <3>2, <2>1 DEF Shape
  <2>4. CreatorUpToDate'
    BY <2>1 DEF CreatorUpToDate, Shape
  <2>5. OneHistory'
    <3>1. PICK h : History(h, chain) /\ \A m \in Nodes : accounts[m] = h[height[m]]
      BY Zenon DEF OneHistory
    <3>2. /\ height[n] + 1 \in 1..Len(chain)
          /\ (height[n] + 1) - 1 = height[n]
      BY SMTT(30), <2>1 DEF Shape
    <3>3. h[height[n] + 1] = ProcessTransactions(h[height[n]], b)
      BY <3>1, <3>2 DEF History, b
    <3>4. accounts'[n] = h[height'[n]]
      BY <2>1, <3>1, <3>3 DEF accts, Shape
    <3>5. \A m \in Nodes \ {n} : accounts'[m] = h[height'[m]]
      BY <2>1, <3>1 DEF Shape
    <3>6. History(h, chain')
      BY <2>1, <3>1
    <3> QED
      BY <3>4, <3>5, <3>6 DEF OneHistory
  <2> QED
    BY SMTT(30), <2>3, <2>4, <2>5
<1>6. CASE UNCHANGED vars
  BY Zenon, <1>6 DEF vars, Shape, CreatorUpToDate, OneHistory
<1> QED
  BY SMTT(30), <1>1, <1>2, <1>3, <1>4, <1>5, <1>6 DEF Next

(* Nodes that have processed the same blocks have the same accounts, for    *)
(* any transactions and any initial accounts (State::processNextBlock).     *)
THEOREM StatesAgree == Spec => []ReplicasAgree
<1>1. Inv => ReplicasAgree
  BY DEF Inv, OneHistory, ReplicasAgree
<1> QED
  BY <1>1, InitInv, NextInv, PTL DEF Spec

-----------------------------------------------------------------------------
(* What was filled into a block is still in the mempool it came from.       *)
Pooled == \A b \in creating : Range(b.txs) \subseteq mempool[b.node]

(* Only a block processed takes transactions out of a mempool, and the node *)
(* that builds a block has none to process but that one.                    *)
LEMMA NextPooled == Inv /\ Pooled /\ [Next]_vars => Pooled'
<1> SUFFICES ASSUME Inv, Pooled, [Next]_vars PROVE Pooled'
  OBVIOUS
<1>0. mempool \in [Nodes -> SUBSET Txs]
  BY Zenon DEF Inv, Shape
<1>1. ASSUME creating' = creating, \A b \in creating : mempool[b.node] \subseteq mempool'[b.node]
      PROVE  Pooled'
  BY Zenon, <1>1 DEF Pooled
<1>2. ASSUME NEW n \in Nodes, NEW tx \in Txs, ValidateTx(n, tx) PROVE Pooled'
  BY Zenon, <1>1, <1>2 DEF ValidateTx
<1>3. ASSUME NEW n \in Nodes, NEW tx \in adding[n], InsertTx(n, tx) PROVE Pooled'
  <2>1. \A m \in Nodes : mempool[m] \subseteq mempool'[m]
    BY Zenon, <1>0, <1>3 DEF InsertTx
  <2>2. \A b \in creating : b.node \in Nodes
    BY Zenon DEF Inv, CreatorUpToDate
  <2> QED
    BY Zenon, <1>1, <1>3, <2>1, <2>2 DEF InsertTx
<1>4. ASSUME NEW n \in Nodes, FillBlockWithTransactions(n) PROVE Pooled'
  <2>1. PICK txs \in Injection(1..Cardinality(mempool[n]), mempool[n]) :
          creating' = {[node |-> n, txs |-> txs]}
    BY Zenon, <1>4 DEF FillBlockWithTransactions
  <2>2. txs \in [1..Cardinality(mempool[n]) -> mempool[n]]
    BY Zenon DEF Injection
  <2>3. Range(txs) \subseteq mempool[n]
    BY Zenon, <2>2 DEF Range
  <2>4. mempool' = mempool
    BY Zenon, <1>4 DEF FillBlockWithTransactions
  <2> DEFINE b == [node |-> n, txs |-> txs]
  <2>5. b.node = n /\ b.txs = txs
    BY Zenon
  <2> HIDE DEF b
  <2>6. creating' = {b}
    BY Zenon, <2>1 DEF b
  <2> QED
    BY Zenon, <2>3, <2>4, <2>5, <2>6 DEF Pooled
<1>5. ASSUME NEW n \in Nodes, ProcessOwnBlock(n) PROVE Pooled'
  BY Zenon, <1>5 DEF ProcessOwnBlock, Pooled
<1>6. ASSUME NEW n \in Nodes, HandleBlockBroadcast(n) PROVE Pooled'
  <2>1. height[n] < Len(chain) /\ UNCHANGED creating
    BY Zenon, <1>6 DEF HandleBlockBroadcast
  <2>2. \A b \in creating : b.node \in Nodes /\ height[b.node] = Len(chain)
    BY Zenon DEF Inv, CreatorUpToDate
  <2>3. height[n] # Len(chain)
    BY <2>1 DEF Inv, Shape
  <2>4. \A m \in Nodes : m # n => mempool'[m] = mempool[m]
    BY Zenon, <1>0, <1>6 DEF HandleBlockBroadcast, ProcessNextBlock
  <2> QED
    BY Zenon, <1>1, <2>1, <2>2, <2>3, <2>4
<1>7. CASE UNCHANGED vars
  BY Zenon, <1>1, <1>7 DEF vars
<1> QED
  BY Zenon, <1>2, <1>3, <1>4, <1>5, <1>6, <1>7 DEF Next

(* A creator never refuses the block it has filled from its mempool         *)
(* (fillBlockWithTransactions, then validateNextBlock), whatever addTx has  *)
(* put there.                                                               *)
THEOREM CreatorsAccept == Spec => []CreatorAccepts
<1>1. Inv /\ Pooled => CreatorAccepts
  <2> SUFFICES ASSUME Inv, Pooled, NEW b \in creating, NEW at \in 1..Len(b.txs)
               PROVE  b.txs[at] \in mempool[b.node]
    BY Zenon DEF CreatorAccepts, ValidateNextBlock, ValidateTransactionInternal
  <2>1. at \in DOMAIN b.txs
    BY DEF Inv, CreatorUpToDate
  <2> QED
    BY Zenon, <2>1 DEF Pooled, Range
<1>2. Init => Pooled
  BY Zenon DEF Init, Pooled
<1> QED
  BY <1>1, <1>2, InitInv, NextInv, NextPooled, PTL DEF Spec

-----------------------------------------------------------------------------
(* A nonempty set of natural numbers has a least element.                   *)
LEMMA LeastNat ==
  ASSUME NEW S \in SUBSET Nat, S # {}
  PROVE  \E m \in S : \A k \in S : m <= k
<1>1. PICK R : IsWellFoundedOn(R, Nat) /\ R = {p \in Nat \X Nat : p[1] < p[2]}
  BY Zenon, NatLessThanWellFounded DEF OpToRel
<1>2. PICK m \in S : \A k \in S : ~(<<k, m>> \in R)
  BY Zenon, <1>1, WFMin
<1>3. ASSUME NEW k \in S PROVE m <= k
  <2>1. ~(<<k, m>> \in {p \in Nat \X Nat : p[1] < p[2]})
    BY Zenon, <1>1, <1>2
  <2>2. <<k, m>> \in Nat \X Nat /\ <<k, m>>[1] = k /\ <<k, m>>[2] = m
    OBVIOUS
  <2>3. ~(k < m)
    BY Zenon, <2>1, <2>2
  <2> QED
    BY <2>3
<1> QED
  BY Zenon, <1>3

(* Induction, for a set of natural numbers.                                 *)
LEMMA SetInduction ==
  ASSUME NEW S \in SUBSET Nat, 0 \in S, \A k \in S : k + 1 \in S
  PROVE  S = Nat
<1> SUFFICES ASSUME Nat \ S # {} PROVE FALSE
  BY Zenon
<1>1. PICK m \in Nat \ S : \A k \in Nat \ S : m <= k
  BY Zenon, LeastNat
<1>2. m - 1 \in Nat /\ m - 1 \notin Nat \ S
  BY <1>1
<1>3. (m - 1) + 1 \in S
  BY Zenon, <1>2
<1> QED
  BY <1>1, <1>3

(* after[k] are the accounts after k transactions of the block.             *)
IsAfter(after, accts, block, len) ==
  after = [k \in 0..len |->
             IF k = 0 THEN accts ELSE ProcessTransaction(after[k - 1], block[k])]

(* The loop over the transactions of a block defines such accounts.         *)
LEMMA AfterExists ==
  ASSUME NEW accts, NEW block, NEW len \in Nat
  PROVE  \E after : IsAfter(after, accts, block, len)
<1> DEFINE S == {k \in Nat : \E g : IsAfter(g, accts, block, k)}
<1>1. 0 \in S
  <2> DEFINE g == [k \in 0..0 |-> accts]
  <2>1. IsAfter(g, accts, block, 0)
    BY DEF IsAfter
  <2> QED
    BY <2>1
<1>2. ASSUME NEW k \in S PROVE k + 1 \in S
  <2>1. PICK g : IsAfter(g, accts, block, k)
    BY Zenon
  <2> DEFINE h == [j \in 0..(k + 1) |->
                     IF j <= k THEN g[j] ELSE ProcessTransaction(g[k], block[k + 1])]
  <2>2. ASSUME NEW j \in 0..(k + 1)
        PROVE  h[j] = IF j = 0 THEN accts ELSE ProcessTransaction(h[j - 1], block[j])
    <3>1. CASE j = 0
      BY <2>1, <3>1 DEF IsAfter
    <3>2. CASE j \in 1..k
      <4>1. j - 1 \in 0..k /\ j \in 0..k /\ j # 0 /\ j - 1 \in 0..(k + 1) /\ j - 1 <= k /\ j <= k
        BY <3>2
      <4>2. h[j] = g[j] /\ h[j - 1] = g[j - 1]
        BY <4>1
      <4>3. g[j] = ProcessTransaction(g[j - 1], block[j])
        BY Zenon, <2>1, <4>1 DEF IsAfter
      <4> QED
        BY Zenon, <4>1, <4>2, <4>3
    <3>3. CASE j = k + 1
      <4>1. j - 1 = k /\ j # 0 /\ h[j - 1] = g[k] /\ ~(j <= k)
        BY <3>3
      <4>2. h[j] = ProcessTransaction(g[k], block[k + 1])
        BY Zenon, <3>3, <4>1
      <4> QED
        BY Zenon, <3>3, <4>1, <4>2
    <3> QED
      BY <3>1, <3>2, <3>3
  <2>3. IsAfter(h, accts, block, k + 1)
    BY Zenon, <2>2 DEF IsAfter
  <2> QED
    BY <2>3
<1> HIDE DEF S
<1>3. S = Nat
  <2>1. S \in SUBSET Nat
    BY Zenon DEF S
  <2> QED
    BY Zenon, <1>1, <1>2, <2>1, SetInduction
<1> QED
  BY Zenon, <1>3 DEF S

(* processNextBlock's loop is the last of them.                             *)
LEMMA ProcessTransactionsIsAfter ==
  ASSUME NEW accts, NEW block, Len(block) \in Nat
  PROVE  \E after : /\ IsAfter(after, accts, block, Len(block))
                    /\ ProcessTransactions(accts, block) = after[Len(block)]
<1>1. \E after : IsAfter(after, accts, block, Len(block))
  BY Zenon, AfterExists
<1> DEFINE f == CHOOSE after : after = [k \in 0..Len(block) |->
                IF k = 0 THEN accts ELSE ProcessTransaction(after[k - 1], block[k])]
<1>2. IsAfter(f, accts, block, Len(block))
  BY Zenon, <1>1 DEF IsAfter
<1>3. ProcessTransactions(accts, block) = f[Len(block)]
  BY ZenonT(30) DEF ProcessTransactions
<1> QED
  BY Zenon, <1>2, <1>3

-----------------------------------------------------------------------------
(* Accounts, and what an account is before its first transaction.           *)
Accts(accts) == \A a \in DOMAIN accts : accts[a] \in [balance : Nat, nonce : Nat]
Old(accts, a) == IF a \in DOMAIN accts THEN accts[a] ELSE [balance |-> 0, nonce |-> 0]

(* What one transaction does to the accounts (State::processTransaction):   *)
(* the sender's nonce grows by one, also when the debit throws, and no      *)
(* other nonce changes; a transaction the sender can pay moves its value    *)
(* and its fee and leaves all other balances alone; no balance goes below   *)
(* zero.                                                                    *)
THEOREM TransactionEffect ==
  ASSUME NEW accts, Accts(accts),
         NEW tx, tx.from \in DOMAIN accts, tx.value \in Nat, tx.fee \in Nat
  PROVE  LET after == ProcessTransaction(accts, tx)
             paid == TxValueWithFees(tx) <= accts[tx.from].balance
         IN /\ Accts(after)
            /\ DOMAIN after = IF paid THEN DOMAIN accts \cup {tx.to} ELSE DOMAIN accts
            /\ \A a \in DOMAIN after :
                 after[a].nonce = Old(accts, a).nonce + (IF a = tx.from THEN 1 ELSE 0)
            /\ paid => \A a \in DOMAIN after :
                 after[a].balance = Old(accts, a).balance
                                      - (IF a = tx.from THEN TxValueWithFees(tx) ELSE 0)
                                      + (IF a = tx.to THEN tx.value ELSE 0)
<1> DEFINE from == tx.from
           to == tx.to
           cost == TxValueWithFees(tx)
           paid == cost <= accts[from].balance
           after == ProcessTransaction(accts, tx)
<1>1. cost \in Nat /\ cost >= tx.value /\ accts[from] \in [balance : Nat, nonce : Nat]
  BY SMTT(30) DEF TxValueWithFees, Accts
<1>2. CASE paid
  <2> DEFINE debited == [accts EXCEPT ![from].balance = @ - cost]
             moved == Credit(debited, to, tx.value)
  <2>1. /\ DOMAIN debited = DOMAIN accts
        /\ \A a \in DOMAIN accts :
             /\ debited[a] \in [balance : Nat, nonce : Nat]
             /\ debited[a].nonce = accts[a].nonce
             /\ debited[a].balance = accts[a].balance - (IF a = from THEN cost ELSE 0)
    BY <1>1, <1>2 DEF Accts
  <2>2. after = [moved EXCEPT ![from].nonce = @ + 1]
    BY Zenon, <1>2 DEF ProcessTransaction
  <2> HIDE DEF debited
  <2>3. /\ DOMAIN moved = DOMAIN accts \cup {to}
        /\ \A a \in DOMAIN moved :
             /\ moved[a] \in [balance : Nat, nonce : Nat]
             /\ moved[a].nonce = Old(accts, a).nonce
             /\ moved[a].balance = Old(accts, a).balance - (IF a = from THEN cost ELSE 0)
                                     + (IF a = to THEN tx.value ELSE 0)
    BY <2>1 DEF Credit, Old
  <2> HIDE DEF moved
  <2>4. from \in DOMAIN moved
    BY Zenon, <2>3
  <2>5. /\ DOMAIN after = DOMAIN moved
        /\ \A a \in DOMAIN moved :
             /\ after[a] \in [balance : Nat, nonce : Nat]
             /\ after[a].balance = moved[a].balance
             /\ after[a].nonce = moved[a].nonce + (IF a = from THEN 1 ELSE 0)
    BY SMTT(30), <2>2, <2>3, <2>4
  <2> HIDE DEF after, cost
  <2> QED  BY SMTT(30), <1>2, <2>3, <2>5 DEF Accts, after, cost
<1>3. CASE ~paid
  <2> DEFINE moved == [accts EXCEPT ![from].balance = AfterUnderflow(@, cost) + tx.value]
  <2>1. AfterUnderflow(accts[from].balance, cost) + tx.value \in Nat
    BY SMTT(30), <1>1, <1>3 DEF AfterUnderflow
  <2>2. after = [moved EXCEPT ![from].nonce = @ + 1]
    BY Zenon, <1>3 DEF ProcessTransaction
  <2>3. /\ DOMAIN moved = DOMAIN accts
        /\ \A a \in DOMAIN accts : /\ moved[a] \in [balance : Nat, nonce : Nat]
                                   /\ moved[a].nonce = accts[a].nonce
    BY <1>1, <2>1 DEF Accts
  <2> HIDE DEF moved
  <2>4. /\ DOMAIN after = DOMAIN accts
        /\ \A a \in DOMAIN accts :
             /\ after[a] \in [balance : Nat, nonce : Nat]
             /\ after[a].nonce = accts[a].nonce + (IF a = from THEN 1 ELSE 0)
    BY <2>2, <2>3
  <2> HIDE DEF after, cost
  <2> QED  BY Zenon, <1>3, <2>4 DEF Accts, after, cost, Old
<1> QED  BY SMTT(30), <1>2, <1>3

(* What a block does to the accounts (State::processNextBlock): they stay   *)
(* accounts, none goes, and every nonce grows by the transactions the block *)
(* has of the account.                                                      *)
THEOREM BlockEffect ==
  ASSUME NEW accts, Accts(accts), NEW block \in Seq(Txs),
         \A k \in DOMAIN block : block[k].from \in DOMAIN accts
  PROVE  LET after == ProcessTransactions(accts, block)
         IN /\ Accts(after)
            /\ DOMAIN accts \subseteq DOMAIN after
            /\ \A a \in DOMAIN after :
                 after[a].nonce = Old(accts, a).nonce + Cardinality(SentIn(block, a))
<1> DEFINE L == Len(block)
           Sent(k, a) == {j \in 1..k : block[j].from = a}
<1>1. L \in Nat /\ DOMAIN block = 1..L
  OBVIOUS
<1>2. PICK after : /\ IsAfter(after, accts, block, L)
                   /\ ProcessTransactions(accts, block) = after[L]
  BY Zenon, <1>1, ProcessTransactionsIsAfter
<1> DEFINE Good(k) ==
      /\ Accts(after[k])
      /\ DOMAIN accts \subseteq DOMAIN after[k]
      /\ \A a \in DOMAIN after[k] :
           after[k][a].nonce = Old(accts, a).nonce + Cardinality(Sent(k, a))
           S == {k \in Nat : k \in 0..L => Good(k)}
<1> HIDE DEF L
<1>3. ASSUME NEW a PROVE Old(accts, a).nonce \in Nat
  BY DEF Old, Accts
<1>4. ASSUME NEW k \in Nat, NEW a PROVE IsFiniteSet(Sent(k, a)) /\ Cardinality(Sent(k, a)) \in Nat
  <2>1. IsFiniteSet(1..k)
    BY FS_Interval
  <2>2. Sent(k, a) \subseteq 1..k
    BY Zenon
  <2> QED
    BY Zenon, <2>1, <2>2, FS_Subset, FS_CardinalityType
<1>5. 0 \in S
  <2>1. after[0] = accts
    BY <1>1, <1>2 DEF IsAfter
  <2>2. ASSUME NEW a \in DOMAIN accts PROVE accts[a].nonce = Old(accts, a).nonce + Cardinality(Sent(0, a))
    <3>1. Sent(0, a) = {}
      OBVIOUS
    <3>2. Cardinality(Sent(0, a)) = 0
      BY Zenon, <3>1, FS_EmptySet
    <3>3. Old(accts, a) = accts[a]
      BY Zenon DEF Old
    <3> HIDE DEF Sent
    <3> QED
      BY <3>2, <3>3, <1>3
  <2> QED
    BY Zenon, <2>1, <2>2
<1>6. ASSUME NEW k \in S PROVE k + 1 \in S
  <2> HIDE DEF Good
  <2> SUFFICES ASSUME k + 1 \in 0..L PROVE Good(k + 1)
    BY k + 1 \in Nat
  <2> USE DEF Good
  <2> DEFINE old == after[k]
             tx == block[k + 1]
             new == after[k + 1]
             paid == TxValueWithFees(tx) <= old[tx.from].balance
  <2>1. k \in Nat /\ k \in 0..L /\ k + 1 \in 1..L /\ k + 1 # 0 /\ (k + 1) - 1 = k
    BY <1>1
  <2>2. Good(k)
    BY Zenon, <2>1
  <2>3. new = ProcessTransaction(old, tx)
    BY Zenon, <1>2, <2>1 DEF IsAfter
  <2>4. tx \in Txs /\ tx.from \in DOMAIN accts /\ tx.value \in Nat /\ tx.fee \in Nat
    BY <1>1, <2>1, TxsAssumption DEF L
  <2> HIDE DEF old, tx, new, S, Sent
  <2>5. Accts(old) /\ DOMAIN accts \subseteq DOMAIN old
    BY Zenon, <2>2 DEF old
  <2>6. /\ Accts(new)
        /\ DOMAIN new = IF paid THEN DOMAIN old \cup {tx.to} ELSE DOMAIN old
        /\ \A a \in DOMAIN new :
             new[a].nonce = Old(old, a).nonce + (IF a = tx.from THEN 1 ELSE 0)
    <3>1. Accts(ProcessTransaction(old, tx))
      BY Zenon, <2>4, <2>5, TransactionEffect
    <3>2. DOMAIN ProcessTransaction(old, tx) = IF paid THEN DOMAIN old \cup {tx.to} ELSE DOMAIN old
      BY Zenon, <2>4, <2>5, TransactionEffect
    <3>3. \A a \in DOMAIN ProcessTransaction(old, tx) :
            ProcessTransaction(old, tx)[a].nonce
              = Old(old, a).nonce + (IF a = tx.from THEN 1 ELSE 0)
      BY ZenonT(30), <2>4, <2>5, TransactionEffect
    <3> QED
      BY Zenon, <2>3, <3>1, <3>2, <3>3
  <2>7. DOMAIN old \subseteq DOMAIN new
    BY Zenon, <2>6
  <2>8. ASSUME NEW a \in DOMAIN new
        PROVE  new[a].nonce = Old(accts, a).nonce + Cardinality(Sent(k + 1, a))
    <3>1. Old(old, a).nonce = Old(accts, a).nonce + Cardinality(Sent(k, a))
      <4>1. CASE a \in DOMAIN old
        BY Zenon, <4>1, <2>2 DEF Old, old
      <4>2. CASE a \notin DOMAIN old
        <5>1. Old(old, a).nonce = 0 /\ Old(accts, a).nonce = 0
          BY <4>2, <2>5 DEF Old
        <5>2. Sent(k, a) = {}
          BY <4>2, <2>5, <2>1, <1>1 DEF Sent
        <5>3. Cardinality(Sent(k, a)) = 0
          BY Zenon, <5>2, FS_EmptySet
        <5> QED
          BY <5>1, <5>3
      <4> QED
        BY Zenon, <4>1, <4>2
    <3>2. CASE a = tx.from
      <4>1. Sent(k + 1, a) = Sent(k, a) \cup {k + 1} /\ k + 1 \notin Sent(k, a)
        BY <3>2, <2>1 DEF Sent, tx
      <4>2. Cardinality(Sent(k + 1, a)) = Cardinality(Sent(k, a)) + 1
        BY ZenonT(30), <4>1, <1>4, <2>1, FS_AddElement
      <4>3. new[a].nonce = Old(old, a).nonce + 1
        BY Zenon, <2>6, <3>2
      <4> QED
        BY SMTT(30), <4>2, <4>3, <3>1, <1>3, <1>4, <2>1
    <3>3. CASE a # tx.from
      <4>1. Sent(k + 1, a) = Sent(k, a)
        BY <3>3, <2>1 DEF Sent, tx
      <4>2. new[a].nonce = Old(old, a).nonce + 0
        BY Zenon, <2>6, <3>3
      <4> QED
        BY SMTT(30), <4>1, <4>2, <3>1, <1>3, <1>4, <2>1
    <3> QED
      BY Zenon, <3>2, <3>3
  <2> QED
    BY Zenon, <2>5, <2>6, <2>7, <2>8 DEF new
<1>7. L \in S
  <2>1. S \in SUBSET Nat
    BY Zenon
  <2> HIDE DEF S
  <2> QED
    BY Zenon, <1>1, <1>5, <1>6, <2>1, SetInduction
<1>8. Good(L)
  BY <1>1, <1>7
<1>9. ASSUME NEW a PROVE Sent(L, a) = SentIn(block, a)
  BY Zenon, <1>1 DEF SentIn
<1> HIDE DEF Sent
<1> QED
  BY Zenon, <1>2, <1>8, <1>9

-----------------------------------------------------------------------------
(* The accounts of every node: none is lost, whoever signed a transaction   *)
(* that is waiting or was executed has one, and the nonces count.           *)
Ledger ==
  \A n \in Nodes :
    /\ Accts(accounts[n])
    /\ DOMAIN InitialAccounts \subseteq DOMAIN accounts[n]
    /\ \A tx \in mempool[n] \cup adding[n] : tx.from \in DOMAIN accounts[n]
    /\ \A k \in 1..height[n] : \A j \in DOMAIN chain[k] : chain[k][j].from \in DOMAIN accounts[n]
    /\ \A a \in DOMAIN accounts[n] :
         /\ IsFiniteSet(Executed(n, a))
         /\ accounts[n][a].nonce = FirstNonce(a) + Cardinality(Executed(n, a))

(* The accounts a node starts with.                                         *)
LEMMA InitLedger == Init => Ledger
<1> SUFFICES ASSUME Init, NEW n \in Nodes
             PROVE  /\ Accts(accounts[n])
                    /\ DOMAIN InitialAccounts \subseteq DOMAIN accounts[n]
                    /\ \A tx \in mempool[n] \cup adding[n] : tx.from \in DOMAIN accounts[n]
                    /\ \A k \in 1..height[n] :
                         \A j \in DOMAIN chain[k] : chain[k][j].from \in DOMAIN accounts[n]
                    /\ \A a \in DOMAIN accounts[n] :
                         /\ IsFiniteSet(Executed(n, a))
                         /\ accounts[n][a].nonce = FirstNonce(a) + Cardinality(Executed(n, a))
  BY Zenon DEF Ledger
<1>1. /\ accounts[n] = InitialAccounts /\ mempool[n] = {} /\ adding[n] = {}
      /\ height[n] = 0 /\ 1..height[n] = {}
  BY SMTT(30) DEF Init
<1>2. ASSUME NEW a \in DOMAIN accounts[n]
      PROVE  /\ IsFiniteSet(Executed(n, a))
             /\ accounts[n][a].nonce = FirstNonce(a) + Cardinality(Executed(n, a))
  <2>1. Executed(n, a) = {}
    BY Zenon, <1>1 DEF Executed
  <2>2. IsFiniteSet(Executed(n, a)) /\ Cardinality(Executed(n, a)) = 0
    BY Zenon, <2>1, FS_EmptySet
  <2>3. FirstNonce(a) = InitialAccounts[a].nonce /\ InitialAccounts[a].nonce \in Nat
    BY <1>1, AccountsAssumption DEF FirstNonce
  <2> QED
    BY <1>1, <2>2, <2>3
<1>3. Accts(accounts[n])
  BY Zenon, <1>1, AccountsAssumption DEF Accts
<1> QED
  BY Zenon, <1>1, <1>2, <1>3

(* The positions of a block, as positions of the chain.                     *)
LEMMA NextBlockCounts ==
  ASSUME NEW E, IsFiniteSet(E), NEW P, IsFiniteSet(P), NEW k,
         \A e \in E : e[1] # k
  PROVE  /\ IsFiniteSet(E \cup ({k} \X P))
         /\ Cardinality(E \cup ({k} \X P)) = Cardinality(E) + Cardinality(P)
<1> DEFINE Q == {k} \X P
<1>1. IsFiniteSet({k}) /\ Cardinality({k}) = 1
  BY Zenon, FS_Singleton
<1>2. IsFiniteSet(Q) /\ Cardinality(Q) = 1 * Cardinality(P)
  BY Zenon, <1>1, FS_Product
<1>3. Cardinality(E) \in Nat /\ Cardinality(P) \in Nat /\ Cardinality(Q) \in Nat
  BY Zenon, <1>2, FS_CardinalityType
<1>4. E \cap Q = {}
  <2> SUFFICES ASSUME NEW e \in E, e \in Q PROVE FALSE
    BY Zenon
  <2> QED
    OBVIOUS
<1> HIDE DEF Q
<1>5. IsFiniteSet(E \cup Q)
  BY Zenon, <1>2, FS_Union
<1>6. Cardinality(E \cup Q) = Cardinality(E) + Cardinality(Q)
  <2>1. Cardinality(E \cup Q) = Cardinality(E) + Cardinality(Q) - Cardinality(E \cap Q)
    BY Zenon, <1>2, FS_Union
  <2>2. Cardinality(E \cap Q) = 0
    BY Zenon, <1>4, FS_EmptySet
  <2> QED
    BY <2>1, <2>2, <1>3
<1>7. Cardinality(E \cup Q) = Cardinality(E) + Cardinality(P)
  BY <1>2, <1>3, <1>6
<1> QED
  BY Zenon, <1>5, <1>7 DEF Q

(* A block processed keeps the ledger: the senders of its transactions have *)
(* accounts, because validateNextBlock accepts nothing else.                *)
LEMMA BlockKeepsLedger ==
  ASSUME Inv, Ledger, NEW n \in Nodes, NEW block \in Seq(Txs), ProcessNextBlock(n, block),
         adding' = adding,
         \A k \in 1..Len(chain) : chain'[k] = chain[k],
         chain'[height[n] + 1] = block
  PROVE  Ledger'
<1> DEFINE old == accounts[n]
           new == ProcessTransactions(accounts[n], block)
           top == height[n] + 1
<1>1. /\ accounts' = [accounts EXCEPT ![n] = new]
      /\ mempool' = [mempool EXCEPT ![n] = RefreshMempool(new, @, block)]
      /\ height' = [height EXCEPT ![n] = @ + 1]
      /\ ValidateNextBlock(n, block)
  BY Zenon DEF ProcessNextBlock
<1>2. height[n] \in Nat /\ height[n] <= Len(chain) /\ Len(chain) \in Nat
  BY DEF Inv, Shape
<1>3. Accts(old) /\ DOMAIN InitialAccounts \subseteq DOMAIN old
  BY Zenon DEF Ledger
<1>4. DOMAIN block = 1..Len(block)
  OBVIOUS
<1>5. \A j \in DOMAIN block : block[j].from \in DOMAIN old
  BY Zenon, <1>1, <1>4 DEF Ledger, ValidateNextBlock, ValidateTransactionInternal
<1>6. /\ Accts(new)
      /\ DOMAIN old \subseteq DOMAIN new
      /\ \A a \in DOMAIN new : new[a].nonce = Old(old, a).nonce + Cardinality(SentIn(block, a))
  BY Zenon, <1>3, <1>5, BlockEffect
<1>7. RefreshMempool(new, mempool[n], block) \subseteq mempool[n]
  BY Zenon DEF RefreshMempool
<1>8. /\ accounts'[n] = new /\ height'[n] = top
      /\ mempool'[n] \subseteq mempool[n]
      /\ \A m \in Nodes : m # n => /\ accounts'[m] = accounts[m] /\ height'[m] = height[m]
                                   /\ mempool'[m] = mempool[m]
  <2> HIDE DEF new
  <2> QED
    BY <1>1, <1>7 DEF Inv, Shape
<1>9. ASSUME NEW m \in Nodes, NEW k \in 1..height[m] PROVE chain'[k] = chain[k]
  <2>1. height[m] \in Nat /\ height[m] <= Len(chain) /\ Len(chain) \in Nat
    BY DEF Inv, Shape
  <2>2. k \in 1..Len(chain)
    BY <2>1
  <2> QED
    BY Zenon, <2>2
<1> HIDE DEF new
<1>10. ASSUME NEW m \in Nodes, m # n
       PROVE  /\ Accts(accounts'[m])
              /\ DOMAIN InitialAccounts \subseteq DOMAIN accounts'[m]
              /\ \A tx \in mempool'[m] \cup adding'[m] : tx.from \in DOMAIN accounts'[m]
              /\ \A k \in 1..height'[m] :
                   \A j \in DOMAIN chain'[k] : chain'[k][j].from \in DOMAIN accounts'[m]
              /\ \A a \in DOMAIN accounts'[m] :
                   /\ IsFiniteSet(Executed(m, a)')
                   /\ accounts'[m][a].nonce = FirstNonce(a) + Cardinality(Executed(m, a)')
  <2>1. ASSUME NEW a PROVE Executed(m, a)' = Executed(m, a)
    BY <1>8, <1>9, <1>10 DEF Executed
  <2>2. /\ accounts'[m] = accounts[m] /\ height'[m] = height[m]
        /\ mempool'[m] = mempool[m] /\ adding'[m] = adding[m]
        /\ \A k \in 1..height[m] : chain'[k] = chain[k]
    BY ZenonT(30), <1>8, <1>9, <1>10
  <2>3. \A k \in 1..height'[m] :
          \A j \in DOMAIN chain'[k] : chain'[k][j].from \in DOMAIN accounts'[m]
    <3> TAKE k \in 1..height'[m]
    <3>1. k \in 1..height[m] /\ chain'[k] = chain[k]
      BY SMTT(30), <2>2
    <3> QED
      BY <2>2, <3>1 DEF Ledger
  <2>4. ASSUME NEW a \in DOMAIN accounts'[m]
        PROVE  /\ IsFiniteSet(Executed(m, a)')
               /\ accounts'[m][a].nonce = FirstNonce(a) + Cardinality(Executed(m, a)')
    <3>1. a \in DOMAIN accounts[m] /\ accounts'[m][a] = accounts[m][a]
      BY Zenon, <2>2
    <3>2. /\ IsFiniteSet(Executed(m, a))
          /\ accounts[m][a].nonce = FirstNonce(a) + Cardinality(Executed(m, a))
      BY Zenon, <3>1 DEF Ledger
    <3> QED
      BY <2>1, <3>1, <3>2
  <2>5. /\ Accts(accounts'[m])
        /\ DOMAIN InitialAccounts \subseteq DOMAIN accounts'[m]
        /\ \A tx \in mempool'[m] \cup adding'[m] : tx.from \in DOMAIN accounts'[m]
    BY <2>2 DEF Ledger
  <2> QED
    BY Zenon, <2>3, <2>4, <2>5
<1>11. \A tx \in mempool'[n] \cup adding'[n] : tx.from \in DOMAIN new
  BY Zenon, <1>6, <1>8 DEF Ledger
<1>12. \A k \in 1..top : \A j \in DOMAIN chain'[k] : chain'[k][j].from \in DOMAIN new
  <2> TAKE k \in 1..top
  <2>1. k \in 1..height[n] \/ k = top
    BY <1>2
  <2>2. CASE k \in 1..height[n]
    <3>1. chain'[k] = chain[k]
      BY Zenon, <1>9, <2>2
    <3> QED
      BY Zenon, <3>1, <2>2, <1>6 DEF Ledger
  <2>3. CASE k = top
    BY Zenon, <2>3, <1>5, <1>6
  <2> QED
    BY Zenon, <2>1, <2>2, <2>3
<1>13. ASSUME NEW a \in DOMAIN new
       PROVE  /\ IsFiniteSet(Executed(n, a)')
              /\ new[a].nonce = FirstNonce(a) + Cardinality(Executed(n, a)')
  <2> DEFINE E == Executed(n, a)
             P == SentIn(block, a)
  <2>1. Executed(n, a)' = E \cup ({top} \X P)
    <3>1. Executed(n, a)' = UNION {{k} \X SentIn(chain'[k], a) : k \in 1..top}
      BY <1>8 DEF Executed, SentIn
    <3>2. 1..top = (1..height[n]) \cup {top}
      BY <1>2
    <3>3. {{k} \X SentIn(chain'[k], a) : k \in 1..top}
            = {{k} \X SentIn(chain[k], a) : k \in 1..height[n]} \cup {{top} \X P}
      BY Zenon, <3>2, <1>9
    <3> QED
      BY ZenonT(30), <3>1, <3>3 DEF Executed
  <2>2. \A e \in E : e[1] # top
    <3> TAKE e \in E
    <3>1. PICK k \in 1..height[n] : e \in {k} \X SentIn(chain[k], a)
      BY Zenon DEF Executed
    <3>2. e[1] = k
      BY <3>1
    <3> QED
      BY <3>2, <1>2
  <2>3. IsFiniteSet(P)
    <3>1. IsFiniteSet(1..Len(block)) /\ P \subseteq 1..Len(block)
      BY FS_Interval DEF SentIn
    <3> QED
      BY Zenon, <3>1, FS_Subset
  <2>4. IsFiniteSet(E) /\ Old(old, a).nonce = FirstNonce(a) + Cardinality(E)
    <3>1. CASE a \in DOMAIN old
      BY Zenon, <3>1 DEF Ledger, Old
    <3>2. CASE a \notin DOMAIN old
      <4>1. Old(old, a).nonce = 0 /\ FirstNonce(a) = 0
        BY <3>2, <1>3 DEF Old, FirstNonce
      <4>2. E = {}
        <5> SUFFICES ASSUME NEW e \in E PROVE FALSE
          BY Zenon
        <5>1. PICK k \in 1..height[n] : e \in {k} \X SentIn(chain[k], a)
          BY Zenon DEF Executed
        <5>2. PICK j \in SentIn(chain[k], a) : TRUE
          BY <5>1
        <5> QED
          BY Zenon, <5>2, <3>2 DEF Ledger, SentIn
      <4>3. IsFiniteSet(E) /\ Cardinality(E) = 0
        BY Zenon, <4>2, FS_EmptySet
      <4> QED
        BY SMTT(30), <4>1, <4>3
    <3> QED
      BY Zenon, <3>1, <3>2
  <2> HIDE DEF E, P
  <2>5. /\ IsFiniteSet(E \cup ({top} \X P))
        /\ Cardinality(E \cup ({top} \X P)) = Cardinality(E) + Cardinality(P)
        /\ Cardinality(E) \in Nat /\ Cardinality(P) \in Nat
    <3>1. IsFiniteSet(E)
      BY Zenon, <2>4
    <3>2. IsFiniteSet(E \cup ({top} \X P))
      BY Zenon, <3>1, <2>2, <2>3, NextBlockCounts
    <3>3. Cardinality(E \cup ({top} \X P)) = Cardinality(E) + Cardinality(P)
      BY Zenon, <3>1, <2>2, <2>3, NextBlockCounts
    <3> QED
      BY Zenon, <3>1, <3>2, <3>3, <2>3, FS_CardinalityType
  <2>6. new[a].nonce = Old(old, a).nonce + Cardinality(P)
    BY Zenon, <1>6 DEF P
  <2>7. FirstNonce(a) \in Nat
    BY SMTT(30), AccountsAssumption DEF FirstNonce
  <2>8. new[a].nonce = FirstNonce(a) + Cardinality(E \cup ({top} \X P))
    BY <2>4, <2>5, <2>6, <2>7
  <2> QED
    BY Zenon, <2>1, <2>5, <2>8
<1> QED
  BY Zenon, <1>3, <1>6, <1>8, <1>10, <1>11, <1>12, <1>13 DEF Ledger

(* Every step keeps the ledger.                                             *)
LEMMA NextLedger == Inv /\ Ledger /\ [Next]_vars => Ledger'
<1> SUFFICES ASSUME Inv, Ledger, [Next]_vars PROVE Ledger'
  OBVIOUS
<1>0. mempool \in [Nodes -> SUBSET Txs] /\ adding \in [Nodes -> SUBSET Txs]
  BY Zenon DEF Inv, Shape
<1>1. ASSUME UNCHANGED <<accounts, chain, height>>,
             \A n \in Nodes : \A tx \in mempool'[n] \cup adding'[n] : tx.from \in DOMAIN accounts[n]
      PROVE  Ledger'
  <2>1. ASSUME NEW n, NEW a PROVE Executed(n, a)' = Executed(n, a)
    BY <1>1 DEF Executed, SentIn
  <2> QED
    BY Zenon, <1>1, <2>1 DEF Ledger
<1>2. ASSUME NEW n \in Nodes, NEW tx \in Txs, ValidateTx(n, tx) PROVE Ledger'
  <2>1. tx.from \in DOMAIN accounts[n]
    BY Zenon, <1>2 DEF Ledger, ValidateTx, ValidateTransactionInternal
  <2>2. \A m \in Nodes : \A x \in mempool'[m] \cup adding'[m] :
          x \in mempool[m] \cup adding[m] \/ (m = n /\ x = tx)
    BY <1>0, <1>2 DEF ValidateTx
  <2>3. \A m \in Nodes : \A x \in mempool'[m] \cup adding'[m] : x.from \in DOMAIN accounts[m]
    BY Zenon, <2>1, <2>2 DEF Ledger
  <2> QED
    BY Zenon, <1>1, <1>2, <2>3 DEF ValidateTx
<1>3. ASSUME NEW n \in Nodes, NEW tx \in adding[n], InsertTx(n, tx) PROVE Ledger'
  <2>1. \A m \in Nodes : \A x \in mempool'[m] \cup adding'[m] : x \in mempool[m] \cup adding[m]
    BY <1>0, <1>3 DEF InsertTx
  <2>2. \A m \in Nodes : \A x \in mempool'[m] \cup adding'[m] : x.from \in DOMAIN accounts[m]
    BY Zenon, <2>1 DEF Ledger
  <2> QED
    BY Zenon, <1>1, <1>3, <2>2 DEF InsertTx
<1>4. ASSUME NEW n \in Nodes, FillBlockWithTransactions(n) PROVE Ledger'
  BY Zenon, <1>1, <1>4 DEF FillBlockWithTransactions, Ledger
<1>5. ASSUME NEW n \in Nodes, ProcessOwnBlock(n) PROVE Ledger'
  <2>1. PICK b \in creating :
          /\ b.node = n
          /\ ProcessNextBlock(n, b.txs)
          /\ chain' = Append(chain, b.txs)
          /\ UNCHANGED adding
    BY Zenon, <1>5 DEF ProcessOwnBlock
  <2>2. b.txs \in Seq(Txs) /\ height[n] = Len(chain) /\ chain \in Seq(Seq(Txs))
    BY Zenon, <2>1 DEF Inv, CreatorUpToDate, Shape
  <2>3. /\ \A k \in 1..Len(chain) : chain'[k] = chain[k]
        /\ chain'[height[n] + 1] = b.txs
    BY <2>1, <2>2
  <2> QED
    BY Zenon, <2>1, <2>2, <2>3, BlockKeepsLedger
<1>6. ASSUME NEW n \in Nodes, HandleBlockBroadcast(n) PROVE Ledger'
  <2>1. /\ height[n] < Len(chain)
        /\ ProcessNextBlock(n, chain[height[n] + 1])
        /\ UNCHANGED <<adding, chain>>
    BY Zenon, <1>6 DEF HandleBlockBroadcast
  <2>2. chain[height[n] + 1] \in Seq(Txs)
    BY <2>1 DEF Inv, Shape
  <2> QED
    BY Zenon, <2>1, <2>2, BlockKeepsLedger
<1>7. CASE UNCHANGED vars
  BY Zenon, <1>1, <1>7 DEF vars, Ledger
<1> QED
  BY Zenon, <1>2, <1>3, <1>4, <1>5, <1>6, <1>7 DEF Next

(* The nonce of an account counts the executed transactions of the account, *)
(* for any nodes, transactions and initial accounts (the ++nonce of         *)
(* State::processTransaction, after the catch block).                       *)
THEOREM NoncesCount == Spec => []NonceCountsTxs
<1>1. Ledger => NonceCountsTxs
  BY Zenon DEF Ledger, NonceCountsTxs
<1> QED
  BY <1>1, InitInv, NextInv, InitLedger, NextLedger, PTL DEF Spec

(* Whoever signed a transaction of a block that validateNextBlock accepts   *)
(* has an account, which processTransaction uses unchecked.                 *)
THEOREM SendersHaveAccounts == Spec => []SendersExist
<1>1. Ledger => SendersExist
  BY Zenon DEF Ledger, SendersExist, ValidateNextBlock, ValidateTransactionInternal
<1> QED
  BY <1>1, InitInv, NextInv, InitLedger, NextLedger, PTL DEF Spec

(* At most one block is in the making. *)
OneCreating == Cardinality(creating) <= 1

(* fillBlockWithTransactions starts a block only when there is none.        *)
LEMMA NextCreating == OneCreating /\ [Next]_vars => OneCreating'
<1> SUFFICES ASSUME OneCreating, [Next]_vars PROVE OneCreating'
  OBVIOUS
<1>1. Cardinality({}) = 0 /\ \A x : Cardinality({x}) = 1
  BY Zenon, FS_EmptySet, FS_Singleton
<1>2. UNCHANGED creating \/ creating' = {} \/ \E x : creating' = {x}
  BY Zenon DEF Next, vars, ValidateTx, InsertTx, FillBlockWithTransactions, ProcessOwnBlock,
               HandleBlockBroadcast
<1>3. CASE UNCHANGED creating
  BY Zenon, <1>3 DEF OneCreating
<1>4. CASE creating' = {}
  BY <1>1, <1>4 DEF OneCreating
<1>5. CASE \E x : creating' = {x}
  <2>1. Cardinality(creating') = 1
    BY Zenon, <1>1, <1>5
  <2> QED
    BY <2>1 DEF OneCreating
<1> QED
  BY Zenon, <1>2, <1>3, <1>4, <1>5

(* The types of State: in particular no account's balance goes below zero   *)
(* and no node is ahead of the chain (State::processNextBlock).             *)
THEOREM StateIsTyped == Spec => []TypeOK
<1>1. Inv /\ Ledger /\ OneCreating => TypeOK
  <2> SUFFICES ASSUME Inv, Ledger, OneCreating PROVE TypeOK
    BY Zenon
  <2>1. height \in [Nodes -> 0..Len(chain)]
    BY DEF Inv, Shape
  <2> QED
    BY Zenon, <2>1 DEF Inv, Shape, CreatorUpToDate, Ledger, Accts, OneCreating, TypeOK
<1>2. Init => OneCreating
  BY FS_EmptySet DEF Init, OneCreating
<1> QED
  BY <1>1, <1>2, InitInv, NextInv, InitLedger, NextLedger, NextCreating, PTL DEF Spec

-----------------------------------------------------------------------------
(* Safe integers. *)

Value == 0..Limit

(* In range, the remainder modulo 2^w changes nothing.                       *)
LEMMA WrapInRange == ASSUME SafeUintAssumption, NEW n \in Value PROVE Wrap(n) = n
  BY DEF SafeUintAssumption, Wrap, Value

(* Addition.                                                                 *)
LEMMA AddExact ==
  ASSUME SafeUintAssumption, NEW a \in Value, NEW b \in Value
  PROVE  Add(a, b) = IF a + b > Limit THEN Overflow ELSE a + b
<1>1. a + b <= Limit => a + b \in Value
  BY DEF SafeUintAssumption, Value
<1> QED BY <1>1, WrapInRange DEF SafeUintAssumption, Add, Value

(* Subtraction.                                                              *)
LEMMA SubExact ==
  ASSUME SafeUintAssumption, NEW a \in Value, NEW b \in Value
  PROVE  Sub(a, b) = IF a - b < 0 THEN Underflow ELSE a - b
<1>1. a >= b => a - b \in Value
  BY DEF SafeUintAssumption, Value
<1> QED BY <1>1, WrapInRange DEF SafeUintAssumption, Sub, Value

(* The comparison with the quotient decides whether the product fits.        *)
LEMMA QuotientBound ==
  ASSUME NEW a \in Nat, NEW b \in Nat \ {0}, NEW m \in Nat
  PROVE  a > m \div b <=> a * b > m
<1> DEFINE q == m \div b
<1>1. q \in Nat /\ b * q <= m /\ m < b * q + b
  BY SMTT(30)
<1>2. a <= q => a * b <= q * b
  BY <1>1, SMTT(30)
<1>3. a >= q + 1 => a * b >= (q + 1) * b
  BY <1>1, SMTT(30)
<1>4. (q + 1) * b = b * q + b /\ q * b = b * q /\ a * b \in Nat
  BY <1>1, SMTT(30)
<1> HIDE DEF q
<1>5. CASE a <= q
  BY <1>1, <1>2, <1>4, <1>5
<1>6. CASE a >= q + 1
  BY <1>1, <1>3, <1>4, <1>6
<1>7. a <= q \/ a >= q + 1
  BY <1>1
<1>8. a > q <=> a * b > m
  BY <1>1, <1>2, <1>3, <1>4, <1>7
<1> QED BY Zenon, <1>8 DEF q

(* Multiplication.                                                           *)
LEMMA MulExact ==
  ASSUME SafeUintAssumption, NEW a \in Value, NEW b \in Value
  PROVE  Mul(a, b) = IF a = 0 \/ b = 0 THEN Domain
                     ELSE IF a * b > Limit THEN Overflow ELSE a * b
<1>1. CASE a = 0 \/ b = 0
  BY <1>1 DEF Mul
<1>2. CASE ~(a = 0 \/ b = 0)
  <2>1. a > Limit \div b <=> a * b > Limit
    BY <1>2, QuotientBound DEF SafeUintAssumption, Value
  <2>2. a * b \in Nat
    BY DEF Value
  <2>3. ~(a * b > Limit) => Wrap(a * b) = a * b
    <3> DEFINE p == a * b
    <3> HIDE DEF p
    <3>1. p \in Nat => (~(p > Limit) => Wrap(p) = p)
      BY WrapInRange DEF SafeUintAssumption, Value
    <3> QED BY <3>1, <2>2 DEF p
  <2> QED BY <1>2, <2>1, <2>3 DEF Mul
<1> QED BY <1>1, <1>2

(* Increment and decrement.                                                  *)
LEMMA IncDecExact ==
  ASSUME SafeUintAssumption, NEW a \in Value
  PROVE  /\ Inc(a) = IF a + 1 > Limit THEN Overflow ELSE a + 1
         /\ Dec(a) = IF a - 1 < 0 THEN Underflow ELSE a - 1
<1>1. (a # Limit => a + 1 \in Value) /\ (a # 0 => a - 1 \in Value)
  BY DEF SafeUintAssumption, Value
<1> QED BY <1>1, WrapInRange DEF SafeUintAssumption, Inc, Dec, Value

(* Division and remainder.                                                   *)
LEMMA DivModExact ==
  ASSUME SafeUintAssumption, NEW a \in Value, NEW b \in Value
  PROVE  /\ a = 0 \/ b = 0 => Div(a, b) = Domain /\ Mod(a, b) = Domain
         /\ ~(a = 0 \/ b = 0) => /\ Div(a, b) = a \div b /\ a \div b \in Value
                                /\ Mod(a, b) = a % b /\ a % b \in Value
<1>1. b # 0 => a \div b \in Nat /\ a \div b <= a /\ a % b \in Nat /\ a % b <= a
  BY SMTT(30) DEF Value
<1> QED BY <1>1 DEF SafeUintAssumption, Div, Mod, Value

(* The inductive invariant adds the ranges. *)
IInv ==
  /\ value \in Value /\ current \in Value
  /\ NeverWraps
  /\ RefusedExactly

(* One operation, from what it returns. *)
LEMMA ApplyKeepsIInv ==
  ASSUME SafeUintAssumption, IInv, NEW op, NEW b \in Value, NEW r, NEW e, Apply(op, b, r, e),
         r \in Errors \/ (r \in Value /\ r = e)
  PROVE  /\ value' \in Value /\ current' \in Value /\ NeverWraps'
         /\ last' = [op |-> op, a |-> current, b |-> b, r |-> r]
<1>1. r \in Value => r \notin Errors
  BY DEF SafeUintAssumption, Value
<1> QED BY <1>1 DEF Apply, IInv, NeverWraps

(* Every operation keeps the invariant.                                      *)
LEMMA NextKeepsIInv == ASSUME SafeUintAssumption, IInv, [SafeUintNext]_safeUintVars PROVE IInv'
<1> DEFINE Done(op, b, r) ==
      /\ value' \in Value /\ current' \in Value /\ NeverWraps'
      /\ last' = [op |-> op, a |-> current, b |-> b, r |-> r]
<1>0. /\ exact[2] = current /\ current \in Value /\ current \in Int
      /\ \A b \in Operands : b \in Value /\ b \in Int
      /\ 1 \in Value
      /\ \A e \in Errors : e \notin Value
      /\ Overflow \in Errors /\ Underflow \in Errors /\ Domain \in Errors
  BY DEF SafeUintAssumption, IInv, NeverWraps, Value, Errors
<1>1. ASSUME NEW b \in Operands, Assign(b) PROVE IInv'
  <2>1. Done("=", b, b)
    BY SMTT(30), <1>0, <1>1, ApplyKeepsIInv DEF Assign
  <2> QED BY SMTT(30), <2>1 DEF IInv, RefusedExactly
<1>2. ASSUME NEW b \in Operands, AddAssign(b) PROVE IInv'
  <2>1. Add(current, b) = IF current + b > Limit THEN Overflow ELSE current + b
    BY Zenon, <1>0, AddExact
  <2>2. current + b <= Limit => current + b \in Value
    BY SMTT(30), <1>0 DEF SafeUintAssumption, Value
  <2>3. Done("+=", b, Add(current, b))
    BY SMTT(30), <1>0, <1>2, <2>1, <2>2, ApplyKeepsIInv DEF SafeUintAssumption, AddAssign
  <2> QED BY <1>0, <2>1, <2>2, <2>3 DEF SafeUintAssumption, IInv, RefusedExactly
<1>3. ASSUME NEW b \in Operands, SubAssign(b) PROVE IInv'
  <2>1. Sub(current, b) = IF current - b < 0 THEN Underflow ELSE current - b
    BY Zenon, <1>0, SubExact
  <2>2. current - b >= 0 => current - b \in Value
    BY SMTT(30), <1>0 DEF SafeUintAssumption, Value
  <2>3. Done("-=", b, Sub(current, b))
    BY SMTT(30), <1>0, <1>3, <2>1, <2>2, ApplyKeepsIInv DEF SafeUintAssumption, SubAssign
  <2> QED BY <1>0, <2>1, <2>2, <2>3 DEF SafeUintAssumption, IInv, RefusedExactly
<1>4. ASSUME NEW b \in Operands, MulAssign(b) PROVE IInv'
  <2> DEFINE p == current * b
  <2>1. Mul(current, b) = IF current = 0 \/ b = 0 THEN Domain
                          ELSE IF p > Limit THEN Overflow ELSE p
    BY Zenon, <1>0, MulExact
  <2>2. p \in Nat
    BY <1>0 DEF Value
  <2>3. exact[2] * b = p
    BY <1>0
  <2> HIDE DEF p
  <2>4. p <= Limit => p \in Value
    BY SMTT(30), <2>2 DEF SafeUintAssumption, Value
  <2>5. Done("*=", b, Mul(current, b))
    BY SMTT(30), <1>0, <1>4, <2>1, <2>2, <2>3, <2>4, ApplyKeepsIInv DEF SafeUintAssumption, MulAssign
  <2>6. last'.a * last'.b = p
    BY SMTT(30), <2>5 DEF p
  <2> QED BY SMTT(30), <1>0, <2>1, <2>2, <2>4, <2>5, <2>6 DEF SafeUintAssumption, IInv, RefusedExactly
<1>5. ASSUME NEW b \in Operands, DivAssign(b) PROVE IInv'
  <2>1. /\ current = 0 \/ b = 0 => Div(current, b) = Domain
        /\ ~(current = 0 \/ b = 0) => Div(current, b) = current \div b /\ current \div b \in Value
    BY SMTT(30), <1>0, DivModExact
  <2>2. Done("/=", b, Div(current, b))
    BY SMTT(30), <1>0, <1>5, <2>1, ApplyKeepsIInv DEF DivAssign
  <2> QED BY <1>0, <2>1, <2>2 DEF IInv, RefusedExactly
<1>6. ASSUME NEW b \in Operands, ModAssign(b) PROVE IInv'
  <2>1. /\ current = 0 \/ b = 0 => Mod(current, b) = Domain
        /\ ~(current = 0 \/ b = 0) => Mod(current, b) = current % b /\ current % b \in Value
    BY SMTT(30), <1>0, DivModExact
  <2>2. Done("%=", b, Mod(current, b))
    BY SMTT(30), <1>0, <1>6, <2>1, ApplyKeepsIInv DEF ModAssign
  <2> QED BY <1>0, <2>1, <2>2 DEF IInv, RefusedExactly
<1>7. ASSUME Increment PROVE IInv'
  <2>1. Inc(current) = IF current + 1 > Limit THEN Overflow ELSE current + 1
    BY <1>0, IncDecExact
  <2>2. current + 1 <= Limit => current + 1 \in Value
    BY SMTT(30), <1>0 DEF SafeUintAssumption, Value
  <2>3. Done("++", 1, Inc(current))
    BY SMTT(30), <1>0, <1>7, <2>1, <2>2, ApplyKeepsIInv DEF SafeUintAssumption, Increment
  <2> QED BY <1>0, <2>1, <2>2, <2>3 DEF SafeUintAssumption, IInv, RefusedExactly
<1>8. ASSUME Decrement PROVE IInv'
  <2>1. Dec(current) = IF current - 1 < 0 THEN Underflow ELSE current - 1
    BY Zenon, <1>0, IncDecExact
  <2>2. current - 1 >= 0 => current - 1 \in Value
    BY SMTT(30), <1>0 DEF SafeUintAssumption, Value
  <2>3. Done("--", 1, Dec(current))
    BY SMTT(30), <1>0, <1>8, <2>1, <2>2, ApplyKeepsIInv DEF SafeUintAssumption, Decrement
  <2> QED BY <1>0, <2>1, <2>2, <2>3 DEF SafeUintAssumption, IInv, RefusedExactly
<1>9. CASE Commit \/ UNCHANGED safeUintVars
  BY SMTT(30), <1>9 DEF Commit, safeUintVars, IInv, NeverWraps, RefusedExactly
<1> QED BY SMTT(30), <1>1, <1>2, <1>3, <1>4, <1>5, <1>6, <1>7, <1>8, <1>9 DEF SafeUintNext

(* A new variable.                                                           *)
LEMMA InitIInv ==
  ASSUME SafeUintAssumption
  PROVE  SafeUintInit => IInv
  BY DEF SafeUintAssumption, SafeUintInit, IInv, NeverWraps, RefusedExactly, Value

(* Whatever the width, no sequence of operations on a Safe integer wraps.    *)
THEOREM ArithmeticNeverWraps ==
  ASSUME SafeUintAssumption
  PROVE  SafeUintSpec => []NeverWraps
<1>1. IInv /\ [SafeUintNext]_safeUintVars => IInv'
  BY NextKeepsIInv
<1>2. IInv => NeverWraps
  BY DEF IInv
<1> QED BY InitIInv, <1>1, <1>2, PTL DEF SafeUintSpec

(* Whatever the width, the checks of SafeUint refuse an operation exactly    *)
(* when its result does not fit or, for *, / and %, an operand is zero.      *)
THEOREM ChecksAreExact ==
  ASSUME SafeUintAssumption
  PROVE  SafeUintSpec => []RefusedExactly
<1>1. IInv /\ [SafeUintNext]_safeUintVars => IInv'
  BY Zenon, NextKeepsIInv
<1>2. IInv => RefusedExactly
  BY Zenon DEF IInv
<1> QED BY InitIInv, <1>1, <1>2, PTL DEF SafeUintSpec

-----------------------------------------------------------------------------
(* RandomGen::shuffle. *)

(* Every element has one place, and the loop has not left the vector. *)
ShuffleInv == Permuted /\ i \in 0..N /\ seed \in Seeds

\* The arithmetic of the remainder the loop rests on.
LEMMA RemainderBounds ==
  ASSUME NEW x \in Nat, NEW y \in Nat \ {0}
  PROVE  x % y \in 0..(y - 1)
  BY SMTT(30)

\* std::swap of two positions of the vector keeps every element once.
LEMMA SwapPermutes ==
  ASSUME NEW w, IsOrder(w), NEW n \in 0..(N - 1), NEW m \in 0..(N - 1)
  PROVE  IsOrder(Swap(w, n, m))
<1> DEFINE s == Swap(w, n, m)
<1>1. /\ s \in [0..(N - 1) -> Elements]
      /\ s[n] = w[m] /\ s[m] = w[n]
      /\ \A j \in 0..(N - 1) : j # n /\ j # m => s[j] = w[j]
  BY Zenon DEF Swap, IsOrder
<1>2. ASSUME NEW e \in Elements PROVE \E j \in 0..(N - 1) : s[j] = e
  <2>1. PICK j \in 0..(N - 1) : w[j] = e
    BY Zenon DEF IsOrder
  <2>2. CASE j = n
    BY <2>1, <2>2, <1>1
  <2>3. CASE j = m
    BY SMTT(30), <2>1, <2>3, <1>1
  <2>4. CASE j # n /\ j # m
    BY <2>1, <2>4, <1>1
  <2> QED BY <2>2, <2>3, <2>4
<1>3. ASSUME NEW j \in 0..(N - 1), NEW k \in 0..(N - 1), s[j] = s[k] PROVE j = k
  BY <1>1, <1>3 DEF IsOrder
<1> QED BY <1>1, <1>2, <1>3 DEF IsOrder

\* The position a pass chooses is not settled and inside the vector.
LEMMA ChosenInside ==
  ASSUME ShuffleAssumption, ShuffleInv, Pass
  PROVE  /\ i \in 0..(N - 1)
         /\ Chosen(seed') \in i..(N - 1)
         /\ seed' \in Seeds
<1>1. N \in Nat /\ i \in 0..(N - 1) /\ N - i \in Nat \ {0}
  BY DEF ShuffleAssumption, ShuffleInv, Pass
<1>2. seed' \in Seeds /\ seed' \in Nat
  BY Zenon DEF ShuffleAssumption, ShuffleInv, Pass
<1>3. seed' % (N - i) \in 0..(N - i - 1)
  BY Zenon, <1>1, <1>2, RemainderBounds
<1>4. ASSUME NEW r \in 0..(N - i - 1) PROVE i + r \in i..(N - 1)
  BY <1>1
<1>5. Chosen(seed') \in i..(N - 1)
  BY <1>3, <1>4 DEF Chosen
<1> QED BY Zenon, <1>1, <1>2, <1>5

\* Every pass of shuffle keeps the invariant.
LEMMA PassKeepsInv ==
  ASSUME ShuffleAssumption
  PROVE  ShuffleInv /\ [Pass]_shuffleVars => ShuffleInv'
<1> SUFFICES ASSUME ShuffleInv, [Pass]_shuffleVars PROVE ShuffleInv'
  OBVIOUS
<1>1. CASE Pass
  <2>1. Chosen(seed') \in 0..(N - 1)
    BY SMTT(30), <1>1, ChosenInside DEF ShuffleAssumption
  <2>2. Permuted'
    BY SMTT(30), <1>1, <2>1, ChosenInside, SwapPermutes DEF ShuffleInv, Permuted, Pass
  <2>3. i' \in 0..N
    BY <1>1 DEF ShuffleAssumption, ShuffleInv, Pass
  <2> QED BY SMTT(30), <1>1, <2>2, <2>3, ChosenInside DEF ShuffleInv
<1>2. CASE UNCHANGED shuffleVars
  BY <1>2 DEF ShuffleInv, Permuted, shuffleVars
<1> QED BY <1>1, <1>2

\* The order of the validators a seed determines holds every validator once,
\* for any number of them and any hash.
THEOREM ShufflePermutes ==
  ASSUME ShuffleAssumption
  PROVE  ShuffleSpec => []Permuted
<1>1. ShuffleInit => ShuffleInv
  BY DEF ShuffleAssumption, ShuffleInit, ShuffleInv, Permuted
<1>2. ShuffleInv => Permuted
  BY Zenon DEF ShuffleInv
<1> QED BY <1>1, <1>2, PassKeepsInv, PTL DEF ShuffleSpec

\* No pass changes what an earlier pass has settled.
THEOREM SettledForGood ==
  ASSUME ShuffleAssumption
  PROVE  ShuffleSpec => SettledStays
<1>1. ShuffleInit => ShuffleInv
  BY DEF ShuffleAssumption, ShuffleInit, ShuffleInv, Permuted
<1>2. ShuffleInv /\ [Pass]_shuffleVars => [\A j \in 0..(i - 1) : v'[j] = v[j]]_shuffleVars
  <2> SUFFICES ASSUME ShuffleInv, Pass, NEW j \in 0..(i - 1) PROVE v'[j] = v[j]
    OBVIOUS
  <2>1. i \in 0..(N - 1) /\ Chosen(seed') \in i..(N - 1)
    BY ChosenInside
  <2>2. v' = Swap(v, Chosen(seed'), i)
    BY Zenon DEF Pass
  <2>3. v \in [0..(N - 1) -> Elements] /\ j \in 0..(N - 1)
    BY <2>1 DEF ShuffleAssumption, ShuffleInv, Permuted, IsOrder
  <2> QED BY <2>1, <2>2, <2>3 DEF ShuffleAssumption, Swap
<1> QED BY <1>1, <1>2, PassKeepsInv, PTL DEF ShuffleSpec, SettledStays

=============================================================================
