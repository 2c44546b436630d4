------------------------------- MODULE State -------------------------------
(***************************************************************************)
(* The native accounts and the transaction mempool of every node           *)
(* (src/core/state.cpp), driven by the calls of the other components:      *)
(*   - addTx, from the RPC server and from broadcast transactions: it      *)
(*     validates under a shared lock and inserts under a unique one;       *)
(*   - fillBlockWithTransactions and processNextBlock, from the Syncer of  *)
(*     the node whose turn it is to create a block;                        *)
(*   - processNextBlock, from the handler of broadcast blocks.             *)
(*                                                                         *)
(* Which block comes next is rdPoS's business (Consensus.tla): here the    *)
(* blocks form one chain, and each node is some way along it.  Transfers   *)
(* go to plain accounts; contract calls are not part of this module.       *)
(***************************************************************************)
EXTENDS Integers, Sequences, FiniteSets, Functions

CONSTANTS
  Nodes,
  Txs,              \* the transactions clients sign: from, to, value, fee, nonce
  InitialAccounts,  \* the accounts every node starts with
  KeptOnUnderflow,  \* whether a subtraction that throws leaves its target as it was
  MaxAdding,        \* bound: calls of addTx between their two halves, per node
  MaxBlocks         \* bound: no block is created beyond this height

ASSUME TxsAssumption ==
  IsFiniteSet(Txs) /\ \A tx \in Txs : tx.value \in Nat /\ tx.fee \in Nat

ASSUME AccountsAssumption ==
  \A a \in DOMAIN InitialAccounts : InitialAccounts[a] \in [balance : Nat, nonce : Nat]

VARIABLES
  accounts,   \* State::accounts
  mempool,    \* State::mempool
  adding,     \* transactions addTx has validated and not inserted yet
  creating,   \* the block doValidatorBlock is building: empty, or one
  chain,      \* the blocks created so far, as sequences of transactions
  height      \* how many of them each node has processed

vars == <<accounts, mempool, adding, creating, chain, height>>

Init ==
  /\ accounts = [n \in Nodes |-> InitialAccounts]
  /\ mempool = [n \in Nodes |-> {}]
  /\ adding = [n \in Nodes |-> {}]
  /\ creating = {}
  /\ chain = <<>>
  /\ height = [n \in Nodes |-> 0]

-----------------------------------------------------------------------------
TxValueWithFees(tx) == tx.value + tx.fee

(* Variant of ValidateTransactionInternal: a sender without an account      *)
(* counts as one with balance and nonce 0.                                  *)
ValidateTransactionOfAnyone(accts, pool, tx) ==
  \/ tx \in pool
  \/ IF tx.from \in DOMAIN accts
     THEN TxValueWithFees(tx) <= accts[tx.from].balance /\ tx.nonce = accts[tx.from].nonce
     ELSE TxValueWithFees(tx) = 0 /\ tx.nonce = 0

(* Variant: a transaction in the mempool is validated again.                *)
ValidateTransactionAgain(accts, pool, tx) ==
  /\ tx.from \in DOMAIN accts
  /\ TxValueWithFees(tx) <= accts[tx.from].balance
  /\ tx.nonce = accts[tx.from].nonce

(* A transaction in the mempool is not validated again. *)
ValidateTransactionInternal(accts, pool, tx) ==
  \/ tx \in pool
  \/ /\ tx.from \in DOMAIN accts
     /\ TxValueWithFees(tx) <= accts[tx.from].balance
     /\ tx.nonce = accts[tx.from].nonce

(* accounts[to].balance += value; operator[] creates a missing account. *)
Credit(accts, to, value) ==
  [a \in DOMAIN accts \cup {to} |->
     LET acct == IF a \in DOMAIN accts THEN accts[a] ELSE [balance |-> 0, nonce |-> 0]
     IN  IF a = to THEN [acct EXCEPT !.balance = @ + value] ELSE acct]

(* What a checked unsigned subtraction leaves behind when it throws. *)
AfterUnderflow(balance, cost) ==
  IF KeptOnUnderflow THEN balance ELSE cost - balance

(* Variant of ProcessTransaction: only a successful transaction uses up its *)
(* nonce.                                                                   *)
ProcessTransactionNonceOnSuccess(accts, tx) ==
  LET from == tx.from
      cost == TxValueWithFees(tx)
  IN  IF cost <= accts[from].balance
      THEN Credit([accts EXCEPT ![from] = [balance |-> @.balance - cost, nonce |-> @.nonce + 1]],
                  tx.to, tx.value)
      ELSE [accts EXCEPT ![from].balance = AfterUnderflow(@, cost) + tx.value]

(* Variant of ProcessTransaction: the debit is not checked.                 *)
ProcessTransactionUnchecked(accts, tx) ==
  LET debited == [accts EXCEPT ![tx.from] = [balance |-> @.balance - TxValueWithFees(tx),
                                             nonce |-> @.nonce + 1]]
  IN  Credit(debited, tx.to, tx.value)

(* A debit that throws ends in the catch block, which adds the value back;  *)
(* the nonce grows in any case.                                             *)
ProcessTransaction(accts, tx) ==
  LET from == tx.from
      cost == TxValueWithFees(tx)
      moved ==
        IF cost <= accts[from].balance
        THEN Credit([accts EXCEPT ![from].balance = @ - cost], tx.to, tx.value)
        ELSE [accts EXCEPT ![from].balance = AfterUnderflow(@, cost) + tx.value]
  IN  [moved EXCEPT ![from].nonce = @ + 1]

(* The accounts after the transactions of a block, one after the other.     *)
ProcessTransactions(accts, block) ==
  LET after[i \in 0..Len(block)] ==
        IF i = 0 THEN accts ELSE ProcessTransaction(after[i - 1], block[i])
  IN  after[Len(block)]

(* What is left of the mempool is validated against the new accounts. *)
RefreshMempool(accts, pool, block) ==
  {tx \in pool \ Range(block) : ValidateTransactionInternal(accts, {}, tx)}

ValidateNextBlock(n, block) ==
  \A i \in 1..Len(block) :
    ValidateTransactionInternal(accounts[n], mempool[n], block[i])

(* Variant of ProcessNextBlock: what the node has in its mempool counts as  *)
(* executed already.                                                        *)
ProcessNextBlockSkipsPooled(n, block) ==
  LET accts == ProcessTransactions(accounts[n],
                                   SelectSeq(block, LAMBDA tx : tx \notin mempool[n]))
  IN  /\ ValidateNextBlock(n, block)
      /\ accounts' = [accounts EXCEPT ![n] = accts]
      /\ mempool' = [mempool EXCEPT ![n] = RefreshMempool(accts, @, block)]
      /\ height' = [height EXCEPT ![n] = @ + 1]

ProcessNextBlock(n, block) ==
  LET accts == ProcessTransactions(accounts[n], block)
  IN  /\ ValidateNextBlock(n, block)
      /\ accounts' = [accounts EXCEPT ![n] = accts]
      /\ mempool' = [mempool EXCEPT ![n] = RefreshMempool(accts, @, block)]
      /\ height' = [height EXCEPT ![n] = @ + 1]

-----------------------------------------------------------------------------
(* addTx, first half: validateTransaction, under the shared lock. *)
ValidateTx(n, tx) ==
  /\ Cardinality(adding[n]) < MaxAdding
  /\ ValidateTransactionInternal(accounts[n], mempool[n], tx)
  /\ adding' = [adding EXCEPT ![n] = @ \cup {tx}]
  /\ UNCHANGED <<accounts, mempool, creating, chain, height>>

(* addTx, second half: the insertion, under the unique lock. *)
InsertTx(n, tx) ==
  /\ tx \in adding[n]
  /\ adding' = [adding EXCEPT ![n] = @ \ {tx}]
  /\ mempool' = [mempool EXCEPT ![n] = @ \cup {tx}]
  /\ UNCHANGED <<accounts, creating, chain, height>>

(* doValidatorBlock waits for a transaction, then fills the block; the      *)
(* mempool is a hash map, so in any order.                                  *)
FillBlockWithTransactions(n) ==
  /\ creating = {}
  /\ height[n] = Len(chain)
  /\ Len(chain) < MaxBlocks
  /\ mempool[n] # {}
  /\ \E txs \in Injection(1..Cardinality(mempool[n]), mempool[n]) :
       creating' = {[node |-> n, txs |-> txs]}
  /\ UNCHANGED <<accounts, mempool, adding, chain, height>>

(* doValidatorBlock processes and broadcasts the block it has built. *)
ProcessOwnBlock(n) ==
  \E b \in creating :
    /\ b.node = n
    /\ ProcessNextBlock(n, b.txs)
    /\ chain' = Append(chain, b.txs)
    /\ creating' = {}
    /\ UNCHANGED adding

(* handleBlockBroadcast of the next block; an invalid one is dropped. *)
HandleBlockBroadcast(n) ==
  /\ height[n] < Len(chain)
  /\ ProcessNextBlock(n, chain[height[n] + 1])
  /\ UNCHANGED <<adding, creating, chain>>

Next ==
  \E n \in Nodes :
    \/ \E tx \in Txs : ValidateTx(n, tx)
    \/ \E tx \in adding[n] : InsertTx(n, tx)
    \/ FillBlockWithTransactions(n)
    \/ ProcessOwnBlock(n)
    \/ HandleBlockBroadcast(n)

Spec == Init /\ [][Next]_vars

-----------------------------------------------------------------------------
(* Properties *)

Supply(accts) == SumFunction([a \in DOMAIN accts |-> accts[a].balance])

(* The type invariant. *)
TypeOK ==
  /\ \A n \in Nodes : \A a \in DOMAIN accounts[n] :
       accounts[n][a] \in [balance : Nat, nonce : Nat]
  /\ mempool \in [Nodes -> SUBSET Txs]
  /\ adding \in [Nodes -> SUBSET Txs]
  /\ Cardinality(creating) <= 1
  /\ \A b \in creating : b.node \in Nodes /\ b.txs \in Seq(Txs)
  /\ chain \in Seq(Seq(Txs))
  /\ height \in [Nodes -> 0..Len(chain)]

(* Nodes that have processed the same blocks have the same accounts,        *)
(* whatever is in their mempools (processTransaction depends on nothing     *)
(* but the accounts and the block).                                         *)
ReplicasAgree ==
  \A m, n \in Nodes : height[m] = height[n] => accounts[m] = accounts[n]

(* The nonce an account starts with: what the constructor loads, or none.   *)
FirstNonce(a) == IF a \in DOMAIN InitialAccounts THEN InitialAccounts[a].nonce ELSE 0

(* Where the transactions of account a are in a block, and in the blocks    *)
(* node n has processed.                                                    *)
SentIn(block, a) == {i \in DOMAIN block : block[i].from = a}
Executed(n, a) == UNION {{k} \X SentIn(chain[k], a) : k \in 1..height[n]}

(* The nonce of an account counts the transactions of the account that the  *)
(* node has executed, failed ones included (++nonce after the catch block). *)
NonceCountsTxs ==
  \A n \in Nodes : \A a \in DOMAIN accounts[n] :
    accounts[n][a].nonce = FirstNonce(a) + Cardinality(Executed(n, a))

(* validateNextBlock, which doValidatorBlock and processNextBlock ask about *)
(* the block its creator has filled, accepts it: nothing that happens to    *)
(* accounts and mempool in between, and no transaction that addTx has       *)
(* inserted on a validation that was no longer true, makes the creator      *)
(* throw on its own block (Consensus relies on it in SyncerSign).           *)
CreatorAccepts == \A b \in creating : ValidateNextBlock(b.node, b.txs)

(* The blocks a node may process next.                                      *)
NextBlocks(n) ==
  {b.txs : b \in {c \in creating : c.node = n}} \cup
  {chain[k] : k \in DOMAIN chain \cap {height[n] + 1}}

(* processTransaction takes for granted that the sender has an account      *)
(* (accountIt->second, unchecked).  It has one in every block that          *)
(* validateNextBlock lets pass, though what is in the mempool is not looked *)
(* up again and addTx validates in an earlier state than it inserts in.     *)
SendersExist ==
  \A n \in Nodes : \A block \in NextBlocks(n) :
    ValidateNextBlock(n, block) =>
      \A i \in 1..Len(block) : block[i].from \in DOMAIN accounts[n]

(* Refuted by TLC (README, Disagreements): no executed block has a          *)
(* transaction whose nonce is not the sender's nonce at its turn            *)
(* ("Transaction nonce must match account nonce").                          *)
NonceMatches ==
  [][\A n \in Nodes : height'[n] # height[n] =>
       LET block == chain'[height'[n]]
       IN  \A i \in 1..Len(block) :
             block[i].nonce =
               ProcessTransactions(accounts[n], SubSeq(block, 1, i - 1))[block[i].from].nonce
    ]_vars

(* Executing transactions creates no tokens: one that fails is reverted     *)
(* ("any state change that this transaction would cause has to be           *)
(* reverted").                                                              *)
SupplyNeverGrows ==
  [][\A n \in Nodes : Supply(accounts'[n]) <= Supply(accounts[n])]_vars

(* Refuted by TLC (README, Disagreements): no node rejects a block another  *)
(* node has created and processed.                                          *)
BlocksAccepted ==
  \A n \in Nodes : height[n] < Len(chain) =>
    ValidateNextBlock(n, chain[height[n] + 1])

=============================================================================
