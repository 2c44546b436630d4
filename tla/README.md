# A TLA+ development for the Orbiter SDK node

This directory models parts of the C++ node in `src/` (paths below are relative
to the repository's `src/` directory), model-checks them with TLC on small
instances and proves most of the safety results with TLAPS for instances of any
size.
`PROJECT.json` lists components, runs, the source lines behind each definition,
hazards, findings and theorems in machine-readable form.

## The system

A node (`core/blockchain.cpp`) owns one object of each of these parts:

| Part | Source | Role |
|---|---|---|
| rdPoS | `core/rdpos.*` | Validator set, per-round random order of the validators, mempool of validator transactions, block validation. A *worker* thread commits to and reveals randomness. |
| Syncer | `core/blockchain.*` | A thread that, on a validator, creates the block when the node is first in the random order. |
| State | `core/state.*` | Native accounts, mempool of transactions, validation and processing of blocks. |
| Storage | `core/storage.*` | The chain, lookup caches, the database. |
| P2P | `net/p2p/*` | Sessions, requests and answers, broadcasts; handlers run on a thread pool. |
| Contracts | `contract/*` | ContractManager, contracts and the `Safe*` variables that are committed or reverted. |
| HTTP, JSON-RPC | `net/http/*` | Accepts transactions and queries. |
| Utilities | `utils/*` | Blocks, transactions, Merkle trees, shuffle, hashing, database. |

A round, for the block of height *h*: the block of height *h-1* carries
randomness that shuffles the validators. `randomList[0]` creates the block;
`randomList[1..minValidators]` each publish the hash of a random value, wait,
and publish the value itself. The creator collects the `2 * minValidators`
transactions, puts them with the transactions of its state mempool in a block,
processes it and broadcasts it. Everybody else validates and processes it.
`State::processNextBlock` executes the transactions, gives the block to rdPoS
(new shuffle, empty validator mempool), refreshes the state mempool and gives
the block to Storage.

## Modules

- **RdPoS** has no variables. It defines the rdPoS rules as operators: which
  validator transaction a mempool takes (`AcceptsTx`), when a block is valid
  (`ValidateBlock`, `Extends`), what its randomness is (`ParseTxSeedList`), how
  a creator makes and signs one (`NewBlock`, `SignBlock`).
- **Consensus** composes, for every node, rdPoS, its worker, the Syncer, the
  chain of Storage and the P2P handlers of validator transactions and blocks.
  One action stands for what a thread does between two points at which another
  thread can interfere; `pc` fields are named after the function the thread is
  in. `sentTxs` and `sentBlocks` hold everything ever broadcast: a handler may
  take any element at any time, any number of times or never, which covers
  copies from several sessions, reordering, delay and loss.
- **State** models accounts and state mempool on several nodes: the two halves
  of `addTx`, filling, processing and receiving blocks. The chain is one
  sequence there, because Consensus shows that there is only one.
- **ChainStore** says what Storage promises: a chain that grows, is made durable
  as a whole and comes back after a crash. **Storage** is the code: constructor,
  destructor with its four writes, `pushBack`, every lookup, both caches, the
  lookups as threads that another thread can interrupt where the code holds no
  lock. A crash may fall between any two writes. `ImplementsChainStore` is the
  refinement.
- **Shutdown** extends Storage to the node: accounts, contracts and what they
  hold are written by the destructors before the chain. It is Storage, with its
  four writes and its lookups, that the run `restarts` checks there.
- **TxVars** says what the variables of a contract promise; **SafeVars** is
  `SafeBase` and its children: `check`, `markAsUsed`, `commit`, `revert`, and
  `SafeUnorderedMap` operation by operation. TxVars runs beside it.
  **SafeUint** is the checked arithmetic.
- **Contracts** has a token, its ERC20Wrapper and a NativeWrapper, called by
  transactions and simulations through State and ContractManager, with the flag
  `commit` and the temporary balances. Variables are transactional there, which
  SafeVars shows. The contracts exist from the beginning.
- **Sessions** is the map of sessions of a P2P manager, from connection to
  disconnection. **Requests** is the threads and the three locks around one
  session. **Gossip** floods validator transactions and blocks over a network.
  **Discovery** is the discovery workers of a network.
- **HttpSession** is one HTTP connection and its queue of responses.
- **Merkle** has no variables; **Block** uses it: a block is built, finalized,
  serialized and parsed, by one thread or several. **Shuffle** is the loop that
  orders the validators.
- Modules named **MC...** give the constants values for TLC; modules named
  **...Proofs** hold the theorems.

A definition whose comment begins with *Variant* is no part of a model. It is the
definition after it with a plausible mistake; with it in place TLC finds the
property PROJECT.json names violated, which shows that the property can fail.

Modelling decisions that need a justification:

- `processNextBlock` calls `rdPoS::processBlock` and then `Storage::pushBack`
  under `stateMutex`, but the worker, the Syncer and answers to requests read
  `randomList`, the mempool and the latest block under other locks. The two are
  two steps (`SyncerProcess`/`SyncerPushBack`, `HandlerProcess`/`HandlerPushBack`),
  and everything that needs `stateMutex` waits in between (`StateUnlocked`).
- The validation at the start of `processNextBlock` happens before the mutex is
  taken; it is merged with the validation the caller has just done, and the gap
  between it and the mutex is kept.
- `doValidatorBlock` from the copy of the list to the validation of the block is
  one step (`SyncerSign`). While a node is there its list and chain cannot
  change: only the creator of a round can extend the chain, which is part of the
  proof of `ChainsAgree` (lemma `NextBlockIsForeign`).
- Adding a transaction to the own mempool and broadcasting it is one step.
- The transactions of users in a block are a value of `Bodies`, chosen when the
  block is signed, so that two different blocks of one creator and round can be
  told apart. `Refused` says which nodes find which of them invalid; a creator
  accepts its own (`CreatorAccepts` of State). `finalize` writes what the clock of
  the creator shows, any of `Times`, into the block, or leaves the block unsigned
  if the clock is behind the previous block; then the validation fails and the
  exception ends the thread. The wait for a user's transaction is a step of its
  own (`SyncerSeesTx`), without fairness: nothing makes users send one. In State
  it is a guard.
- Hashing is injective; signatures cannot be forged, so the signer is a field.
- The scan of the list in `workerLoop` after `doTxCreation` runs without its lock.
  Finding the validator again means unlocking a lock that is not held, which
  throws and ends the thread: `WorkerScan` leads to `dead`.
- `uint256_t` is Boost's checked integer: an underflow throws. What the target of
  `-=` holds then is a property of the library; `KeptOnUnderflow` selects between
  the old value and the difference. The runs use the difference; with the old
  value each of them has the same outcome.
- Logging, the `stopWorker`/`stopSyncer` flags and `canCreateBlock` (read only by
  tests) are left out.
- In Requests a thread's action ends where it needs a lock another thread may
  hold; `writeLock_` is taken by a writer and released by the I/O thread.
- In Contracts and Shutdown a transaction or a block is one step: the code holds
  State's mutex throughout.
- In Gossip a task is named by session and message, so each session delivers a
  message once. Blocks are heights, because there is only one chain.
- In HttpSession the handlers of a connection run on its strand, so each is one
  step. The end of a write and its handler are two, because `do_close` may come
  in between. The request parser, JSON-RPC and the body are left out.
- In Block the bytes are cells that keep lengths and offsets; the header is the
  roots and the timestamp. The signature and the randomness are functions of what
  is modelled and are left out. Reading past the end of a vector gives a value
  that is no hash of the tree.

## Runs

`tlc -config <cfg> <module>`. Deadlock is checked for SafeVars, Contracts and
Discovery, which go on for ever. The other runs end: by a bound (Consensus,
State, Gossip), because what was asked for is done (Requests, Block), or because
a node can no longer start (Shutdown).

| Run | Instance | Shows |
|---|---|---|
| `full_node` | 2 validators and a node that only follows, 2 heights, 2 seeds, 2 bodies, 2 clocks | `Agreement`, `PushBackSucceeds` |
| `two_participants` | 3 validators, 2 participants, 2 heights, 2 clocks | `TypeOK`, `CommitBeforeReveal`, `CreatorSucceeds`, `MempoolBounded` |
| `liveness` | 2 validators, 1 participant, 3 heights, 2 seeds, 2 bodies, 2 clocks, fairness | `OneTxPerRound`, `CommittedRoundCompletes` |
| `accounts` | 2 nodes, 4 transfers, 3 blocks | `TypeOK`, `ReplicasAgree`, `NonceCountsTxs`, `CreatorAccepts`, `SendersExist` |
| `supply` | 2 nodes, 2 transfers of one nonce, 2 blocks | that `SupplyNeverGrows` is violated |
| `restarts` | 5 blocks, two of them rivals, a reader, 2 crashes | `TypeOK`, `InitializedLoads`, `BlocksAreFound`, `UntornLookupsAreExact`, `UntornStateIsCurrent`, `StateNotBehindChain`, `ImplementsChainStore` |
| `safe_vars` | scalars and keys used plainly and not | `ReadsAreTransactional`, `MapIsCommitted`, `RevertRestores` |
| `contracts` | 2 users, token, both wrappers, simulations, restarts | `TokenSupplyKept`, `WrapperKeepsUp`, `NativeSupplyMoved`, `NativeWrapperKeepsUp`, `OthersSpendAllowance` |
| `requests` | 2 requesters, 2 pool tasks, faults, stop, fairness | `AnswersFindRequests`, `UndisturbedRequestsEnd` |
| `gossip` | ring of 3 nodes, one restarts, or a line of 3, a transaction and a block, fairness | `NoneDisconnected`, `FloodsOnce`, `ExistingIsForwarded`, `AwaitedBlockReachesAll` |
| `discovery` | 2 nodes, a discovery node, an answer that may be lost, fairness | that `NodesMeet` is violated |
| `block` | up to 6 transactions of 2 sizes, 1 to 4 threads | `RoundTrip`, `RootIdentifies`, `ProofsExact` |

Sessions, SafeUint, HttpSession and Shuffle have no run: what is said of them is
proved.

Several of these hold under a premise, which is part of the property or of the
instance. What happens without it is under Disagreements.

- `restarts`: *untorn* means that no crash fell between two writes of a shutdown.
  `InitializedLoads` is about a database that has been initialised once.
- `safe_vars`: `ReadsAreTransactional` and `MapIsCommitted` are about variables
  used as the contracts of the repository use theirs; the instance also has a
  SafeAddress, an initial value and a key that is inserted and erased.
- `liveness`: `CommittedRoundCompletes` assumes that no creator waits for a user's
  transaction for ever (`TransactionsCome`), that no creator's clock is behind the
  previous block (`ClocksAgree`) and that no node refuses a block that is sent
  (`NoneRefuses`). The instance has behaviours without each of them.
- `contracts`: simulations of every contract are in the instance, nested calls and
  value included, and what they leave behind stays. The properties are about what
  a transaction then does: `WrapperKeepsUp` whatever was left behind,
  `NativeSupplyMoved` and `NativeWrapperKeepsUp` if no balances were
  (`balances = NoBalances`), the first for transactions that succeed.
- `requests`: `UndisturbedRequestsEnd` excludes a failing connection, `stop()`
  and an answer nobody asked for. The instance has all three.
- `gossip`: `AwaitedBlockReachesAll` is about a block that its creator has flooded
  and for which every other node has all predecessors and keeps running. A creator
  that stops before that has not told anybody.
- `discovery`: `NodesMeet` assumes that every node is connected with its discovery
  nodes before a worker begins and that no answer is lost. It is violated in spite
  of that.

**Bounds.** The code has `minValidators = 4` and five validators. One participant
is enough for the races between the threads of a node and between rounds; two
are needed for an order among the participants (who reveals first, who moves in
the list); the third validator of `two_participants` creates the block. A
participant always has the previous block, so a node that is several blocks
behind is one that does not take part: the third node of `full_node`. Two
heights show a round whose successor starts while others are still behind, three
a validator in three roles in a row. `MaxHeight` stops participants from starting
a round above it and nothing else. In State, `MaxAdding = 1` call of `addTx` per node is
between its halves: one is enough for the race with a block. The shuffles of
MCConsensus are chosen so that roles change and stay the same.

In Shutdown the constructor loads `Depth + 1` blocks (501 in the code): two, so
that old blocks are in the database only. Two rival blocks of one height are what
a crash can leave entries of. In SafeVars a second scalar and a second key show
that one variable's end does not touch another's. In Contracts amounts up to 2
tell apart less, equal and more; `MaxAmount = 2` also ends what failed transactions
and simulations add for ever. Two values of `Times` make a clock that is behind, or
not, and `Refused` has one node and one of two bodies. In Requests two requesters and two tasks are
enough for every cycle of the three locks. A ring of three is the smallest network
in which copies of one message come by two ways; in a line of three nodes that do
not restart, the one in the middle has to pass a block on. In Block the threshold of 2000
transactions is 3, and six transactions leave remainders for the threads and make layers of odd length on two levels.

**Fairness.** `FairSpec` assumes weak fairness of every worker, every Syncer, the
handler of blocks, the delivery of validator transactions and of requests: the
threads loop with short sleeps and no unbounded wait on each other, and the
workers ask their peers again for what was lost. For blocks it is an assumption
about the network: nothing in the code asks for a block again, so a block
broadcast has to reach every node. Fairness does not assume that a thread observes a state that does not last, and the code gives no reason to.

Requests: every requester, every task of the pool and the I/O thread goes on when
it can; a lock that is free is obtained in the end. That includes the timeout of
two seconds, and does not include an answer of the peer. Gossip: a session
delivers what is written to it and the pool runs every task; no order is assumed,
because the pool has several threads. Discovery: nodes are started, both ends of
a connection come to register it or see that it was closed, workers loop and the 60
seconds pass. All of it is weak
fairness.

## Disagreements

Where the code differs from what its comments or tests say. Two are kept as runs.
`supply`: a debit that fails is refunded although nothing was taken
(`core/state.cpp:136`). `discovery`: two nodes that connect to each other at the
same time each refuse one of the connections (`p2pmanagerbase.cpp:84`), the refused
ends close both, and since discovery nodes are asked in one round only
(`p2pdiscoveryworker.cpp:106`) they do not meet again. The others are definitions of the modules whose comment
says that TLC refutes them, or, where no name is given, came up while modelling.
A named one is reproduced by giving it to TLC in place of the properties of the
configuration in the second column ("two readers": `Readers = {r1, r2}`). For Sessions and SafeUint an instance has to be
written: two peers, four session objects; four bits.

| Property | Configuration | What the code does |
|---|---|---|
| `ChainMovesForward` | MCConsensusLive | `rdpos.cpp:402`: `doBlockCreation` leaves its loop only when it *sees* a full mempool. If the Syncer of the node processes the block first, the worker stays and does not contribute to the next round. |
| `RevealHoldsAllHashes` | MCConsensusRounds | `rdpos.cpp:460`: the wait before revealing counts seeds as well as hashes. What it is for still holds: `CommitBeforeReveal`. |
| `NonceMatches` | MCState | `state.cpp:79`: transactions in the mempool are not validated against each other; two of one nonce are executed. |
| `BlocksAccepted` | MCState | `state.cpp:280`: the two halves of `addTx` let an executed transaction back into the mempool and into the next block, which the others reject. |
| `HeightsIndexChain` | MCShutdown | `storage.cpp:139`: heights are saved before the latest block; after a crash in between `insert` keeps an entry of a block that is not in the chain. |
| `ConstructorLoads` | MCShutdown | `storage.cpp:97`: a crash during the first start leaves a database that cannot be loaded. |
| `TransactionsAreFound` | MCShutdown | `storage.cpp:360`: a lookup by index returns nothing for a transaction of a cached block. |
| `CacheAccessIsExclusive` | MCShutdown, two readers | `storage.cpp:331`: the lock is a temporary; the cache is changed without it. |
| `StateAtCurrentBlock` | MCShutdown | `state.cpp:69`: accounts are saved before the chain and can be ahead of it. |
| `BalancesAreTemporary` | MCContracts | `contractmanager.cpp:413`: a simulation leaves balances behind. |
| `SimulationLeavesNoTrace` | MCContracts | `contractmanager.cpp:296`: a transaction of a contract leaves ContractManager's `commit` set, and what a nested call does in a later simulation is committed. |
| `WrapperSolvent` | MCContracts | The same: a simulated `withdraw` pays the tokens out and keeps what is owed. |
| `NativeSupplyKept` | MCContracts | `contractmanager.cpp:350`: a payable call writes back balances that a simulation left behind; `state.cpp:135`: a failed transaction, as below. |
| `NativeWrapperSolvent` | MCContracts | `contractmanager.cpp:350`: the balance written back is that of a simulation. |
| `FailedTransactionReverted` | MCContracts | `state.cpp:135`: the value is refunded and stays with the recipient too. |
| `WithdrawalGranted` | MCContracts | `contractmanager.cpp:508` compares with the balance of the recipient; `erc20wrapper.cpp:92` refuses the whole balance. |
| `RestartKeepsContracts` | MCContracts | `erc20.cpp:53`: one allowance per owner survives a restart. |
| `ProofsVerify` | MCBlock | `merkle.cpp:36`: the last leaf of a layer of odd length has no sibling; the proof holds what is read behind it. |
| `CountIsExact` | Sessions | `p2pmanagerbase.cpp:106`: `disconnectSession` does not lower the counter of clients. |
| `CountNeverBehind` | Sessions | `p2pclient.cpp:14`: a connect that fails has the zero id still and unregisters, as a client, the peer that gave no valid id. |
| `OneSessionPerNode` | Sessions | `p2pmanagerbase.cpp:94`: a session that was never registered removes the entry of another one. |
| `ConnectionsAreLimited` | Sessions | `p2pmanagerbase.cpp:34`: pending and accepted connections do not count. |
| `StoppedIsEmpty` | Sessions | `p2pmanagerbase.cpp:82`: `closed_` is read before the lock is taken. |
| `DivisionRefusesZeroDivisorOnly` | SafeUint | `safeuint8_t.h:634`: `0 / x` throws as well. |

Without a name:

- `SafeAddress` does not reset `registered` (`safeaddress.h:139`); a constructor
  given a value keeps it behind the pointer only (`safeuint8_t.h:35`); `commit`
  keeps `erasedKeys` (`safeunorderedmap.h:680`); `insert` looks at the changes of
  the call only (`safeunorderedmap.h:213`). No contract of the repository uses
  these; they are what the plain variables of `ReadsAreTransactional` exclude.
- A creator whose clock is behind the previous block does not sign, and its Syncer
  thread ends for good (`block.cpp:213`, `blockchain.cpp:149`). "Block nTimestamp must
  be higher than latest block" (`state.cpp:195`), but an equal one is accepted (`:214`).
- A simulated creation that follows a transaction of a contract is carried out as well
  (`contractmanager.cpp:296`). From
  128 contracts on only the length of their number enters a new address, so at 129
  creations end (`contractmanager.cpp:55`).
- Threads that wait for each other for ever: `disconnectSession` takes
  `sessionsMutex` with `requestsMutex` held (`p2pmanagernormal.cpp:175`), `write`
  waits for the I/O thread with `sessionsMutex` held (`p2pclient.cpp:157`), and so
  does `stop()` for the pool (`p2pmanagerbase.cpp:172`). They are the cases of
  `Disturbed` in Requests.
- A block whose predecessor is still being handled is dropped
  (`p2pmanagernormal.cpp:250`); a `return` skips the rebroadcast of a block that
  exists (`:248`).
- The one round in which discovery nodes are asked comes whether they are connected
  and answer or not (`p2pdiscoveryworker.cpp:102`, `:106`); the maximum of connections is never
  tested (`:72`).
- Responses in the queue are lost when the client ends its side
  (`httpsession.cpp:53`).

## Proofs

`tlapm <module>.tla`, for these eight:

| Module | About |
|---|---|
| ConsensusProofs, RoundProofs | Consensus: the chain; the transactions of a round |
| StateProofs | State, SafeUint, Shuffle |
| StorageProofs, LookupProofs | Storage and Shutdown; the lookups |
| ContractProofs | Contracts |
| ComponentProofs | SafeVars, Sessions, HttpSession |
| GossipProofs | Gossip, Requests, Block |

Some results are about recursive functions or folds: what the transactions of a
block do one after the other, the sum of all balances, the cells of a list of
transactions. The library's induction theorems have an operator as a parameter, which
the provers cannot instantiate. `SetInduction`, `SubsetInduction` and
`InductionUpTo` state induction for a *set* of numbers or of subsets instead (a
non-empty set has a least element, from the theorem `WFMin` of the library) and
are used with the set of those for which the claim holds.

- `TypeCorrect`, `ChainsAgree`, `PushBackNeverThrows` (Consensus), for any finite
  set of validators larger than `MinValidators`, any set of nodes containing it,
  any shuffle that maps randomness to permutations.

  `Agreement` is not inductive. The invariant `ChainInv` adds: blocks sit at their
  height, each signed by the head of the list its predecessor determines
  (`ChainShape`); a
  broadcast block is in its creator's chain (`SentInOwnChain`); a block in a
  handler or in a Syncer extends the chain it was validated against
  (`HandlerInv`, `SyncerInv`); the list is that of the latest block, or of the
  block about to be pushed (`ListInv`); mempools are empty in between
  (`PoolInv`). The key is that a valid successor of a node's latest block is
  signed by the first of the list after that block, so two such blocks come from
  one Syncer, which signs the second only after its own chain holds the first.
- `ValidatorsSignOnce`, `SeedsFollowHashes`, `MempoolsAreBounded`,
  `CreatorsSucceed` (Consensus, module RoundProofs), under the same assumptions.
  The invariant `RoundInv` says how far a worker is in the round it has seen
  (`WorkerTxs`: it has signed for no later height, and for this one only what its
  place in `doTxCreation` implies), that a seed belongs to the published hash
  (`SeedsMatch`), that mempools hold transactions of the participants of the round
  under way (`PoolTxs`), that the hashes of a round are public where a seed or a
  block of it is or is about to be (`Commits`), and that a creator that has seen a
  full mempool keeps one it can order, and signs a block that is valid unless its
  clock is behind (`Creators`). The counting argument behind
  it: with one transaction of each kind per participant, `MinValidators` hashes are
  those of all participants, and `2 * MinValidators` transactions are all there are.
- `StatesAgree`, `CreatorsAccept` (State), for any finite set of transactions.
  `ReplicasAgree` follows from the existence of one sequence of account states,
  the history, in which every node has a place (`OneHistory`); a created block
  extends it because its creator has processed all others (`CreatorUpToDate`).
  `OneHistory` quantifies over an unbounded set and is not evaluated by TLC; its
  consequence `ReplicasAgree` is. For the second, the transactions of a block in the
  making stay in the mempool of its creator (`Pooled`), whatever is validated and
  inserted meanwhile.
- `NoncesCount`, `StateIsTyped`, `SendersHaveAccounts` (State), for any initial accounts whose balances
  and nonces are natural numbers. `TransactionEffect` is about one transaction: the nonce
  it counts, the balances it moves, and that none falls below zero. `BlockEffect` is about a
  block, by induction on its length: every nonce grows by the transactions the block has
  of the account. The invariant `Ledger` adds to `NonceCountsTxs` that no account is
  ever lost and that the sender of every transaction that is waiting, or was
  executed, has one.
- `StoreIsDurable` (Shutdown implements ChainStore), `StorageAloneIsDurable`
  (Storage does, closed and crashed at any time), `DatabaseStaysLoadable`,
  `NoBlockIsLost`, `UntornIsCurrent` (module StorageProofs), for any blocks, any
  depth of the chain in memory and any number of crashes. The refinement mapping
  (`Log`, `SavedLog`) reads the chain off what is in memory, or being saved, and
  below it off the height map. The invariant `StorageInv`: the height map leads
  from the latest block of the database to genesis, and the blocks on the way are
  there (`DbChain`); what is held starts in that chain, follows it to its end and
  goes on from there (`HeldChain`); and how much of it the destructor has written
  (`Saving`). Heights that are written before the new latest block lie above the
  old one, so the old chain stays readable until the last write moves both ends
  at once. `PartsInv` adds, for shutdowns that were not torn, which parts of the
  node have been written.
- `StateCoversChain` (Shutdown), also after torn shutdowns. A node may execute
  blocks twice, so blocks cannot be compared; nonces can. `NonceInv`: what is saved
  of accounts and contracts is not behind the saved chain and, once their destructors
  have run, not behind the chain of the node; so the last write of Storage cannot
  overtake them.
- `StorageIsTyped`, `LookupsAreExact` (Shutdown, the second in LookupProofs), for
  any threads and any queries whose index is that of a transaction
  (`QueriesAssumption`: the code does not test it). The invariant `LookupInv`: as
  long as no shutdown was torn, the maps in memory and in the database have
  entries of the chain of the node only, those in memory for every height of it
  (`MemExact`, `DbExact`); the caches hold blocks of the chain and right places
  (`CacheExact`); and what a thread has found out in its
  first step is still true when it reads (`ReaderExact`), because while the node
  runs the chain only grows.
- `VariablesAreTransactional`, `MapHoldsCommitted`, `FailedCallsAreUndone` (SafeVars), for any scalars,
  keys and values and any use of them: the properties are about those that are
  used plainly (no `SafeAddress`, no initial value, neither `insert` nor `erase`),
  whatever is done to the others. The invariant adds that a variable that is not
  in the list of used ones has not been written, and that the committed halves
  agree; for the third, that a map no call has used has no pending change.
- `TokenSupplyIsKept`, `WrapperAlwaysKeepsUp` (Contracts), for any finite set of
  users, any funds, calls and simulations. The invariant `TokensInv`: the sum of the
  token's balances, and that the wrapper has allowed no one to spend its tokens.
  That is why they leave it through `withdraw` and `transferTo` only, which lower
  what it owes by as much. Since simulations may open a gap between the two, the
  lemmas about a call (`Tokens`) carry the gap as a parameter: a call that commits
  does not widen it. A restart may lose allowances and what is owed, and both only
  go down.
- `NativeSupplyIsMoved`, `NativeWrapperAlwaysKeepsUp` (Contracts), also with a gap
  (`Backed`), starting from an empty map of balances: what a payable call writes back
  is then what it read or moved (`CoinRun`), and the value of the transaction has been
  added before (`ValueMoves`).
- `OthersSpendTheirAllowance` (Contracts): `transferFrom` takes what it takes off the
  allowance of the caller, and in a nested call the caller is the wrapper, which only
  moves tokens of the signer or its own (`FairTo`, `WrapperIsFair`).
- `ArithmeticNeverWraps`, `ChecksAreExact` (SafeUint), for any width. The lemma
  `QuotientBound` is why `a > max / b` decides whether the product fits.
- `EntriesStayOpen`, `CounterCoversClients` (Sessions), for any peers, any finite
  number of session objects and any limit. The invariants add that only sessions
  that read are ever closed and that clients do not come from the acceptor. The second
  allows for failed connects that met a session without a valid id, which it counts
  (`wrong`); they are the only way in which the counter falls behind.
- `AnswersAreRecognised` (Requests, in GossipProofs), for any requesters, tasks,
  faults and stops: whatever is on the way (a message being written, a request at
  the peer, an answer in a buffer or with a task) is about a request that is in
  the table (`RequestsInv`).
- `HonestStayConnected`, `FloodsAtMostOnce`, `ExistingWasForwarded` (Gossip), for any
  network, messages and restarts (the last two speak of nodes that do not restart).
  A block that is sent exists in its sender's chain, one
  task at a time is behind `blockBroadcastMutex`, and the block it has validated is
  still the next one when it is processed; a message is counted before it is
  flooded. For the third, a node announces a block once, when its chain gets it,
  and the thread that does so is the one that counts it (`AnnouncedOnce`,
  `ChainIsCounted`).
- `ParseUndoesSerialize`, `BlocksRoundTrip` (Block, in GossipProofs), for any
  transactions of any lengths, any threshold and any number of threads. The first is about
  the two functions: parsing the bytes of a finalized block gives the block. By
  induction the transaction `n` lies between the offsets `off[n-1]` and `off[n]`
  (`Laid`), so a thread that skips `n` length fields starts where it should
  (`SkipLands`), and the shares of the threads join to the whole list
  (`ThreadsRead`). The second is the invariant of the run: the bytes are those of a
  block that does not change any more (`BlockInv`).
- `OneOperationOfEach`, `ResponsesInOrder` (HttpSession), for any limit and number
  of requests. The invariant adds that a pending write is that of the front of
  the queue (`PendingInv`), and that the queue of an open connection holds,
  in order, the responses that have not left it (`QueueInv`).
- `ShufflePermutes`, `SettledForGood` (Shuffle), for any vector, hash and seed.
  The first is what `ShuffleAssumption` of RdPoS takes for granted.

Assumptions: those named `...Assumption` in the modules. In RdPoS, Consensus,
State, Storage, Shutdown, SafeVars, Contracts, Gossip, Requests and Block they are
`ASSUME`d and TLC evaluates them on the runs. In SafeUint, Sessions, HttpSession
and Shuffle they are hypotheses of every theorem and lemma that needs them.

Only model-checked:

- `RootIdentifies` and `ProofsExact` (Block, Merkle). They compare the trees of two
  lists, and a leaf with a path through all layers; the induction would be over the shapes
  of two trees at once, with the sorted pairs of every layer.
- Liveness (`CommittedRoundCompletes`, `UndisturbedRequestsEnd`,
  `AwaitedBlockReachesAll`), which is out of TLAPS's reach.

## Not modelled

- Encodings: P2P messages, ABI, JSON-RPC, RLP, hex; signatures; options. They are
  functions from bytes to values; the models start from the values.
- Stopping: the flags of the rdPoS worker and the discovery worker, and the HTTP
  server. In Consensus a stopped node is one that takes no further step. `stop()`
  of the P2P manager is in Sessions and Requests.
- The creation of contracts through ContractManager and its validation.
- `pushFront`, `popBack` and `popFront` of Storage, which only tests call.
- `doSync` asks the peers for their heights and does nothing with the answer (a
  TODO in the source); `periodicSaveToDB` is empty.
- Data races inside one operation of a Safe variable (view calls from several RPC
  threads), and the erasure inside the range-for of
  `updateCurrentlyConnectedNodes`: their outcomes are those of the allocator.
- The other Safe operators (bitwise, comparison, string) forward to the standard
  library after `check` and `markAsUsed`; the 16, 32, 64 and 256 bit integers
  repeat the text of the 8 bit one, to whose lines the models point.
- The root of a Merkle tree does not fix the order of the leaves (a pair is
  hashed in sorted order). Consensus identifies a block with its contents.
- RocksDB, Boost, the websocket and the HTTP client are external: modelled from
  how the code uses them.
- `libs/` (a JSON library and a test framework, two thirds of the lines under
  `src/`), `snowmanVM`, `blockchainRPC`, gRPC and other files no target compiles.
  The models cover a small share of all lines for this reason, and most of the
  state-changing code of the node itself.
