----------------------------- MODULE Consensus -----------------------------
(***************************************************************************)
(* A network of nodes running rdPoS rounds.  Per node: the chain           *)
(* (Storage), the rdPoS state (randomList, validatorMempool), and the      *)
(* three threads that touch them:                                          *)
(*   - rdPoSWorker::workerLoop, which commits to and reveals randomness,   *)
(*   - Syncer::validatorLoop, which creates the block,                     *)
(*   - the P2P thread pool, which handles broadcast transactions and       *)
(*     blocks in any order.                                                *)
(*                                                                         *)
(* State::processNextBlock holds stateMutex from rdPoS::processBlock to    *)
(* Storage::pushBack, but the worker, the syncer and requestValidatorTxs   *)
(* read randomList, the mempool and the latest block under other locks, so *)
(* the two updates are two steps here.                                     *)
(*                                                                         *)
(* sentTxs and sentBlocks hold what was ever broadcast: the pool threads   *)
(* handle a message late, repeatedly (one copy per session) or never.      *)
(***************************************************************************)
EXTENDS RdPoS

CONSTANTS
  Nodes,           \* all nodes; those in Validators run a worker and a syncer
  Refused,         \* <<n, body>>: n finds a transaction of body invalid
  MaxHeight        \* bound: workers start no round above this height

ASSUME NodesAssumption == Validators \subseteq Nodes /\ MaxHeight \in Nat

VARIABLES
  chain,             \* Storage::chain, the block of height h at index h + 1
  randomList,        \* rdPoS::randomList
  validatorMempool,  \* rdPoS::validatorMempool
  worker,            \* rdPoSWorker: pc, latestBlock (its height), loop index, seed
  syncer,            \* Syncer: pc, latestBlock (its height), mempool copy, block,
                     \*   and the clock that ended the thread
  handler,           \* ManagerNormal::handleBlockBroadcast: pc and block
  sentTxs,           \* TxValidators broadcast so far
  sentBlocks         \* blocks broadcast so far

vars == <<chain, randomList, validatorMempool, worker, syncer, handler,
          sentTxs, sentBlocks>>
nodeVars == <<chain, randomList, validatorMempool>>

-----------------------------------------------------------------------------
Latest(n) == chain[n][Len(chain[n])]
Height(n) == Latest(n).nHeight

(* stateMutex is free: no thread of n is between processBlock and pushBack. *)
StateUnlocked(n) ==
  /\ handler[n].pc # "pushBack"
  /\ n \in Validators => syncer[n].pc # "pushBack"

(* The mempool of n after State::addValidatorTx of every tx of txs. *)
PoolWith(n, txs) ==
  validatorMempool[n] \cup
    {tx \in txs : AcceptsTx(validatorMempool[n], randomList[n], Height(n) + 1, tx)}

(* State::validateNextBlock.  What validateTransactionInternal says of the  *)
(* transactions of a block is left open (module State): Refused.            *)
ValidateNextBlock(n, b) ==
  /\ Extends(b, Latest(n))
  /\ Latest(n).timestamp <= b.timestamp
  /\ ValidateBlock(randomList[n], b)
  /\ <<n, b.body>> \notin Refused

(* Variant of ProcessBlock: the mempool keeps the transactions of the round *)
(* that has ended.                                                          *)
ProcessBlockKeepsPool(n, b) ==
  /\ UNCHANGED validatorMempool
  /\ randomList' = [randomList EXCEPT ![n] = ListAfter(b)]

(* rdPoS::processBlock. *)
ProcessBlock(n, b) ==
  /\ validatorMempool' = [validatorMempool EXCEPT ![n] = {}]
  /\ randomList' = [randomList EXCEPT ![n] = ListAfter(b)]

(* Storage::pushBack; it throws, and appends nothing, unless b extends n. *)
PushBack(n, b) ==
  chain' = [chain EXCEPT ![n] = IF Extends(b, Latest(n)) THEN Append(@, b) ELSE @]

IdleHandler == [pc |-> "idle", block |-> Genesis]
SyncerAt(pc, latest) ==
  [pc |-> pc, latestBlock |-> latest, mempool |-> {}, block |-> Genesis,
   clock |-> Genesis.timestamp]
WorkerAt(pc, latest) ==
  [pc |-> pc, latestBlock |-> latest, i |-> 0, seeds |-> {}]

Init ==
  /\ chain = [n \in Nodes |-> <<Genesis>>]
  /\ randomList = [n \in Nodes |-> ListAfter(Genesis)]
  /\ validatorMempool = [n \in Nodes |-> {}]
  /\ worker = [v \in Validators |-> WorkerAt("elect", 0)]
  /\ syncer = [v \in Validators |-> SyncerAt("elect", 0)]
  /\ handler = [n \in Nodes |-> IdleHandler]
  /\ sentTxs = {}
  /\ sentBlocks = {}

-----------------------------------------------------------------------------
(* rdPoSWorker *)

(* workerLoop: creator, participant or neither, by the current randomList. *)
WorkerElect(v) ==
  /\ worker[v].pc = "elect"
  /\ \/ /\ v = randomList[v][0]
        /\ worker' = [worker EXCEPT ![v].pc = "doBlockCreation"]
     \/ /\ v # randomList[v][0]
        /\ worker[v].latestBlock < MaxHeight
        /\ \E i \in 1..MinValidators :
             /\ v = randomList[v][i]
             /\ worker' = [worker EXCEPT ![v].pc = "doTxCreation", ![v].i = i]
     \/ /\ v # randomList[v][0]
        /\ ~Participates(randomList[v], v)
        /\ worker' = [worker EXCEPT ![v].pc = "wait"]
  /\ UNCHANGED <<nodeVars, syncer, handler, sentTxs, sentBlocks>>

(* Variant of WorkerCommit: the hash is added but not broadcast. *)
WorkerCommitSilently(v) ==
  /\ worker[v].pc = "doTxCreation"
  /\ StateUnlocked(v)
  /\ \E seed \in Seeds :
       LET tx == RandomHashTx(v, seed, worker[v].latestBlock + 1)
       IN  /\ validatorMempool' = [validatorMempool EXCEPT ![v] = PoolWith(v, {tx})]
           /\ worker' = [worker EXCEPT ![v].pc = "awaitHashes", ![v].seeds = {seed}]
  /\ UNCHANGED <<chain, randomList, syncer, handler, sentTxs, sentBlocks>>

(* doTxCreation: draw the randomness, publish its hash. *)
WorkerCommit(v) ==
  /\ worker[v].pc = "doTxCreation"
  /\ StateUnlocked(v)
  /\ \E seed \in Seeds :
       LET tx == RandomHashTx(v, seed, worker[v].latestBlock + 1)
       IN  /\ validatorMempool' = [validatorMempool EXCEPT ![v] = PoolWith(v, {tx})]
           /\ sentTxs' = sentTxs \cup {tx}
           /\ worker' = [worker EXCEPT ![v].pc = "awaitHashes", ![v].seeds = {seed}]
  /\ UNCHANGED <<chain, randomList, syncer, handler, sentBlocks>>

(* Variants of WorkerSeesPool: one transaction too few, one too many. *)
WorkerSeesPoolEarly(v) ==
  /\ worker[v].pc = "awaitHashes"
  /\ Cardinality(validatorMempool[v]) + 1 >= MinValidators
  /\ worker' = [worker EXCEPT ![v].pc = "reveal"]
  /\ UNCHANGED <<nodeVars, syncer, handler, sentTxs, sentBlocks>>

WorkerSeesPoolLate(v) ==
  /\ worker[v].pc = "awaitHashes"
  /\ Cardinality(validatorMempool[v]) > MinValidators
  /\ worker' = [worker EXCEPT ![v].pc = "reveal"]
  /\ UNCHANGED <<nodeVars, syncer, handler, sentTxs, sentBlocks>>

(* doTxCreation: its wait ends when the mempool holds MinValidators         *)
(* transactions, whichever they are.                                        *)
WorkerSeesPool(v) ==
  /\ worker[v].pc = "awaitHashes"
  /\ Cardinality(validatorMempool[v]) >= MinValidators
  /\ worker' = [worker EXCEPT ![v].pc = "reveal"]
  /\ UNCHANGED <<nodeVars, syncer, handler, sentTxs, sentBlocks>>

(* doTxCreation: publish the randomness. *)
WorkerReveal(v) ==
  /\ worker[v].pc = "reveal"
  /\ StateUnlocked(v)
  /\ \E seed \in worker[v].seeds :
       LET tx == RandomSeedTx(v, seed, worker[v].latestBlock + 1)
       IN  /\ validatorMempool' = [validatorMempool EXCEPT ![v] = PoolWith(v, {tx})]
           /\ sentTxs' = sentTxs \cup {tx}
           /\ worker' = [worker EXCEPT ![v].pc = "scan", ![v].seeds = {}]
  /\ UNCHANGED <<chain, randomList, syncer, handler, sentBlocks>>

(* workerLoop: the election loop goes on at i + 1 without its lock.  If a   *)
(* new randomList has this validator at a later index, unlocking the lock   *)
(* that is not held throws and the worker thread ends.                      *)
WorkerScan(v) ==
  /\ worker[v].pc = "scan"
  /\ worker' =
       [worker EXCEPT ![v] =
          IF \E j \in (@.i + 1)..MinValidators : v = randomList[v][j]
          THEN WorkerAt("dead", @.latestBlock)
          ELSE WorkerAt("wait", @.latestBlock)]
  /\ UNCHANGED <<nodeVars, syncer, handler, sentTxs, sentBlocks>>

(* doBlockCreation: its wait ends on a full mempool, and only on that. *)
WorkerPoolFull(v) ==
  /\ worker[v].pc = "doBlockCreation"
  /\ Cardinality(validatorMempool[v]) = 2 * MinValidators
  /\ worker' = [worker EXCEPT ![v].pc = "wait"]
  /\ UNCHANGED <<nodeVars, syncer, handler, sentTxs, sentBlocks>>

(* The three wait loops ask peer p for its mempool and add what it answers. *)
(* (An answer added after the mempool of p or the round has changed adds    *)
(* what HandleTxValidatorBroadcast may add too: all of it was broadcast.)   *)
WorkerRequestTxs(v, p) ==
  /\ \/ worker[v].pc \in {"doBlockCreation", "awaitHashes", "reveal"}
     \/ /\ worker[v].pc = "wait"
        /\ worker[v].latestBlock = Height(v)
        /\ Cardinality(validatorMempool[v]) < MinValidators
  /\ StateUnlocked(v)
  /\ validatorMempool' =
       [validatorMempool EXCEPT ![v] = PoolWith(v, validatorMempool[p])]
  /\ UNCHANGED <<chain, randomList, worker, syncer, handler, sentTxs, sentBlocks>>

(* Variant of WorkerNextRound: the loop does not wait for a new block. *)
WorkerNextRoundAtOnce(v) ==
  /\ worker[v].pc = "wait"
  /\ worker' = [worker EXCEPT ![v] = WorkerAt("elect", Height(v))]
  /\ UNCHANGED <<nodeVars, syncer, handler, sentTxs, sentBlocks>>

(* workerLoop: a new latest block starts the next iteration. *)
WorkerNextRound(v) ==
  /\ worker[v].pc = "wait"
  /\ worker[v].latestBlock # Height(v)
  /\ worker' = [worker EXCEPT ![v] = WorkerAt("elect", Height(v))]
  /\ UNCHANGED <<nodeVars, syncer, handler, sentTxs, sentBlocks>>

-----------------------------------------------------------------------------
(* Syncer *)

(* validatorLoop: create a block if randomList[0] is this validator. *)
SyncerElect(v) ==
  /\ syncer[v].pc = "elect"
  /\ syncer' = [syncer EXCEPT ![v].pc =
                  IF v = randomList[v][0] THEN "awaitTxs" ELSE "wait"]
  /\ UNCHANGED <<nodeVars, worker, handler, sentTxs, sentBlocks>>

(* Variant of SyncerAwaitTxs: it waits for half of the transactions. *)
SyncerAwaitHalf(v) ==
  /\ syncer[v].pc = "awaitTxs"
  /\ Cardinality(validatorMempool[v]) >= MinValidators
  /\ syncer' = [syncer EXCEPT ![v].pc = "awaitTx"]
  /\ UNCHANGED <<nodeVars, worker, handler, sentTxs, sentBlocks>>

(* doValidatorBlock: its first wait ends with enough validator transactions *)
(* in the mempool ...                                                       *)
SyncerAwaitTxs(v) ==
  /\ syncer[v].pc = "awaitTxs"
  /\ Cardinality(validatorMempool[v]) >= 2 * MinValidators
  /\ syncer' = [syncer EXCEPT ![v].pc = "awaitTx"]
  /\ UNCHANGED <<nodeVars, worker, handler, sentTxs, sentBlocks>>

(* ... and its second with a transaction of a user in the state mempool,    *)
(* which comes when it comes.                                               *)
SyncerSeesTx(v) ==
  /\ syncer[v].pc = "awaitTx"
  /\ syncer' = [syncer EXCEPT ![v].pc = "getMempool"]
  /\ UNCHANGED <<nodeVars, worker, handler, sentTxs, sentBlocks>>

SyncerGetMempool(v) ==
  /\ syncer[v].pc = "getMempool"
  /\ syncer' = [syncer EXCEPT ![v].pc = "order", ![v].mempool = validatorMempool[v]]
  /\ UNCHANGED <<nodeVars, worker, handler, sentTxs, sentBlocks>>

TxOf(pool, from, func) ==
  CHOOSE tx \in pool : tx.from = from /\ tx.func = func

(* The ordering loops of doValidatorBlock find every transaction they seek; *)
(* otherwise they spin.                                                     *)
CanOrder(pool, list) ==
  \A i \in 1..MinValidators : \A f \in TxFunctions :
    \E tx \in pool : tx.from = list[i] /\ tx.func = f

OrderedTxs(pool, list) ==
  [i \in 1..(2 * MinValidators) |->
     IF i <= MinValidators
     THEN TxOf(pool, list[i], "randomHash")
     ELSE TxOf(pool, list[i - MinValidators], "randomSeed")]

CreatedBlock(v, body, clock) ==
  SignBlock(v, NewBlock(Latest(v), OrderedTxs(syncer[v].mempool, randomList[v]), body), clock)

(* doValidatorBlock: order, build on the latest block, sign and validate.   *)
(* The transactions of users are from the mempool of v, where a transaction *)
(* passes as valid.  An invalid block throws, which ends the syncer thread. *)
SyncerSign(v) ==
  /\ syncer[v].pc = "order"
  /\ CanOrder(syncer[v].mempool, randomList[v])
  /\ \E body \in Bodies, clock \in Times :
       LET b == CreatedBlock(v, body, clock)
       IN  /\ <<v, body>> \notin Refused
           /\ syncer' =
                [syncer EXCEPT ![v] =
                   IF ValidateNextBlock(v, b)
                   THEN [SyncerAt("process", @.latestBlock) EXCEPT !.block = b]
                   ELSE [SyncerAt("dead", @.latestBlock) EXCEPT !.block = b, !.clock = clock]]
  /\ UNCHANGED <<nodeVars, worker, handler, sentTxs, sentBlocks>>

(* processNextBlock, up to rdPoS::processBlock; the validation in it was    *)
(* the last thing done before stateMutex was taken.                         *)
SyncerProcess(v) ==
  /\ syncer[v].pc = "process"
  /\ StateUnlocked(v)
  /\ ProcessBlock(v, syncer[v].block)
  /\ syncer' = [syncer EXCEPT ![v].pc = "pushBack"]
  /\ UNCHANGED <<chain, worker, handler, sentTxs, sentBlocks>>

(* processNextBlock's pushBack, then the broadcast of the new block. *)
SyncerPushBack(v) ==
  /\ syncer[v].pc = "pushBack"
  /\ PushBack(v, syncer[v].block)
  /\ IF Extends(syncer[v].block, Latest(v))
     THEN /\ syncer' = [syncer EXCEPT ![v] = SyncerAt("wait", @.latestBlock)]
          /\ sentBlocks' = sentBlocks \cup {syncer[v].block}
     ELSE /\ syncer' = [syncer EXCEPT ![v] = SyncerAt("dead", @.latestBlock)]
          /\ UNCHANGED sentBlocks
  /\ UNCHANGED <<randomList, validatorMempool, worker, handler, sentTxs>>

(* validatorLoop: a new latest block starts the next iteration. *)
SyncerNextRound(v) ==
  /\ syncer[v].pc = "wait"
  /\ syncer[v].latestBlock # Height(v)
  /\ syncer' = [syncer EXCEPT ![v] = SyncerAt("elect", Height(v))]
  /\ UNCHANGED <<nodeVars, worker, handler, sentTxs, sentBlocks>>

-----------------------------------------------------------------------------
(* ManagerNormal: the handlers of the P2P thread pool *)

(* handleTxValidatorBroadcast; a rejected transaction changes nothing. *)
HandleTxValidatorBroadcast(n, tx) ==
  /\ StateUnlocked(n)
  /\ AcceptsTx(validatorMempool[n], randomList[n], Height(n) + 1, tx)
  /\ validatorMempool' = [validatorMempool EXCEPT ![n] = PoolWith(n, {tx})]
  /\ UNCHANGED <<chain, randomList, worker, syncer, handler, sentTxs, sentBlocks>>

(* Variant of HandleBlockBroadcast: an unknown block is not validated. *)
HandleAnyBlock(n, b) ==
  /\ handler[n].pc = "idle"
  /\ \A i \in 1..Len(chain[n]) : BlockHash(chain[n][i]) # BlockHash(b)
  /\ handler' = [handler EXCEPT ![n] = [pc |-> "process", block |-> b]]
  /\ UNCHANGED <<nodeVars, worker, syncer, sentTxs, sentBlocks>>

(* handleBlockBroadcast, under blockBroadcastMutex: an unknown valid block  *)
(* goes on to processNextBlock, any other is dropped.                       *)
HandleBlockBroadcast(n, b) ==
  /\ handler[n].pc = "idle"
  /\ \A i \in 1..Len(chain[n]) : BlockHash(chain[n][i]) # BlockHash(b)
  /\ ValidateNextBlock(n, b)
  /\ handler' = [handler EXCEPT ![n] = [pc |-> "process", block |-> b]]
  /\ UNCHANGED <<nodeVars, worker, syncer, sentTxs, sentBlocks>>

HandlerProcess(n) ==
  /\ handler[n].pc = "process"
  /\ StateUnlocked(n)
  /\ ProcessBlock(n, handler[n].block)
  /\ handler' = [handler EXCEPT ![n].pc = "pushBack"]
  /\ UNCHANGED <<chain, worker, syncer, sentTxs, sentBlocks>>

HandlerPushBack(n) ==
  /\ handler[n].pc = "pushBack"
  /\ PushBack(n, handler[n].block)
  /\ handler' = [handler EXCEPT ![n] = IdleHandler]
  /\ UNCHANGED <<randomList, validatorMempool, worker, syncer, sentTxs, sentBlocks>>

-----------------------------------------------------------------------------
WorkerStep(v) ==
  \/ WorkerElect(v)
  \/ WorkerCommit(v)
  \/ WorkerSeesPool(v)
  \/ WorkerReveal(v)
  \/ WorkerScan(v)
  \/ WorkerPoolFull(v)
  \/ WorkerNextRound(v)

SyncerStep(v) ==
  \/ SyncerElect(v)
  \/ SyncerAwaitTxs(v)
  \/ SyncerSeesTx(v)
  \/ SyncerGetMempool(v)
  \/ SyncerSign(v)
  \/ SyncerProcess(v)
  \/ SyncerPushBack(v)
  \/ SyncerNextRound(v)

HandlerStep(n) ==
  \/ \E b \in sentBlocks : HandleBlockBroadcast(n, b)
  \/ HandlerProcess(n)
  \/ HandlerPushBack(n)

Next ==
  \/ \E v \in Validators :
       \/ WorkerStep(v)
       \/ SyncerStep(v)
       \/ \E p \in Nodes : WorkerRequestTxs(v, p)
  \/ \E n \in Nodes :
       \/ HandlerStep(n)
       \/ \E tx \in sentTxs : HandleTxValidatorBroadcast(n, tx)

Spec == Init /\ [][Next]_vars

(* Every thread keeps running, messages between running nodes arrive, and   *)
(* peers answer requests.  Nothing makes users send transactions.           *)
Fairness ==
  /\ \A v \in Validators :
       /\ WF_vars(WorkerStep(v))
       /\ WF_vars(syncer[v].pc # "awaitTx" /\ SyncerStep(v))
       /\ WF_vars(\E p \in Nodes : WorkerRequestTxs(v, p))
  /\ \A n \in Nodes :
       /\ WF_vars(HandlerStep(n))
       /\ WF_vars(\E tx \in sentTxs : HandleTxValidatorBroadcast(n, tx))

FairSpec == Spec /\ Fairness

-----------------------------------------------------------------------------
(* Properties *)

WorkerPcs == {"elect", "doTxCreation", "awaitHashes", "reveal", "scan",
              "doBlockCreation", "wait", "dead"}
SyncerPcs == {"elect", "awaitTxs", "awaitTx", "getMempool", "order", "process",
              "pushBack", "wait", "dead"}

IsBlock(b) ==
  /\ b.nHeight \in Nat
  /\ b.blockRandomness \in Randomness
  /\ b.validator \in Validators
  /\ b.timestamp \in Nat

SyncerBlocks == {syncer[v].block : v \in Validators}

(* The type invariant: among the rest, chains hold only the genesis and     *)
(* broadcast blocks, and mempools only broadcast transactions.              *)
TypeOK ==
  /\ sentTxs \subseteq TxValidator
  /\ \A b \in sentBlocks : IsBlock(b)
  /\ chain \in [Nodes -> Seq({Genesis} \cup sentBlocks)]
  /\ randomList \in [Nodes -> RandomLists]
  /\ validatorMempool \in [Nodes -> SUBSET sentTxs]
  /\ worker \in [Validators -> [pc : WorkerPcs, latestBlock : Nat,
                                i : 0..MinValidators, seeds : SUBSET Seeds]]
  /\ syncer \in [Validators -> [pc : SyncerPcs, latestBlock : Nat,
                                mempool : SUBSET sentTxs, block : SyncerBlocks,
                                clock : Nat]]
  /\ \A v \in Validators :
       syncer[v].pc \in {"process", "pushBack"} => IsBlock(syncer[v].block)
  /\ handler \in [Nodes -> [pc : {"idle", "process", "pushBack"},
                            block : {Genesis} \cup sentBlocks]]

(* No two nodes hold different blocks of the same height (validateBlock     *)
(* admits one signer per round, and that signer signs once).                *)
Agreement ==
  \A m, n \in Nodes : \A i \in 1..Len(chain[m]) :
    i <= Len(chain[n]) => chain[m][i] = chain[n][i]

(* A seed for some height is public only when every participant of that     *)
(* round has published its hash, so no participant chooses its randomness   *)
(* knowing another's (doTxCreation's wait, which counts transactions of     *)
(* either kind).                                                            *)
CommitBeforeReveal ==
  \A n \in Nodes : \A seedTx \in sentTxs :
    seedTx.func = "randomSeed" /\ seedTx.nHeight \in 1..Len(chain[n]) =>
      \A i \in 1..MinValidators : \E hashTx \in sentTxs :
        /\ hashTx.func = "randomHash"
        /\ hashTx.nHeight = seedTx.nHeight
        /\ hashTx.from = ListAfter(chain[n][seedTx.nHeight])[i]

(* A validator signs one transaction of each kind per height: its worker    *)
(* never enters doTxCreation twice for the same height.                     *)
OneTxPerRound ==
  \A t, u \in sentTxs :
    t.from = u.from /\ t.func = u.func /\ t.nHeight = u.nHeight => t = u

(* Creating a block fails for one reason only, a clock behind the timestamp *)
(* of the latest block, which ends the thread of the creator: otherwise     *)
(* validateNextBlock accepts what it signs, its pushBack succeeds, and the  *)
(* ordering loops of doValidatorBlock terminate.                            *)
CreatorSucceeds ==
  \A v \in Validators :
    /\ syncer[v].pc = "dead" => syncer[v].clock < syncer[v].block.timestamp
    /\ syncer[v].pc = "order" => CanOrder(syncer[v].mempool, randomList[v])

(* pushBack, which runs after accounts and rdPoS have already moved to the  *)
(* new block, never throws.                                                 *)
PushBackSucceeds ==
  /\ \A n \in Nodes :
       handler[n].pc = "pushBack" => Extends(handler[n].block, Latest(n))
  /\ \A v \in Validators :
       syncer[v].pc = "pushBack" => Extends(syncer[v].block, Latest(v))

(* At most 2 * MinValidators validator transactions are pending, all of     *)
(* them for the block after the latest one.                                 *)
MempoolBounded ==
  \A n \in Nodes :
    /\ Cardinality(validatorMempool[n]) <= 2 * MinValidators
    /\ StateUnlocked(n) =>
         \A tx \in validatorMempool[n] : tx.nHeight = Height(n) + 1

(* Every participant of the round for height h has published its hash.      *)
RoundCommitted(h) ==
  \E n \in Nodes :
    /\ Len(chain[n]) >= h
    /\ \A i \in 1..MinValidators : \E tx \in sentTxs :
         /\ tx.func = "randomHash"
         /\ tx.nHeight = h
         /\ tx.from = ListAfter(chain[n][h])[i]

(* No creator waits for a user's transaction for ever, none has a clock     *)
(* behind the latest block, and no node refuses a block's transactions.     *)
TransactionsCome == \A v \in Validators : []<>(syncer[v].pc # "awaitTx")
ClocksAgree == [](\A v \in Validators : syncer[v].pc # "dead")
NoneRefuses == [](\A b \in sentBlocks, n \in Nodes : <<n, b.body>> \notin Refused)

(* Under these conditions, once every participant of a round has published  *)
(* its hash every node's chain reaches the height of the round: no order of *)
(* messages, requests and new blocks leaves the waits of the workers, the   *)
(* creator or a node behind stuck.                                          *)
CommittedRoundCompletes ==
  TransactionsCome /\ ClocksAgree /\ NoneRefuses =>
    \A h \in 1..MaxHeight : RoundCommitted(h) ~> \A n \in Nodes : Height(n) >= h

(* Refuted by TLC (README, Disagreements): a worker publishes its           *)
(* randomness holding the hashes of all participants of the round           *)
(* (doTxCreation: "Wait until we received all randomHash transactions to    *)
(* broadcast the randomness transaction").                                  *)
RevealHoldsAllHashes ==
  \A v \in Validators :
    worker[v].pc = "reveal" /\ worker[v].latestBlock = Height(v) =>
      \A i \in 1..MinValidators : \E tx \in validatorMempool[v] :
        tx.from = randomList[v][i] /\ tx.func = "randomHash"

(* Refuted by TLC (README, Disagreements): under the same conditions the    *)
(* chain moves forward up to the modelled bound.                            *)
ChainMovesForward ==
  TransactionsCome /\ ClocksAgree /\ NoneRefuses =>
    <>(\A n \in Nodes : Height(n) >= MaxHeight)

=============================================================================
