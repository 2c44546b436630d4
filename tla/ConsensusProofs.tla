-------------------------- MODULE ConsensusProofs --------------------------
(***************************************************************************)
(* Proofs about Consensus.tla, for every set of validators, every number   *)
(* of participants and every shuffle: chains agree, and pushBack never     *)
(* throws halfway through a block.                                         *)
(***************************************************************************)
EXTENDS Consensus, FiniteSetTheorems, TLAPS

-----------------------------------------------------------------------------
(* The inductive invariant of Agreement. *)

(* Blocks sit at their height, each signed by the head of the list its      *)
(* predecessor determines.                                                  *)
ChainShape ==
  \A n \in Nodes :
    /\ Len(chain[n]) >= 1
    /\ \A i \in 1..Len(chain[n]) : chain[n][i].nHeight = i - 1
    /\ \A i \in 1..(Len(chain[n]) - 1) :
         chain[n][i + 1].validator = ListAfter(chain[n][i])[0]

(* A creator broadcasts only blocks of its own chain. *)
SentInOwnChain ==
  \A b \in sentBlocks :
    /\ b.nHeight \in 1..(Len(chain[b.validator]) - 1)
    /\ chain[b.validator][b.nHeight + 1] = b

(* A block under way in the handler is the next one of its node. *)
HandlerInv ==
  \A n \in Nodes : handler[n].pc # "idle" =>
    handler[n].block \in sentBlocks /\ Extends(handler[n].block, Latest(n))

Creating == {"awaitTx", "getMempool", "order", "process", "pushBack"}

(* A syncer that has seen a full mempool is the creator of the next block,  *)
(* and no block is under way in the handler of its node.                    *)
SyncerInv ==
  \A v \in Validators :
    /\ syncer[v].pc = "awaitTxs" => v = randomList[v][0]
    /\ syncer[v].pc \in Creating =>
         handler[v].pc = "idle" /\ v = ListAfter(Latest(v))[0]
    /\ syncer[v].pc \in {"process", "pushBack"} =>
         syncer[v].block.validator = v /\ Extends(syncer[v].block, Latest(v))

(* The block rdPoS::processBlock ran on last. *)
Applied(n) ==
  IF handler[n].pc = "pushBack" THEN handler[n].block
  ELSE IF n \in Validators /\ syncer[n].pc = "pushBack" THEN syncer[n].block
  ELSE Latest(n)

ListInv == \A n \in Nodes : randomList[n] = ListAfter(Applied(n))

PoolInv == \A n \in Nodes : ~StateUnlocked(n) => validatorMempool[n] = {}

ChainInv ==
  /\ ChainShape
  /\ Agreement
  /\ SentInOwnChain
  /\ HandlerInv
  /\ SyncerInv
  /\ ListInv
  /\ PoolInv

-----------------------------------------------------------------------------
(* Facts about blocks and lists. *)

(* A sequence over a set is one over every larger set. *)
LEMMA SeqMono ==
  ASSUME NEW S, NEW T, S \subseteq T, NEW s \in Seq(S)
  PROVE  s \in Seq(T)
OBVIOUS

(* The empty set has no elements. *)
LEMMA EmptyCardinality == Cardinality({}) = 0
<1> DEFINE G(f) == [T \in SUBSET {} |->
                      IF T = {} THEN 0 ELSE 1 + f[T \ {CHOOSE x : x \in T}]]
           CS == CHOOSE f : f = G(f)
<1>1. Cardinality({}) = CS[{}]
  BY Zenon DEF Cardinality
<1>2. \E f : f = G(f)
  <2>1. [T \in SUBSET {} |-> 0] = G([T \in SUBSET {} |-> 0])
    OBVIOUS
  <2> QED
    BY Zenon, <2>1
<1>3. CS = G(CS)
  BY Zenon, <1>2
<1>4. CS[{}] = G(CS)[{}]
  BY Zenon, <1>3
<1>5. G(CS)[{}] = 0
  OBVIOUS
<1> HIDE DEF CS
<1> QED
  BY Zenon, <1>1, <1>4, <1>5

(* What a block determines. *)
LEMMA GenesisFacts ==
  /\ Genesis.nHeight = 0 /\ Genesis.timestamp = 1
  /\ Genesis.blockRandomness \in Randomness
BY Zenon DEF Genesis, Randomness

(* What a Syncer that has signed nothing holds as its clock.                 *)
LEMMA GenesisTime == Genesis.timestamp \in Nat
BY GenesisFacts

(* Every block there is has a height and determines an order of the validators.*)
LEMMA BlockFacts ==
  ASSUME TypeOK, NEW b \in {Genesis} \cup sentBlocks
  PROVE  b.nHeight \in Nat /\ ListAfter(b) \in RandomLists
BY GenesisFacts, ShuffleAssumption DEF TypeOK, IsBlock, ListAfter

(* The latest block of a node. *)
LEMMA LatestFacts ==
  ASSUME TypeOK, ChainShape, NEW n \in Nodes
  PROVE  /\ Len(chain[n]) \in Nat \ {0}
         /\ Latest(n) = chain[n][Len(chain[n])]
         /\ Latest(n) \in {Genesis} \cup sentBlocks
         /\ Height(n) = Len(chain[n]) - 1
         /\ Height(n) \in Nat
         /\ ListAfter(Latest(n)) \in RandomLists
<1>1. chain[n] \in Seq({Genesis} \cup sentBlocks)
  BY Zenon DEF TypeOK
<1>2. Len(chain[n]) \in Nat /\ Len(chain[n]) >= 1
  BY <1>1 DEF ChainShape
<1>3. Latest(n) \in {Genesis} \cup sentBlocks
  BY SMTT(30), <1>1, <1>2 DEF Latest
<1> QED
  BY <1>2, <1>3, BlockFacts DEF ChainShape, Latest, Height

(* A broadcast block of the height after a node's latest one was created by *)
(* the head of that node's list, and not by the node itself.                *)
LEMMA NextBlockIsForeign ==
  ASSUME TypeOK, ChainShape, Agreement, SentInOwnChain,
         NEW n \in Nodes, NEW b \in sentBlocks, b.nHeight = Height(n) + 1
  PROVE  /\ b.validator = ListAfter(Latest(n))[0]
         /\ b.validator # n
<1> DEFINE u == b.validator
           k == Len(chain[n])
<1>1. u \in Nodes
  BY Zenon, NodesAssumption DEF TypeOK, IsBlock
<1>2. k \in Nat \ {0} /\ b.nHeight = k
  BY LatestFacts
<1>3. Len(chain[u]) \in Nat /\ k + 1 <= Len(chain[u]) /\ chain[u][k + 1] = b
  <2>1. Len(chain[u]) \in Nat
    BY Zenon, <1>1, LatestFacts
  <2>2. b.nHeight \in 1..(Len(chain[u]) - 1) /\ chain[u][b.nHeight + 1] = b
    BY Zenon DEF SentInOwnChain
  <2> QED  BY <1>2, <2>1, <2>2
<1>4. chain[u][k] = chain[n][k]
  <2>1. k \in 1..Len(chain[n]) /\ k <= Len(chain[u])
    BY <1>2, <1>3
  <2> QED  BY Zenon, <1>1, <2>1 DEF Agreement
<1>5. chain[u][k + 1].validator = ListAfter(chain[u][k])[0]
  <2>1. k \in 1..(Len(chain[u]) - 1)
    BY SMTT(30), <1>2, <1>3
  <2> QED  BY Zenon, <1>1, <2>1 DEF ChainShape
<1> QED
  BY <1>2, <1>3, <1>4, <1>5 DEF Latest

-----------------------------------------------------------------------------
(* TypeOK *)

(* Types: initially, and under the steps of each kind of thread.             *)
LEMMA InitTypeOK == Init => TypeOK
<1> SUFFICES ASSUME Init PROVE TypeOK
  OBVIOUS
<1>1. ListAfter(Genesis) \in RandomLists
  BY Zenon, GenesisFacts, ShuffleAssumption DEF ListAfter
<1>2. <<Genesis>> \in Seq({Genesis} \cup sentBlocks)
  OBVIOUS
<1>3. MinValidators \in Nat
  BY Zenon, ConstantsAssumption
<1> QED
  BY <1>1, <1>2, <1>3, GenesisTime
  DEF Init, TypeOK, SyncerBlocks, WorkerAt, SyncerAt, IdleHandler, WorkerPcs, SyncerPcs

(* What the ordering loops of doValidatorBlock collect. *)
LEMMA OrderedTxsFacts ==
  ASSUME NEW pool, NEW list, CanOrder(pool, list)
  PROVE  /\ \A i \in 1..MinValidators :
              /\ OrderedTxs(pool, list)[i] \in pool
              /\ OrderedTxs(pool, list)[i].from = list[i]
              /\ OrderedTxs(pool, list)[i].func = "randomHash"
         /\ \A i \in 1..MinValidators :
              /\ OrderedTxs(pool, list)[MinValidators + i] \in pool
              /\ OrderedTxs(pool, list)[MinValidators + i].from = list[i]
              /\ OrderedTxs(pool, list)[MinValidators + i].func = "randomSeed"
<1>1. MinValidators \in Nat \ {0}
  BY Zenon, ConstantsAssumption
<1>2. ASSUME NEW i \in 1..MinValidators, NEW f \in TxFunctions
      PROVE  /\ TxOf(pool, list[i], f) \in pool
             /\ TxOf(pool, list[i], f).from = list[i]
             /\ TxOf(pool, list[i], f).func = f
  <2>1. PICK tx \in pool : tx.from = list[i] /\ tx.func = f
    BY Zenon DEF CanOrder
  <2> QED  BY Zenon, <2>1 DEF TxOf
<1>3. ASSUME NEW i \in 1..MinValidators
      PROVE  /\ OrderedTxs(pool, list)[i] = TxOf(pool, list[i], "randomHash")
             /\ OrderedTxs(pool, list)[MinValidators + i]
                  = TxOf(pool, list[i], "randomSeed")
  <2>1. /\ i \in 1..(2 * MinValidators) /\ i <= MinValidators
        /\ MinValidators + i \in 1..(2 * MinValidators)
        /\ ~(MinValidators + i <= MinValidators)
        /\ (MinValidators + i) - MinValidators = i
    BY <1>1
  <2> QED  BY Zenon, <2>1 DEF OrderedTxs
<1> QED  BY <1>2, <1>3 DEF TxFunctions

(* A block the syncer creates is valid only if it could be signed, and then *)
(* it is well-formed. *)
LEMMA CreatedBlockFacts ==
  ASSUME TypeOK, ChainShape, NEW v \in Validators, NEW body, NEW clock \in Times,
         CanOrder(syncer[v].mempool, randomList[v]),
         ValidateNextBlock(v, CreatedBlock(v, body, clock))
  PROVE  LET b == CreatedBlock(v, body, clock)
         IN  IsBlock(b) /\ b.validator = v
<1> DEFINE txs == OrderedTxs(syncer[v].mempool, randomList[v])
           new == NewBlock(Latest(v), txs, body)
           b == CreatedBlock(v, body, clock)
<1>1. v \in Nodes
  BY Zenon, NodesAssumption
<1>2. \A i \in 1..MinValidators : txs[MinValidators + i].data \in Seeds
  <2> SUFFICES ASSUME NEW i \in 1..MinValidators
               PROVE  txs[MinValidators + i].data \in Seeds
    OBVIOUS
  <2>1. /\ txs[MinValidators + i] \in TxValidator
        /\ txs[MinValidators + i].func = "randomSeed"
    BY OrderedTxsFacts DEF TypeOK
  <2> QED  BY Zenon, <2>1 DEF TxValidator
<1>3. ~(new.timestamp > clock)
  <2> SUFFICES ASSUME new.timestamp > clock PROVE FALSE
    OBVIOUS
  <2>1. b.validator = ZeroHash
    BY Zenon DEF CreatedBlock, SignBlock, NewBlock
  <2>2. b.validator = randomList[v][0]
    BY Zenon DEF ValidateNextBlock, ValidateBlock
  <2>3. randomList[v] \in RandomLists
    BY Zenon, <1>1 DEF TypeOK
  <2>4. 0 \in 0..(NumValidators - 1)
    <3>1. NumValidators \in Nat
      BY Zenon, ConstantsAssumption, FS_CardinalityType DEF NumValidators
    <3> QED  BY <3>1, ConstantsAssumption
  <2>5. randomList[v][0] \in Validators
    BY Zenon, <2>3, <2>4 DEF RandomLists
  <2> QED  BY Zenon, <2>1, <2>2, <2>5, ConstantsAssumption
<1>4. b = [new EXCEPT !.timestamp = clock, !.validator = v,
                      !.blockRandomness = ParseTxSeedList(new.txValidators)]
  BY Zenon, <1>3 DEF CreatedBlock, SignBlock
<1>5. /\ b.nHeight = Height(v) + 1 /\ b.timestamp = clock /\ b.validator = v
      /\ b.blockRandomness = ParseTxSeedList(txs)
  BY Zenon, <1>4 DEF NewBlock, Height
<1>6. b.blockRandomness \in Randomness
  <2>1. [i \in 1..MinValidators |-> txs[MinValidators + i].data]
          \in [1..MinValidators -> Seeds]
    BY Zenon, <1>2
  <2>2. b.blockRandomness = Sha3([i \in 1..MinValidators |-> txs[MinValidators + i].data])
    BY Zenon, <1>5 DEF ParseTxSeedList
  <2> QED  BY Zenon, <2>1, <2>2 DEF Randomness
<1>7. b.nHeight \in Nat /\ b.timestamp \in Nat
  BY <1>1, <1>5, LatestFacts, ConstantsAssumption
<1> QED
  BY Zenon, <1>5, <1>6, <1>7 DEF IsBlock

(* Steps that change no more than a worker, mempools and sentTxs. *)
LEMMA WorkerTypeOK ==
  ASSUME TypeOK, ChainShape, NEW v \in Validators, WorkerStep(v)
  PROVE  TypeOK'
<1> DEFINE WorkerType == [Validators -> [pc : WorkerPcs, latestBlock : Nat,
                                     i : 0..MinValidators, seeds : SUBSET Seeds]]
<1>0. MinValidators \in Nat \ {0}
  BY Zenon, ConstantsAssumption
<1>type. worker \in WorkerType
  BY Zenon DEF TypeOK
<1>1. v \in Nodes /\ Height(v) \in Nat
  BY Zenon, NodesAssumption, LatestFacts
<1>2. ASSUME worker' \in WorkerType,
             UNCHANGED <<nodeVars, syncer, handler, sentTxs, sentBlocks>>
      PROVE  TypeOK'
  BY Zenon, <1>2 DEF TypeOK, nodeVars, IsBlock, SyncerBlocks
<1>3. ASSUME NEW tx \in TxValidator, worker' \in WorkerType,
             sentTxs' = sentTxs \cup {tx},
             validatorMempool' = [validatorMempool EXCEPT ![v] = PoolWith(v, {tx})],
             UNCHANGED <<chain, randomList, syncer, handler, sentBlocks>>
      PROVE  TypeOK'
  BY Zenon, <1>1, <1>3 DEF TypeOK, PoolWith, IsBlock, SyncerBlocks
<1>4. CASE WorkerElect(v)
  <2>1. worker' \in WorkerType
    BY <1>0, <1>type, <1>1, <1>4 DEF WorkerElect, WorkerPcs
  <2> QED  BY Zenon, <1>2, <1>4, <2>1 DEF WorkerElect
<1>5. CASE WorkerCommit(v)
  <2>1. PICK seed \in Seeds :
          LET tx == RandomHashTx(v, seed, worker[v].latestBlock + 1)
          IN  /\ validatorMempool' = [validatorMempool EXCEPT ![v] = PoolWith(v, {tx})]
              /\ sentTxs' = sentTxs \cup {tx}
              /\ worker' = [worker EXCEPT ![v].pc = "awaitHashes", ![v].seeds = {seed}]
    BY Zenon, <1>5 DEF WorkerCommit
  <2> DEFINE tx == RandomHashTx(v, seed, worker[v].latestBlock + 1)
  <2>2. tx \in TxValidator
    BY DEF RandomHashTx, TxValidator, TypeOK
  <2>3. worker' \in WorkerType
    <3> DEFINE pool == {seed}
    <3>1. pool \in SUBSET Seeds /\ "awaitHashes" \in WorkerPcs
      BY Zenon DEF WorkerPcs
    <3> DEFINE w == [worker[v] EXCEPT !.pc = "awaitHashes", !.seeds = pool]
    <3>2. worker' = [worker EXCEPT ![v] = w]
      BY Zenon, <1>type, <2>1
    <3> HIDE DEF pool
    <3>3. w \in [pc : WorkerPcs, latestBlock : Nat, i : 0..MinValidators, seeds : SUBSET Seeds]
      BY Zenon, <1>type, <3>1
    <3> HIDE DEF w
    <3> QED
      BY Zenon, <1>type, <3>2, <3>3
  <2> QED  BY Zenon, <1>3, <1>5, <2>1, <2>2, <2>3 DEF WorkerCommit
<1>6. CASE WorkerReveal(v)
  <2>1. PICK seed \in worker[v].seeds :
          LET tx == RandomSeedTx(v, seed, worker[v].latestBlock + 1)
          IN  /\ validatorMempool' = [validatorMempool EXCEPT ![v] = PoolWith(v, {tx})]
              /\ sentTxs' = sentTxs \cup {tx}
              /\ worker' = [worker EXCEPT ![v].pc = "scan", ![v].seeds = {}]
    BY Zenon, <1>6 DEF WorkerReveal
  <2> DEFINE tx == RandomSeedTx(v, seed, worker[v].latestBlock + 1)
  <2>2. tx \in TxValidator
    BY DEF RandomSeedTx, TxValidator, TypeOK
  <2>3. worker' \in WorkerType
    BY <1>type, <2>1 DEF WorkerPcs
  <2> QED  BY Zenon, <1>3, <1>6, <2>1, <2>2, <2>3 DEF WorkerReveal
<1>7. CASE WorkerSeesPool(v)
  <2>1. worker' \in WorkerType
    BY <1>0, <1>type, <1>1, <1>7 DEF WorkerSeesPool, WorkerPcs
  <2> QED  BY Zenon, <1>2, <1>7, <2>1 DEF WorkerSeesPool
<1>8. CASE WorkerScan(v)
  <2>1. worker' \in WorkerType
    BY <1>0, <1>type, <1>1, <1>8 DEF WorkerScan, WorkerAt, WorkerPcs
  <2> QED  BY Zenon, <1>2, <1>8, <2>1 DEF WorkerScan
<1>9. CASE WorkerPoolFull(v)
  <2>1. worker' \in WorkerType
    BY <1>0, <1>type, <1>1, <1>9 DEF WorkerPoolFull, WorkerPcs
  <2> QED  BY Zenon, <1>2, <1>9, <2>1 DEF WorkerPoolFull
<1>10. CASE WorkerNextRound(v)
  <2>1. worker' \in WorkerType
    BY <1>0, <1>type, <1>1, <1>10 DEF WorkerNextRound, WorkerAt, WorkerPcs
  <2> QED  BY Zenon, <1>2, <1>10, <2>1 DEF WorkerNextRound
<1> QED
  BY Zenon, <1>4, <1>5, <1>6, <1>7, <1>8, <1>9, <1>10 DEF WorkerStep

(* The syncer of a node.                                                     *)
LEMMA SyncerTypeOK ==
  ASSUME TypeOK, ChainShape, HandlerInv, NEW v \in Validators, SyncerStep(v)
  PROVE  TypeOK'
<1> DEFINE SyncerType(S) == [Validators -> [pc : SyncerPcs, latestBlock : Nat,
                                            mempool : SUBSET sentTxs, block : S,
                                            clock : Nat]]
<1>1. v \in Nodes /\ Height(v) \in Nat
  BY Zenon, NodesAssumption, LatestFacts
<1>2. /\ syncer \in SyncerType(SyncerBlocks)
      /\ validatorMempool[v] \subseteq sentTxs
      /\ \A u \in Validators :
           syncer[u].pc \in {"process", "pushBack"} => IsBlock(syncer[u].block)
  BY Zenon, <1>1 DEF TypeOK
<1>3. ASSUME NEW S, syncer' \in SyncerType(S)
      PROVE  syncer' \in SyncerType(SyncerBlocks')
  BY Zenon, <1>3 DEF SyncerBlocks
<1>4. ASSUME NEW S, syncer' \in SyncerType(S),
             syncer'[v].pc \in {"process", "pushBack"} => IsBlock(syncer'[v].block),
             \A u \in Validators \ {v} : syncer'[u] = syncer[u],
             UNCHANGED <<nodeVars, worker, handler, sentTxs, sentBlocks>>
      PROVE  TypeOK'
  <2>1. \A u \in Validators :
          syncer'[u].pc \in {"process", "pushBack"} => IsBlock(syncer'[u].block)
    BY Zenon, <1>2, <1>4
  <2> QED  BY Zenon, <1>3, <1>4, <2>1 DEF TypeOK, nodeVars, IsBlock
<1>5. CASE SyncerElect(v)
  <2>1. syncer' \in SyncerType(SyncerBlocks)
    BY <1>2, <1>5 DEF SyncerElect, SyncerPcs
  <2>2. /\ syncer'[v].pc \notin {"process", "pushBack"}
        /\ \A u \in Validators \ {v} : syncer'[u] = syncer[u]
    BY Zenon, <1>2, <1>5 DEF SyncerElect
  <2> QED  BY Zenon, <1>4, <1>5, <2>1, <2>2 DEF SyncerElect
<1>6. CASE SyncerAwaitTxs(v)
  <2>1. syncer' \in SyncerType(SyncerBlocks)
    BY <1>2, <1>6 DEF SyncerAwaitTxs, SyncerPcs
  <2>2. /\ syncer'[v].pc \notin {"process", "pushBack"}
        /\ \A u \in Validators \ {v} : syncer'[u] = syncer[u]
    BY Zenon, <1>2, <1>6 DEF SyncerAwaitTxs
  <2> QED  BY Zenon, <1>4, <1>6, <2>1, <2>2 DEF SyncerAwaitTxs
<1>6a. CASE SyncerSeesTx(v)
  <2>1. syncer' \in SyncerType(SyncerBlocks)
    BY <1>2, <1>6a DEF SyncerSeesTx, SyncerPcs
  <2>2. /\ syncer'[v].pc \notin {"process", "pushBack"}
        /\ \A u \in Validators \ {v} : syncer'[u] = syncer[u]
    BY Zenon, <1>2, <1>6a DEF SyncerSeesTx
  <2> QED  BY Zenon, <1>4, <1>6a, <2>1, <2>2 DEF SyncerSeesTx
<1>7. CASE SyncerGetMempool(v)
  <2>1. syncer' \in SyncerType(SyncerBlocks)
    <3>1. syncer' = [syncer EXCEPT ![v].pc = "order", ![v].mempool = validatorMempool[v]]
      BY Zenon, <1>7 DEF SyncerGetMempool
    <3>2. "order" \in SyncerPcs
      BY Zenon DEF SyncerPcs
    <3> QED  BY Zenon, <1>2, <3>1, <3>2
  <2>2. /\ syncer'[v].pc \notin {"process", "pushBack"}
        /\ \A u \in Validators \ {v} : syncer'[u] = syncer[u]
    BY Zenon, <1>2, <1>7 DEF SyncerGetMempool
  <2> QED  BY Zenon, <1>4, <1>7, <2>1, <2>2 DEF SyncerGetMempool
<1>8. CASE SyncerSign(v)
  <2>0. PICK body \in Bodies, clock \in Times :
          syncer' = [syncer EXCEPT ![v] =
                     IF ValidateNextBlock(v, CreatedBlock(v, body, clock))
                     THEN [SyncerAt("process", @.latestBlock) EXCEPT
                             !.block = CreatedBlock(v, body, clock)]
                     ELSE [SyncerAt("dead", @.latestBlock) EXCEPT
                             !.block = CreatedBlock(v, body, clock), !.clock = clock]]
    BY Zenon, <1>8 DEF SyncerSign
  <2> DEFINE b == CreatedBlock(v, body, clock)
  <2>1. ValidateNextBlock(v, b) => IsBlock(b)
    BY Zenon, <1>8, CreatedBlockFacts DEF SyncerSign
  <2>2. syncer' = [syncer EXCEPT ![v] =
                     IF ValidateNextBlock(v, b)
                     THEN [SyncerAt("process", @.latestBlock) EXCEPT !.block = b]
                     ELSE [SyncerAt("dead", @.latestBlock) EXCEPT !.block = b, !.clock = clock]]
    BY Zenon, <2>0
  <2> HIDE DEF b
  <2>3. syncer' \in SyncerType(SyncerBlocks \cup {b, Genesis})
    <3>1. clock \in Nat
      BY Zenon, ConstantsAssumption
    <3> QED  BY Zenon, <1>2, <2>2, <3>1, GenesisTime DEF SyncerAt, SyncerPcs
  <2>4. /\ syncer'[v].pc \in {"process", "pushBack"} =>
             ValidateNextBlock(v, b) /\ syncer'[v].block = b
        /\ \A u \in Validators \ {v} : syncer'[u] = syncer[u]
    BY Zenon, <1>2, <2>2 DEF SyncerAt
  <2> QED  BY Zenon, <1>4, <1>8, <2>1, <2>3, <2>4 DEF SyncerSign
<1>9. CASE SyncerProcess(v)
  <2>1. syncer' \in SyncerType(SyncerBlocks)
    BY <1>2, <1>9 DEF SyncerProcess, SyncerPcs
  <2>2. /\ syncer'[v].block = syncer[v].block
        /\ \A u \in Validators \ {v} : syncer'[u] = syncer[u]
    BY Zenon, <1>2, <1>9 DEF SyncerProcess
  <2>3. ListAfter(syncer[v].block) \in RandomLists
    BY Zenon, <1>2, <1>9, ShuffleAssumption DEF SyncerProcess, IsBlock, ListAfter
  <2>4. \A u \in Validators :
          syncer'[u].pc \in {"process", "pushBack"} => IsBlock(syncer'[u].block)
    BY Zenon, <1>2, <1>9, <2>2 DEF SyncerProcess
  <2> QED
    BY Zenon, <1>1, <1>3, <1>9, <2>1, <2>3, <2>4
    DEF SyncerProcess, ProcessBlock, TypeOK, IsBlock
<1>10. CASE SyncerPushBack(v)
  <2> DEFINE b == syncer[v].block
  <2>1. syncer' \in SyncerType(SyncerBlocks \cup {Genesis})
    BY <1>2, <1>10, GenesisTime DEF SyncerPushBack, SyncerAt, SyncerPcs
  <2>2. \A u \in Validators :
          syncer'[u].pc \in {"process", "pushBack"} => IsBlock(syncer'[u].block)
    BY <1>2, <1>10 DEF SyncerPushBack, SyncerAt
  <2>3. IsBlock(b)
    BY Zenon, <1>2, <1>10 DEF SyncerPushBack
  <2>4. CASE Extends(b, Latest(v))
    <3>1. sentBlocks' = sentBlocks \cup {b}
      BY Zenon, <1>10, <2>4 DEF SyncerPushBack
    <3>2. \A n \in Nodes : chain[n] \in Seq({Genesis} \cup sentBlocks')
      BY Zenon, <3>1, SeqMono DEF TypeOK
    <3>3. chain' = [chain EXCEPT ![v] = Append(@, b)]
      BY Zenon, <1>10, <2>4 DEF SyncerPushBack, PushBack
    <3>4. Append(chain[v], b) \in Seq({Genesis} \cup sentBlocks')
      BY <1>1, <3>1, <3>2
    <3>5. chain' \in [Nodes -> Seq({Genesis} \cup sentBlocks')]
      BY Zenon, <3>2, <3>3, <3>4 DEF TypeOK
    <3>6. \A c \in sentBlocks' : IsBlock(c)
      BY Zenon, <2>3, <3>1 DEF TypeOK
    <3>7. handler' \in [Nodes -> [pc : {"idle", "process", "pushBack"},
                                  block : {Genesis} \cup sentBlocks']]
      BY Zenon, <1>10, <3>1 DEF SyncerPushBack, TypeOK
    <3> QED
      BY Zenon, <1>3, <1>10, <2>1, <2>2, <3>5, <3>6, <3>7
      DEF SyncerPushBack, TypeOK, IsBlock
  <2>5. CASE ~Extends(b, Latest(v))
    <3>1. chain' = chain /\ sentBlocks' = sentBlocks
      BY Zenon, <1>10, <2>5 DEF SyncerPushBack, PushBack, TypeOK
    <3> QED
      BY Zenon, <1>3, <1>10, <2>1, <2>2, <3>1 DEF SyncerPushBack, TypeOK, IsBlock
  <2> QED  BY Zenon, <2>4, <2>5
<1>11. CASE SyncerNextRound(v)
  <2>1. syncer' \in SyncerType(SyncerBlocks \cup {Genesis})
    BY Zenon, <1>1, <1>2, <1>11, GenesisTime DEF SyncerNextRound, SyncerAt, SyncerPcs
  <2>2. /\ syncer'[v].pc \notin {"process", "pushBack"}
        /\ \A u \in Validators \ {v} : syncer'[u] = syncer[u]
    BY Zenon, <1>2, <1>11 DEF SyncerNextRound, SyncerAt
  <2> QED  BY Zenon, <1>4, <1>11, <2>1, <2>2 DEF SyncerNextRound
<1> QED
  BY Zenon, <1>5, <1>6, <1>6a, <1>7, <1>8, <1>9, <1>10, <1>11 DEF SyncerStep

(* The handlers of messages.                                                 *)
LEMMA HandlerTypeOK ==
  ASSUME TypeOK, ChainShape, HandlerInv, NEW n \in Nodes, HandlerStep(n)
  PROVE  TypeOK'
<1> DEFINE HandlerType == [Nodes -> [pc : {"idle", "process", "pushBack"},
                                     block : {Genesis} \cup sentBlocks]]
<1>1. handler \in HandlerType
  BY Zenon DEF TypeOK
<1>2. CASE \E b \in sentBlocks : HandleBlockBroadcast(n, b)
  <2>1. handler' \in HandlerType
    BY <1>1, <1>2 DEF HandleBlockBroadcast
  <2>2. UNCHANGED <<nodeVars, worker, syncer, sentTxs, sentBlocks>>
    BY Zenon, <1>2 DEF HandleBlockBroadcast
  <2> QED  BY Zenon, <2>1, <2>2 DEF nodeVars, TypeOK, IsBlock, SyncerBlocks
<1>3. CASE HandlerProcess(n)
  <2>1. handler' \in HandlerType
    BY <1>1, <1>3 DEF HandlerProcess
  <2>2. ListAfter(handler[n].block) \in RandomLists
    BY Zenon, <1>1, BlockFacts
  <2>3. randomList \in [Nodes -> RandomLists] /\ validatorMempool \in [Nodes -> SUBSET sentTxs]
    BY Zenon DEF TypeOK
  <2>4. randomList' \in [Nodes -> RandomLists] /\ validatorMempool' \in [Nodes -> SUBSET sentTxs]
    BY Zenon, <1>3, <2>2, <2>3 DEF HandlerProcess, ProcessBlock
  <2>5. UNCHANGED <<chain, worker, syncer, sentTxs, sentBlocks>>
    BY Zenon, <1>3 DEF HandlerProcess
  <2> QED
    BY Zenon, <2>1, <2>4, <2>5 DEF TypeOK, IsBlock, SyncerBlocks
<1>4. CASE HandlerPushBack(n)
  <2>1. handler' \in HandlerType
    BY Zenon, <1>1, <1>4 DEF HandlerPushBack, IdleHandler
  <2>2. Append(chain[n], handler[n].block) \in Seq({Genesis} \cup sentBlocks)
    BY <1>1 DEF TypeOK
  <2>3. chain' \in [Nodes -> Seq({Genesis} \cup sentBlocks)]
    BY Zenon, <1>4, <2>2 DEF HandlerPushBack, PushBack, TypeOK
  <2>4. UNCHANGED <<randomList, validatorMempool, worker, syncer, sentTxs, sentBlocks>>
    BY Zenon, <1>4 DEF HandlerPushBack
  <2> QED
    BY Zenon, <2>1, <2>3, <2>4 DEF TypeOK, IsBlock, SyncerBlocks
<1> QED  BY Zenon, <1>2, <1>3, <1>4 DEF HandlerStep

(* Messages that reach a pool.                                               *)
LEMMA PoolTypeOK ==
  ASSUME TypeOK, NEW n \in Nodes, NEW txs \in SUBSET sentTxs,
         validatorMempool' = [validatorMempool EXCEPT ![n] = PoolWith(n, txs)],
         UNCHANGED <<chain, randomList, worker, syncer, handler, sentTxs, sentBlocks>>
  PROVE  TypeOK'
<1>1. PoolWith(n, txs) \subseteq sentTxs
  BY Zenon DEF PoolWith, TypeOK
<1>2. validatorMempool' \in [Nodes -> SUBSET sentTxs]
  BY Zenon, <1>1 DEF TypeOK
<1> QED  BY Zenon, <1>2 DEF TypeOK, IsBlock, SyncerBlocks

(* Every step.                                                               *)
LEMMA NextTypeOK == TypeOK /\ ChainShape /\ HandlerInv /\ [Next]_vars => TypeOK'
<1> SUFFICES ASSUME TypeOK, ChainShape, HandlerInv, [Next]_vars
             PROVE  TypeOK'
  OBVIOUS
<1>1. ASSUME NEW v \in Validators, NEW p \in Nodes, WorkerRequestTxs(v, p)
      PROVE  TypeOK'
  <2>1. v \in Nodes /\ validatorMempool[p] \in SUBSET sentTxs
    BY Zenon, NodesAssumption DEF TypeOK
  <2> QED  BY Zenon, <1>1, <2>1, PoolTypeOK DEF WorkerRequestTxs
<1>2. ASSUME NEW n \in Nodes, NEW tx \in sentTxs, HandleTxValidatorBroadcast(n, tx)
      PROVE  TypeOK'
  <2>1. {tx} \in SUBSET sentTxs
    OBVIOUS
  <2> QED  BY Zenon, <1>2, <2>1, PoolTypeOK DEF HandleTxValidatorBroadcast
<1>3. CASE UNCHANGED vars
  BY Zenon, <1>3 DEF vars, TypeOK, IsBlock, SyncerBlocks
<1> QED
  BY Zenon, <1>1, <1>2, <1>3, WorkerTypeOK, SyncerTypeOK, HandlerTypeOK DEF Next

-----------------------------------------------------------------------------
(* ChainInv *)

(* All nodes start with the genesis block.                                   *)
LEMMA InitChainInv == Init => ChainInv
<1> SUFFICES ASSUME Init PROVE ChainInv
  OBVIOUS
<1>1. \A n \in Nodes : /\ chain[n] = <<Genesis>> /\ Len(chain[n]) = 1
                       /\ chain[n][1] = Genesis /\ Latest(n) = Genesis
                       /\ handler[n].pc = "idle"
  BY Zenon DEF Init, Latest, IdleHandler
<1>2. \A v \in Validators : syncer[v].pc = "elect"
  BY Zenon DEF Init, SyncerAt
<1>3. ChainShape
  BY <1>1, GenesisFacts DEF ChainShape
<1>4. Agreement
  BY Zenon, <1>1 DEF Agreement
<1>5. SentInOwnChain /\ HandlerInv
  BY Zenon, <1>1 DEF Init, SentInOwnChain, HandlerInv
<1>6. SyncerInv
  BY Zenon, <1>2 DEF SyncerInv, Creating
<1>7. ListInv
  BY Zenon, <1>1, <1>2 DEF Init, ListInv, Applied
<1>8. PoolInv
  BY Zenon DEF Init, PoolInv
<1> QED  BY Zenon, <1>3, <1>4, <1>5, <1>6, <1>7, <1>8 DEF ChainInv

(* Steps that move no block: workers, requests and transaction handlers. *)
LEMMA PoolChainInv ==
  ASSUME ChainInv, UNCHANGED <<chain, randomList, syncer, handler, sentBlocks>>,
         \A n \in Nodes : StateUnlocked(n) \/ validatorMempool'[n] = validatorMempool[n]
  PROVE  ChainInv'
<1>1. ChainShape' /\ Agreement' /\ SentInOwnChain'
  BY DEF ChainInv, ChainShape, Agreement, SentInOwnChain
<1>2. HandlerInv' /\ SyncerInv' /\ ListInv'
  BY Zenon DEF ChainInv, HandlerInv, SyncerInv, ListInv, Applied, Latest
<1>3. PoolInv'
  BY Zenon DEF ChainInv, PoolInv, StateUnlocked
<1> QED  BY Zenon, <1>1, <1>2, <1>3 DEF ChainInv

(* A node's list when no block is being applied there. *)
LEMMA UnlockedList ==
  ASSUME ListInv, NEW n \in Nodes, StateUnlocked(n)
  PROVE  randomList[n] = ListAfter(Latest(n))
BY Zenon DEF ListInv, Applied, StateUnlocked

(* A node whose list it heads itself has no block under way in the handler. *)
LEMMA CreatorHandlerIdle ==
  ASSUME TypeOK, ChainInv, NEW n \in Nodes, n = ListAfter(Latest(n))[0]
  PROVE  handler[n].pc = "idle"
<1> SUFFICES ASSUME handler[n].pc # "idle" PROVE FALSE
  OBVIOUS
<1>1. handler[n].block \in sentBlocks /\ handler[n].block.nHeight = Height(n) + 1
  BY Zenon DEF ChainInv, HandlerInv, Extends, Height
<1> QED  BY <1>1, NextBlockIsForeign DEF ChainInv

(* Steps of a syncer before it applies its block. *)
LEMMA SyncerMoveChainInv ==
  ASSUME TypeOK, ChainInv, NEW v \in Validators,
         UNCHANGED <<nodeVars, handler, sentBlocks>>,
         syncer[v].pc # "pushBack", syncer'[v].pc # "pushBack",
         \A u \in Validators \ {v} : syncer'[u] = syncer[u],
         syncer'[v].pc = "awaitTxs" => v = randomList[v][0],
         syncer'[v].pc \in Creating => v = ListAfter(Latest(v))[0],
         syncer'[v].pc = "process" =>
           /\ syncer'[v].block.validator = v
           /\ Extends(syncer'[v].block, Latest(v))
  PROVE  ChainInv'
<1>1. ChainShape' /\ Agreement' /\ SentInOwnChain'
  <2>1. ChainShape' /\ Agreement'
    BY Zenon DEF ChainInv, ChainShape, Agreement, nodeVars
  <2>2. SentInOwnChain'
    BY Zenon DEF ChainInv, SentInOwnChain, nodeVars
  <2> QED
    BY Zenon, <2>1, <2>2
<1>2. HandlerInv'
  BY Zenon DEF ChainInv, HandlerInv, Latest, nodeVars
<1>3. SyncerInv'
  <2> SUFFICES ASSUME NEW u \in Validators
               PROVE  /\ syncer'[u].pc = "awaitTxs" => u = randomList[u][0]
                      /\ syncer'[u].pc \in Creating =>
                           handler[u].pc = "idle" /\ u = ListAfter(Latest(u))[0]
                      /\ syncer'[u].pc \in {"process", "pushBack"} =>
                           /\ syncer'[u].block.validator = u
                           /\ Extends(syncer'[u].block, Latest(u))
    BY Zenon DEF SyncerInv, Latest, nodeVars
  <2>1. CASE u = v
    <3>1. v \in Nodes
      BY Zenon, NodesAssumption
    <3>2. syncer'[v].pc \in Creating => handler[v].pc = "idle"
      BY Zenon, <3>1, CreatorHandlerIdle
    <3> QED  BY Zenon, <2>1, <3>2
  <2>2. CASE u # v
    BY <2>2 DEF ChainInv, SyncerInv
  <2> QED  BY Zenon, <2>1, <2>2
<1>4. ListInv'
  BY Zenon DEF ChainInv, ListInv, Applied, Latest, nodeVars
<1>5. PoolInv'
  BY Zenon DEF ChainInv, PoolInv, StateUnlocked, nodeVars
<1> QED  BY Zenon, <1>1, <1>2, <1>3, <1>4, <1>5 DEF ChainInv

(* A step that appends to the chain of one node the block it has applied. *)
LEMMA AppendChain ==
  ASSUME TypeOK, ChainShape, Agreement, SentInOwnChain, NEW n \in Nodes, NEW b,
         b.nHeight = Height(n) + 1, b.validator = ListAfter(Latest(n))[0],
         b \in sentBlocks \/ b.validator = n,
         chain' = [chain EXCEPT ![n] = Append(@, b)],
         sentBlocks' = sentBlocks \cup {b}
  PROVE  /\ ChainShape' /\ Agreement' /\ SentInOwnChain'
         /\ Latest(n)' = b
         /\ \A m \in Nodes \ {n} : Latest(m)' = Latest(m)
<1> DEFINE k == Len(chain[n])
<1>1. k \in Nat \ {0} /\ Latest(n) = chain[n][k] /\ b.nHeight = k
  BY LatestFacts
<1>2. /\ Len(chain'[n]) = k + 1
      /\ chain'[n][k + 1] = b
      /\ \A i \in 1..k : chain'[n][i] = chain[n][i]
  <2>1. chain[n] \in Seq({Genesis} \cup sentBlocks)
    BY Zenon DEF TypeOK
  <2>2. chain'[n] = Append(chain[n], b)
    BY Zenon DEF TypeOK
  <2>3. chain[n] \in Seq({Genesis} \cup sentBlocks \cup {b})
    BY <2>1, SeqMono
  <2> QED  BY <2>2, <2>3
<1>3. \A m \in Nodes \ {n} : chain'[m] = chain[m]
  BY Zenon DEF TypeOK
<1>4. \A m \in Nodes : Len(chain[m]) \in Nat \ {0}
  BY Zenon, LatestFacts
<1> HIDE DEF k
<1>5. ChainShape'
  <2> SUFFICES ASSUME NEW m \in Nodes
               PROVE  /\ Len(chain'[m]) >= 1
                      /\ \A i \in 1..Len(chain'[m]) : chain'[m][i].nHeight = i - 1
                      /\ \A i \in 1..(Len(chain'[m]) - 1) :
                           chain'[m][i + 1].validator = ListAfter(chain'[m][i])[0]
    BY Zenon DEF ChainShape
  <2>1. CASE m = n
    <3>1. \A i \in 1..(k + 1) : chain'[n][i].nHeight = i - 1
      BY <1>1, <1>2 DEF ChainShape, k
    <3>2. ASSUME NEW i \in 1..k
          PROVE  chain'[n][i + 1].validator = ListAfter(chain'[n][i])[0]
      <4>1. CASE i = k
        BY Zenon, <1>1, <1>2, <4>1
      <4>2. CASE i # k
        <5>1. i \in 1..(k - 1) /\ i + 1 \in 1..k
          BY <1>1, <4>2
        <5>2. chain'[n][i] = chain[n][i] /\ chain'[n][i + 1] = chain[n][i + 1]
          BY Zenon, <1>2, <5>1
        <5>3. chain[n][i + 1].validator = ListAfter(chain[n][i])[0]
          BY Zenon, <5>1 DEF ChainShape, k
        <5> QED  BY Zenon, <5>2, <5>3
      <4> QED  BY Zenon, <4>1, <4>2
    <3>3. Len(chain'[n]) = k + 1 /\ k + 1 >= 1 /\ (k + 1) - 1 = k
      BY <1>1, <1>2
    <3> QED  BY <2>1, <3>1, <3>2, <3>3
  <2>2. CASE m # n
    BY <1>3, <2>2 DEF ChainShape
  <2> QED  BY Zenon, <2>1, <2>2
<1>6. ASSUME NEW m \in Nodes, m # n, k + 1 <= Len(chain[m])
      PROVE  chain[m][k + 1] = b
  <2> DEFINE c == chain[m][k + 1]
  <2>1. k + 1 \in 1..Len(chain[m])
    BY <1>1, <1>4, <1>6
  <2>2. c \in {Genesis} \cup sentBlocks /\ c.nHeight = k
    BY SMTT(30), <1>1, <2>1 DEF TypeOK, ChainShape
  <2>3. c \in sentBlocks
    BY Zenon, <1>1, <2>2, GenesisFacts
  <2>4. c.validator = ListAfter(Latest(n))[0] /\ c.validator # n
    BY <1>1, <2>2, <2>3, NextBlockIsForeign
  <2>5. b \in sentBlocks
    BY Zenon, <2>4
  <2>6. /\ b.nHeight \in 1..(Len(chain[b.validator]) - 1)
        /\ chain[b.validator][k + 1] = b
    BY Zenon, <1>1, <2>5 DEF SentInOwnChain
  <2>7. b.validator \in Nodes
    BY Zenon, <2>5, NodesAssumption DEF TypeOK, IsBlock
  <2>8. k + 1 <= Len(chain[b.validator])
    BY SMTT(30), <1>1, <1>4, <2>6, <2>7
  <2> QED  BY Zenon, <2>1, <2>6, <2>7, <2>8 DEF Agreement
<1>7. Agreement'
  <2> SUFFICES ASSUME NEW m \in Nodes, NEW p \in Nodes, NEW i \in 1..Len(chain'[m]),
                      i <= Len(chain'[p])
               PROVE  chain'[m][i] = chain'[p][i]
    BY Zenon DEF Agreement
  <2>1. CASE m # n /\ p # n
    BY <1>3, <2>1 DEF Agreement
  <2>2. CASE m = n /\ p # n
    <3>1. CASE i = k + 1
      BY Zenon, <1>2, <1>3, <1>6, <2>2, <3>1
    <3>2. CASE i # k + 1
      <4>1. i \in 1..k
        BY <1>1, <1>2, <2>2, <3>2
      <4> QED  BY <1>2, <1>3, <2>2, <4>1 DEF Agreement, k
    <3> QED  BY Zenon, <3>1, <3>2
  <2>3. CASE m # n /\ p = n
    <3>1. CASE i = k + 1
      BY SMTT(30), <1>2, <1>3, <1>4, <1>6, <2>3, <3>1
    <3>2. CASE i # k + 1
      <4>1. i \in 1..k
        BY <1>1, <1>2, <1>3, <1>4, <2>3, <3>2
      <4> QED  BY <1>2, <1>3, <2>3, <4>1 DEF Agreement, k
    <3> QED  BY Zenon, <3>1, <3>2
  <2>4. CASE m = n /\ p = n
    BY Zenon, <2>4
  <2> QED  BY Zenon, <2>1, <2>2, <2>3, <2>4
<1>8. SentInOwnChain'
  <2> SUFFICES ASSUME NEW c \in sentBlocks'
               PROVE  /\ c.nHeight \in 1..(Len(chain'[c.validator]) - 1)
                      /\ chain'[c.validator][c.nHeight + 1] = c
    BY Zenon DEF SentInOwnChain
  <2>1. CASE c \in sentBlocks
    <3>1. /\ c.nHeight \in 1..(Len(chain[c.validator]) - 1)
          /\ chain[c.validator][c.nHeight + 1] = c
      BY Zenon, <2>1 DEF SentInOwnChain
    <3>2. c.validator \in Nodes
      BY Zenon, <2>1, NodesAssumption DEF TypeOK, IsBlock
    <3>3. CASE c.validator = n
      <4>1. c.nHeight \in 1..(k - 1)
        BY Zenon, <3>1, <3>3 DEF k
      <4>2. c.nHeight \in 1..((k + 1) - 1) /\ c.nHeight + 1 \in 1..k
        BY SMTT(30), <1>1, <4>1
      <4> QED  BY Zenon, <1>2, <3>1, <3>3, <4>2
    <3>4. CASE c.validator # n
      BY Zenon, <1>3, <3>1, <3>2, <3>4
    <3> QED  BY Zenon, <3>3, <3>4
  <2>2. CASE c \notin sentBlocks
    <3>1. c = b /\ b.validator = n
      BY Zenon, <2>2
    <3> QED  BY <1>1, <1>2, <3>1
  <2> QED  BY Zenon, <2>1, <2>2
<1> QED
  BY Zenon, <1>1, <1>2, <1>3, <1>5, <1>7, <1>8 DEF Latest

(* The validator thread extends no chain.                                    *)
LEMMA WorkerChainInv ==
  ASSUME ChainInv, NEW v \in Validators, WorkerStep(v), TypeOK
  PROVE  ChainInv'
<1>1. UNCHANGED <<chain, randomList, syncer, handler, sentBlocks>>
  BY Zenon DEF WorkerStep, WorkerElect, WorkerCommit, WorkerSeesPool, WorkerReveal,
         WorkerScan, WorkerPoolFull, WorkerNextRound, nodeVars
<1>2. \/ validatorMempool' = validatorMempool
      \/ /\ StateUnlocked(v)
         /\ \E pool : validatorMempool' = [validatorMempool EXCEPT ![v] = pool]
  BY Zenon DEF WorkerStep, WorkerElect, WorkerCommit, WorkerSeesPool, WorkerReveal,
         WorkerScan, WorkerPoolFull, WorkerNextRound, nodeVars
<1>3. \A n \in Nodes : StateUnlocked(n) \/ validatorMempool'[n] = validatorMempool[n]
  BY Zenon, <1>2 DEF TypeOK
<1> QED  BY Zenon, <1>1, <1>3, PoolChainInv

(* The Syncer gives its block to rdPoS.                                     *)
LEMMA SyncerProcessChainInv ==
  ASSUME TypeOK, ChainInv, NEW v \in Validators, SyncerProcess(v)
  PROVE  ChainInv'
<1>0. SyncerProcess(v)
  OBVIOUS
<1>1. v \in Nodes
  BY Zenon, NodesAssumption
<1>2. /\ DOMAIN syncer = Validators
      /\ DOMAIN syncer[v] = {"pc", "latestBlock", "mempool", "block", "clock"}
  BY Zenon DEF TypeOK
<1>3. /\ syncer[v].pc = "awaitTxs" => v = randomList[v][0]
      /\ syncer[v].pc \in Creating =>
           handler[v].pc = "idle" /\ v = ListAfter(Latest(v))[0]
      /\ syncer[v].pc \in {"process", "pushBack"} =>
           syncer[v].block.validator = v /\ Extends(syncer[v].block, Latest(v))
  BY Zenon DEF ChainInv, SyncerInv
<1> QED
  <2> DEFINE b == syncer[v].block
  <2>1. /\ syncer[v].pc = "process"
        /\ syncer'[v].pc = "pushBack" /\ syncer'[v].block = b
        /\ \A u \in Validators \ {v} : syncer'[u] = syncer[u]
        /\ UNCHANGED <<chain, handler, sentBlocks>>
    BY <1>2, <1>0 DEF SyncerProcess
  <2>2. /\ randomList'[v] = ListAfter(b) /\ validatorMempool'[v] = {}
        /\ \A n \in Nodes \ {v} : /\ randomList'[n] = randomList[n]
                                  /\ validatorMempool'[n] = validatorMempool[n]
    BY Zenon, <1>1, <1>0 DEF SyncerProcess, ProcessBlock, TypeOK
  <2>3. ChainShape' /\ Agreement' /\ SentInOwnChain' /\ HandlerInv'
    BY SMTT(30), <2>1 DEF ChainInv, ChainShape, Agreement, SentInOwnChain, HandlerInv, Latest
  <2>4. SyncerInv'
    BY SMTT(30), <1>3, <2>1, <2>2, NodesAssumption DEF ChainInv, SyncerInv, Creating, Latest
  <2>5. ListInv'
    BY <1>3, <2>1, <2>2 DEF ChainInv, ListInv, Applied, Creating, Latest
  <2>6. PoolInv'
    BY Zenon, <2>1, <2>2 DEF ChainInv, PoolInv, StateUnlocked
  <2> QED  BY Zenon, <2>3, <2>4, <2>5, <2>6 DEF ChainInv

(* It gives the block to Storage and broadcasts it.                         *)
LEMMA SyncerPushBackChainInv ==
  ASSUME TypeOK, ChainInv, NEW v \in Validators, SyncerPushBack(v)
  PROVE  ChainInv'
<1>0. SyncerPushBack(v)
  OBVIOUS
<1>1. v \in Nodes
  BY Zenon, NodesAssumption
<1>2. /\ DOMAIN syncer = Validators
      /\ DOMAIN syncer[v] = {"pc", "latestBlock", "mempool", "block", "clock"}
  BY Zenon DEF TypeOK
<1>3. /\ syncer[v].pc = "awaitTxs" => v = randomList[v][0]
      /\ syncer[v].pc \in Creating =>
           handler[v].pc = "idle" /\ v = ListAfter(Latest(v))[0]
      /\ syncer[v].pc \in {"process", "pushBack"} =>
           syncer[v].block.validator = v /\ Extends(syncer[v].block, Latest(v))
  BY Zenon DEF ChainInv, SyncerInv
<1> QED
  <2> DEFINE b == syncer[v].block
  <2>1. /\ syncer[v].pc = "pushBack"
        /\ handler[v].pc = "idle" /\ v = ListAfter(Latest(v))[0]
        /\ b.validator = v /\ Extends(b, Latest(v))
    BY Zenon, <1>3, <1>0 DEF SyncerPushBack, Creating
  <2>2. /\ chain' = [chain EXCEPT ![v] = Append(@, b)]
        /\ sentBlocks' = sentBlocks \cup {b}
        /\ syncer'[v].pc = "wait"
        /\ \A u \in Validators \ {v} : syncer'[u] = syncer[u]
        /\ UNCHANGED <<randomList, validatorMempool, handler>>
    BY SMTT(30), <1>2, <1>0, <2>1 DEF SyncerPushBack, PushBack, SyncerAt
  <2> HIDE DEF b
  <2>3. b.nHeight = Height(v) + 1
    BY Zenon, <2>1 DEF Extends, Height
  <2>4. /\ ChainShape' /\ Agreement' /\ SentInOwnChain'
        /\ Latest(v)' = b
        /\ \A m \in Nodes \ {v} : Latest(m)' = Latest(m)
    BY Zenon, <1>1, <2>1, <2>2, <2>3, AppendChain DEF ChainInv
  <2>5. HandlerInv'
    BY Zenon, <2>1, <2>2, <2>4 DEF ChainInv, HandlerInv
  <2>6. SyncerInv'
    BY <2>2, <2>4, NodesAssumption DEF ChainInv, SyncerInv, Creating
  <2>7. ListInv'
    <3> SUFFICES ASSUME NEW n \in Nodes PROVE randomList'[n] = ListAfter(Applied(n)')
      BY Zenon DEF ListInv
    <3>1. Applied(n)' = Applied(n)
      BY Zenon, <2>1, <2>2, <2>4 DEF Applied, b
    <3> QED  BY Zenon, <2>2, <3>1 DEF ChainInv, ListInv
  <2>8. PoolInv'
    BY Zenon, <2>2 DEF ChainInv, PoolInv, StateUnlocked
  <2> QED  BY Zenon, <2>4, <2>5, <2>6, <2>7, <2>8 DEF ChainInv

(* The syncer extends a chain by a block that fits it.                       *)
LEMMA SyncerChainInv ==
  ASSUME TypeOK, ChainInv, NEW v \in Validators, SyncerStep(v)
  PROVE  ChainInv'
<1>1. v \in Nodes
  BY Zenon, NodesAssumption
<1>2. /\ DOMAIN syncer = Validators
      /\ DOMAIN syncer[v] = {"pc", "latestBlock", "mempool", "block", "clock"}
  BY Zenon DEF TypeOK
<1>3. /\ syncer[v].pc = "awaitTxs" => v = randomList[v][0]
      /\ syncer[v].pc \in Creating =>
           handler[v].pc = "idle" /\ v = ListAfter(Latest(v))[0]
      /\ syncer[v].pc \in {"process", "pushBack"} =>
           syncer[v].block.validator = v /\ Extends(syncer[v].block, Latest(v))
  BY Zenon DEF ChainInv, SyncerInv
<1>4. CASE SyncerElect(v)
  <2>1. /\ syncer[v].pc = "elect"
        /\ syncer'[v].pc = IF v = randomList[v][0] THEN "awaitTxs" ELSE "wait"
        /\ \A u \in Validators \ {v} : syncer'[u] = syncer[u]
    BY Zenon, <1>2, <1>4 DEF SyncerElect
  <2> QED  BY <1>4, <2>1, SyncerMoveChainInv DEF SyncerElect, Creating
<1>5. CASE SyncerAwaitTxs(v)
  <2>1. /\ syncer[v].pc = "awaitTxs"
        /\ syncer'[v].pc = "awaitTx"
        /\ \A u \in Validators \ {v} : syncer'[u] = syncer[u]
    BY Zenon, <1>2, <1>5 DEF SyncerAwaitTxs
  <2>2. validatorMempool[v] # {}
    <3> SUFFICES ASSUME validatorMempool[v] = {} PROVE FALSE
      OBVIOUS
    <3>1. Cardinality(validatorMempool[v]) = 0
      BY Zenon, EmptyCardinality
    <3>2. Cardinality(validatorMempool[v]) >= 2 * MinValidators
      BY Zenon, <1>5 DEF SyncerAwaitTxs
    <3> QED  BY <3>1, <3>2, ConstantsAssumption
  <2>3. v = ListAfter(Latest(v))[0]
    BY Zenon, <1>1, <1>3, <2>1, <2>2, UnlockedList DEF ChainInv, PoolInv
  <2> QED  BY Zenon, <1>5, <2>1, <2>3, SyncerMoveChainInv DEF SyncerAwaitTxs
<1>5a. CASE SyncerSeesTx(v)
  <2>1. /\ syncer[v].pc = "awaitTx"
        /\ syncer'[v].pc = "getMempool"
        /\ \A u \in Validators \ {v} : syncer'[u] = syncer[u]
    BY Zenon, <1>2, <1>5a DEF SyncerSeesTx
  <2> QED  BY Zenon, <1>3, <1>5a, <2>1, SyncerMoveChainInv DEF SyncerSeesTx, Creating
<1>6. CASE SyncerGetMempool(v)
  <2>1. /\ syncer[v].pc = "getMempool"
        /\ syncer'[v].pc = "order"
        /\ \A u \in Validators \ {v} : syncer'[u] = syncer[u]
    BY Zenon, <1>2, <1>6 DEF SyncerGetMempool
  <2> QED  BY Zenon, <1>3, <1>6, <2>1, SyncerMoveChainInv DEF SyncerGetMempool, Creating
<1>7. CASE SyncerSign(v)
  <2>0. PICK body \in Bodies, clock \in Times :
          syncer' = [syncer EXCEPT ![v] =
                     IF ValidateNextBlock(v, CreatedBlock(v, body, clock))
                     THEN [SyncerAt("process", @.latestBlock) EXCEPT
                             !.block = CreatedBlock(v, body, clock)]
                     ELSE [SyncerAt("dead", @.latestBlock) EXCEPT
                             !.block = CreatedBlock(v, body, clock), !.clock = clock]]
    BY Zenon, <1>7 DEF SyncerSign
  <2> DEFINE b == CreatedBlock(v, body, clock)
  <2>1. /\ syncer[v].pc = "order"
        /\ \/ /\ ValidateNextBlock(v, b)
              /\ syncer'[v].pc = "process"
              /\ syncer'[v].block = b
           \/ syncer'[v].pc = "dead"
        /\ \A u \in Validators \ {v} : syncer'[u] = syncer[u]
    BY Zenon, <1>2, <1>7, <2>0 DEF SyncerSign, SyncerAt
  <2>2. ValidateNextBlock(v, b) => b.validator = v
    BY Zenon, <1>7, CreatedBlockFacts DEF SyncerSign, ChainInv
  <2> HIDE DEF b
  <2>3. syncer'[v].pc = "process" =>
          syncer'[v].block.validator = v /\ Extends(syncer'[v].block, Latest(v))
    BY Zenon, <2>1, <2>2 DEF ValidateNextBlock
  <2> QED
    BY Zenon, <1>3, <1>7, <2>1, <2>3, SyncerMoveChainInv DEF SyncerSign, Creating
<1>8. CASE SyncerProcess(v)
  BY Zenon, <1>8, SyncerProcessChainInv
<1>9. CASE SyncerPushBack(v)
  BY Zenon, <1>9, SyncerPushBackChainInv
<1>10. CASE SyncerNextRound(v)
  <2>1. /\ syncer[v].pc = "wait"
        /\ syncer'[v].pc = "elect"
        /\ \A u \in Validators \ {v} : syncer'[u] = syncer[u]
    BY Zenon, <1>2, <1>10 DEF SyncerNextRound, SyncerAt
  <2> QED  BY Zenon, <1>10, <2>1, SyncerMoveChainInv DEF SyncerNextRound, Creating
<1> QED
  BY Zenon, <1>4, <1>5, <1>5a, <1>6, <1>7, <1>8, <1>9, <1>10 DEF SyncerStep

(* What is known of the block a handler is at work on.                      *)
LEMMA HandlerFacts ==
  ASSUME TypeOK, ChainInv, NEW n \in Nodes
  PROVE  /\ DOMAIN handler = Nodes
         /\ DOMAIN handler[n] = {"pc", "block"}
         /\ handler[n].pc # "idle" =>
              /\ handler[n].block \in sentBlocks
              /\ Extends(handler[n].block, Latest(n))
              /\ handler[n].block.nHeight = Height(n) + 1
              /\ handler[n].block.validator = ListAfter(Latest(n))[0]
              /\ handler[n].block.validator # n
              /\ n \in Validators => syncer[n].pc \notin Creating
<1>1. /\ DOMAIN handler = Nodes
      /\ DOMAIN handler[n] = {"pc", "block"}
  BY Zenon DEF TypeOK
<1>2. handler[n].pc # "idle" =>
        /\ handler[n].block \in sentBlocks
        /\ Extends(handler[n].block, Latest(n))
        /\ handler[n].block.nHeight = Height(n) + 1
        /\ handler[n].block.validator = ListAfter(Latest(n))[0]
        /\ handler[n].block.validator # n
        /\ n \in Validators => syncer[n].pc \notin Creating
  <2> SUFFICES ASSUME handler[n].pc # "idle"
               PROVE  /\ handler[n].block \in sentBlocks
                      /\ Extends(handler[n].block, Latest(n))
                      /\ handler[n].block.nHeight = Height(n) + 1
                      /\ handler[n].block.validator = ListAfter(Latest(n))[0]
                      /\ handler[n].block.validator # n
                      /\ n \in Validators => syncer[n].pc \notin Creating
    OBVIOUS
  <2>1. /\ handler[n].block \in sentBlocks
        /\ Extends(handler[n].block, Latest(n))
        /\ handler[n].block.nHeight = Height(n) + 1
    BY Zenon DEF ChainInv, HandlerInv, Extends, Height
  <2> QED  BY Zenon, <2>1, NextBlockIsForeign DEF ChainInv, SyncerInv
<1> QED  BY Zenon, <1>1, <1>2

(* A handler takes a block and finds it valid.                              *)
LEMMA HandleBlockChainInv ==
  ASSUME TypeOK, ChainInv, NEW n \in Nodes, (\E b \in sentBlocks : HandleBlockBroadcast(n, b))
  PROVE  ChainInv'
<1>0. (\E b \in sentBlocks : HandleBlockBroadcast(n, b))
  OBVIOUS
<1>1. /\ DOMAIN handler = Nodes
      /\ DOMAIN handler[n] = {"pc", "block"}
  BY Zenon, HandlerFacts
<1> QED
  <2>1. PICK b \in sentBlocks : HandleBlockBroadcast(n, b)
    BY Zenon, <1>0
  <2>2. /\ handler[n].pc = "idle"
        /\ Extends(b, Latest(n))
        /\ handler'[n].pc = "process" /\ handler'[n].block = b
        /\ \A m \in Nodes \ {n} : handler'[m] = handler[m]
        /\ UNCHANGED <<nodeVars, syncer, sentBlocks>>
    BY Zenon, <1>1, <2>1 DEF HandleBlockBroadcast, ValidateNextBlock
  <2>3. b.validator = ListAfter(Latest(n))[0] /\ b.validator # n
    BY Zenon, <2>2, NextBlockIsForeign DEF ChainInv, Extends, Height
  <2>4. ChainShape' /\ Agreement' /\ SentInOwnChain'
    <3>1. ChainShape' /\ Agreement'
      BY ZenonT(30), <2>2 DEF ChainInv, ChainShape, Agreement, nodeVars
    <3>2. SentInOwnChain'
      BY Zenon, <2>2 DEF ChainInv, SentInOwnChain, nodeVars
    <3> QED
      BY Zenon, <3>1, <3>2
  <2>5. HandlerInv'
    <3>1. UNCHANGED <<chain, sentBlocks>>
      BY Zenon, <2>2 DEF nodeVars
    <3>2. handler'[n].block \in sentBlocks' /\ Extends(handler'[n].block, Latest(n)')
      BY Zenon, <2>1, <2>2, <3>1 DEF Latest
    <3>3. ASSUME NEW m \in Nodes \ {n}, handler'[m].pc # "idle"
          PROVE  handler'[m].block \in sentBlocks' /\ Extends(handler'[m].block, Latest(m)')
      BY Zenon, <2>2, <3>1, <3>3 DEF ChainInv, HandlerInv, Latest
    <3> QED
      BY Zenon, <3>2, <3>3 DEF HandlerInv
  <2>6. SyncerInv'
    BY SMTT(30), <2>2, <2>3, NodesAssumption DEF ChainInv, SyncerInv, Latest, nodeVars
  <2>7. ListInv'
    BY <2>2 DEF ChainInv, ListInv, Applied, Latest, nodeVars
  <2>8. PoolInv'
    BY Zenon, <2>2 DEF ChainInv, PoolInv, StateUnlocked, nodeVars
  <2> QED  BY Zenon, <2>4, <2>5, <2>6, <2>7, <2>8 DEF ChainInv

(* It gives the block to rdPoS.                                             *)
LEMMA HandlerProcessChainInv ==
  ASSUME TypeOK, ChainInv, NEW n \in Nodes, HandlerProcess(n)
  PROVE  ChainInv'
<1>0. HandlerProcess(n)
  OBVIOUS
<1>1. /\ DOMAIN handler = Nodes
      /\ DOMAIN handler[n] = {"pc", "block"}
  BY Zenon, HandlerFacts
<1>2. handler[n].pc # "idle" =>
        /\ handler[n].block \in sentBlocks
        /\ Extends(handler[n].block, Latest(n))
        /\ handler[n].block.nHeight = Height(n) + 1
        /\ handler[n].block.validator = ListAfter(Latest(n))[0]
        /\ handler[n].block.validator # n
        /\ n \in Validators => syncer[n].pc \notin Creating
  BY Zenon, HandlerFacts
<1> QED
  <2> DEFINE b == handler[n].block
  <2>1. /\ handler[n].pc = "process" /\ StateUnlocked(n)
        /\ handler'[n].pc = "pushBack" /\ handler'[n].block = b
        /\ \A m \in Nodes \ {n} : handler'[m] = handler[m]
        /\ UNCHANGED <<chain, syncer, sentBlocks>>
    BY <1>1, <1>0 DEF HandlerProcess
  <2>2. /\ randomList'[n] = ListAfter(b) /\ validatorMempool'[n] = {}
        /\ \A m \in Nodes \ {n} : /\ randomList'[m] = randomList[m]
                                  /\ validatorMempool'[m] = validatorMempool[m]
    BY Zenon, <1>0 DEF HandlerProcess, ProcessBlock, TypeOK
  <2>3. ChainShape' /\ Agreement' /\ SentInOwnChain'
    BY <2>1 DEF ChainInv, ChainShape, Agreement, SentInOwnChain
  <2>4. HandlerInv'
    BY Zenon, <1>2, <2>1 DEF ChainInv, HandlerInv, Latest
  <2>5. n \in Validators => syncer[n].pc # "awaitTxs"
    <3> SUFFICES ASSUME n \in Validators, syncer[n].pc = "awaitTxs" PROVE FALSE
      OBVIOUS
    <3>1. n = ListAfter(Latest(n))[0]
      BY Zenon, <2>1, UnlockedList DEF ChainInv, SyncerInv
    <3> QED  BY Zenon, <1>2, <2>1, <3>1
  <2>6. SyncerInv'
    <3>1. \A m \in Nodes : Latest(m)' = Latest(m)
      BY Zenon, <2>1 DEF Latest
    <3>2. ASSUME NEW v \in Validators
          PROVE  /\ syncer[v].pc = "awaitTxs" => v = randomList'[v][0]
                 /\ syncer[v].pc \in Creating => handler'[v].pc = "idle"
      <4>1. v \in Nodes
        BY Zenon, NodesAssumption
      <4>2. CASE v = n
        BY Zenon, <1>2, <2>1, <2>5, <4>2
      <4>3. CASE v # n
        <5>1. randomList'[v] = randomList[v] /\ handler'[v] = handler[v]
          BY Zenon, <2>1, <2>2, <4>1, <4>3
        <5> QED  BY Zenon, <5>1 DEF ChainInv, SyncerInv
      <4> QED  BY Zenon, <4>2, <4>3
    <3>3. syncer' = syncer
      BY Zenon, <2>1
    <3> QED  BY <3>1, <3>2, <3>3, NodesAssumption DEF ChainInv, SyncerInv
  <2>7. ListInv'
    BY <2>1, <2>2 DEF ChainInv, ListInv, Applied, Latest
  <2>8. PoolInv'
    BY Zenon, <2>1, <2>2 DEF ChainInv, PoolInv, StateUnlocked
  <2> QED  BY Zenon, <2>3, <2>4, <2>6, <2>7, <2>8 DEF ChainInv

(* It gives the block to Storage.                                           *)
LEMMA HandlerPushBackChainInv ==
  ASSUME TypeOK, ChainInv, NEW n \in Nodes, HandlerPushBack(n)
  PROVE  ChainInv'
<1>0. HandlerPushBack(n)
  OBVIOUS
<1>1. /\ DOMAIN handler = Nodes
      /\ DOMAIN handler[n] = {"pc", "block"}
  BY Zenon, HandlerFacts
<1>2. handler[n].pc # "idle" =>
        /\ handler[n].block \in sentBlocks
        /\ Extends(handler[n].block, Latest(n))
        /\ handler[n].block.nHeight = Height(n) + 1
        /\ handler[n].block.validator = ListAfter(Latest(n))[0]
        /\ handler[n].block.validator # n
        /\ n \in Validators => syncer[n].pc \notin Creating
  BY Zenon, HandlerFacts
<1> QED
  <2> DEFINE b == handler[n].block
  <2>1. handler[n].pc = "pushBack"
    BY Zenon, <1>0 DEF HandlerPushBack
  <2>2. /\ chain' = [chain EXCEPT ![n] = Append(@, b)]
        /\ sentBlocks' = sentBlocks
        /\ handler'[n].pc = "idle"
        /\ \A m \in Nodes \ {n} : handler'[m] = handler[m]
        /\ UNCHANGED <<randomList, validatorMempool, syncer>>
    BY SMTT(30), <1>1, <1>2, <1>0, <2>1 DEF HandlerPushBack, PushBack, IdleHandler
  <2>3. /\ b \in sentBlocks /\ b.nHeight = Height(n) + 1
        /\ b.validator = ListAfter(Latest(n))[0]
        /\ n \in Validators => syncer[n].pc \notin Creating
    BY Zenon, <1>2, <2>1
  <2>4. sentBlocks' = sentBlocks \cup {b}
    BY Zenon, <2>2, <2>3
  <2> HIDE DEF b
  <2>5. /\ ChainShape' /\ Agreement' /\ SentInOwnChain'
        /\ Latest(n)' = b
        /\ \A m \in Nodes \ {n} : Latest(m)' = Latest(m)
    BY Zenon, <2>2, <2>3, <2>4, AppendChain DEF ChainInv
  <2>6. HandlerInv'
    BY Zenon, <2>2, <2>5 DEF ChainInv, HandlerInv
  <2>7. SyncerInv'
    <3> SUFFICES ASSUME NEW v \in Validators
                 PROVE  /\ syncer[v].pc = "awaitTxs" => v = randomList[v][0]
                        /\ syncer[v].pc \in Creating =>
                             handler'[v].pc = "idle" /\ v = ListAfter(Latest(v)')[0]
                        /\ syncer[v].pc \in {"process", "pushBack"} =>
                             /\ syncer[v].block.validator = v
                             /\ Extends(syncer[v].block, Latest(v)')
      BY Zenon, <2>2 DEF SyncerInv
    <3>1. v \in Nodes
      BY Zenon, NodesAssumption
    <3>2. CASE v = n
      BY Zenon, <2>3, <3>2 DEF ChainInv, SyncerInv, Creating
    <3>3. CASE v # n
      <4>1. handler'[v] = handler[v] /\ Latest(v)' = Latest(v)
        BY Zenon, <2>2, <2>5, <3>1, <3>3
      <4> QED  BY Zenon, <4>1 DEF ChainInv, SyncerInv
    <3> QED  BY Zenon, <3>2, <3>3
  <2>8. ListInv'
    <3> SUFFICES ASSUME NEW m \in Nodes PROVE randomList'[m] = ListAfter(Applied(m)')
      BY Zenon DEF ListInv
    <3>1. Applied(m)' = Applied(m)
      BY Zenon, <2>1, <2>2, <2>3, <2>5 DEF Applied, Creating, b
    <3> QED  BY Zenon, <2>2, <3>1 DEF ChainInv, ListInv
  <2>9. PoolInv'
    BY Zenon, <2>2 DEF ChainInv, PoolInv, StateUnlocked
  <2> QED  BY Zenon, <2>5, <2>6, <2>7, <2>8, <2>9 DEF ChainInv

(* So do the handlers of blocks.                                             *)
LEMMA HandlerChainInv ==
  ASSUME TypeOK, ChainInv, NEW n \in Nodes, HandlerStep(n)
  PROVE  ChainInv'
  BY Zenon, HandleBlockChainInv, HandlerProcessChainInv, HandlerPushBackChainInv DEF HandlerStep

(* Every step.                                                               *)
LEMMA NextChainInv == TypeOK /\ ChainInv /\ [Next]_vars => ChainInv'
<1> SUFFICES ASSUME TypeOK, ChainInv, [Next]_vars
             PROVE  ChainInv'
  OBVIOUS
<1>1. ASSUME NEW v \in Validators, NEW p \in Nodes, WorkerRequestTxs(v, p)
      PROVE  ChainInv'
  BY Zenon, <1>1, PoolChainInv DEF WorkerRequestTxs, TypeOK
<1>2. ASSUME NEW n \in Nodes, NEW tx \in sentTxs, HandleTxValidatorBroadcast(n, tx)
      PROVE  ChainInv'
  BY Zenon, <1>2, PoolChainInv DEF HandleTxValidatorBroadcast, TypeOK
<1>3. CASE UNCHANGED vars
  BY Zenon, <1>3, PoolChainInv DEF vars
<1> QED
  BY Zenon, <1>1, <1>2, <1>3, WorkerChainInv, SyncerChainInv, HandlerChainInv DEF Next

-----------------------------------------------------------------------------
(* Types and chains, in every reachable state.                               *)
LEMMA ChainInvariant == Spec => [](TypeOK /\ ChainInv)
<1>1. Init => TypeOK /\ ChainInv
  BY Zenon, InitTypeOK, InitChainInv
<1>2. TypeOK /\ ChainInv /\ [Next]_vars => (TypeOK /\ ChainInv)'
  BY Zenon, NextTypeOK, NextChainInv DEF ChainInv
<1> QED  BY <1>1, <1>2, PTL DEF Spec

(* Every reachable state is well-typed: chains hold only the genesis and    *)
(* broadcast blocks, randomList is a permutation of the validators.         *)
THEOREM TypeCorrect == Spec => []TypeOK
BY ChainInvariant, PTL

(* processNextBlock leaves no two nodes with different blocks of the same   *)
(* height, however its threads and messages interleave.                     *)
THEOREM ChainsAgree == Spec => []Agreement
<1>1. TypeOK /\ ChainInv => Agreement
  BY Zenon DEF ChainInv
<1> QED  BY <1>1, ChainInvariant, PTL

(* Storage::pushBack, the last call of processNextBlock, accepts the block  *)
(* that accounts and rdPoS have already processed.                          *)
THEOREM PushBackNeverThrows == Spec => []PushBackSucceeds
<1>1. TypeOK /\ ChainInv => PushBackSucceeds
  BY Zenon DEF ChainInv, HandlerInv, SyncerInv, PushBackSucceeds
<1> QED  BY <1>1, ChainInvariant, PTL

=============================================================================
