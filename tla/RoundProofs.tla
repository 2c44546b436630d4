---------------------------- MODULE RoundProofs ----------------------------
(***************************************************************************)
(* Proofs about the rounds of Consensus.tla, on top of ConsensusProofs,    *)
(* for every set of validators, every number of participants and every     *)
(* shuffle: a validator signs once per round, no seed is public before all *)
(* hashes are, mempools are bounded, and the creator's block is valid.     *)
(***************************************************************************)
EXTENDS ConsensusProofs, FiniteSetTheorems

-----------------------------------------------------------------------------
(* The inductive invariant. *)

(* Every participant of the round after block h - 1 of n has published its  *)
(* hash for height h.                                                       *)
Committed(n, h) ==
  \A i \in 1..MinValidators : \E tx \in sentTxs :
    /\ tx.func = "randomHash"
    /\ tx.nHeight = h
    /\ tx.from = ListAfter(chain[n][h])[i]

(* A worker signs for the height after the block it has seen, which is not  *)
(* above its chain, and signs nothing for that height before its turn.      *)
WorkerTxs ==
  /\ \A v \in Validators : worker[v].latestBlock <= Height(v)
  /\ \A tx \in sentTxs :
       /\ tx.nHeight \in 1..(worker[tx.from].latestBlock + 1)
       /\ tx.nHeight = worker[tx.from].latestBlock + 1 =>
            /\ worker[tx.from].pc \notin {"elect", "doTxCreation"}
            /\ tx.func = "randomSeed" =>
                 worker[tx.from].pc \notin {"awaitHashes", "reveal"}

(* A seed that is or will be published is the one whose hash was. *)
SeedsMatch ==
  /\ \A v \in Validators : worker[v].pc \in {"awaitHashes", "reveal"} =>
       \A seed \in worker[v].seeds :
         RandomHashTx(v, seed, worker[v].latestBlock + 1) \in sentTxs
  /\ \A tx \in sentTxs : tx.func = "randomSeed" =>
       RandomHashTx(tx.from, tx.data, tx.nHeight) \in sentTxs

(* A mempool holds transactions of participants of the round under way. *)
PoolTxs ==
  \A n \in Nodes : \A tx \in validatorMempool[n] :
    tx.nHeight = Height(n) + 1 /\ Participates(randomList[n], tx.from)

(* Where a seed is public, or about to be, and where a block exists, or is  *)
(* about to, the round's hashes are public.                                 *)
Commits ==
  /\ \A v \in Validators :
       worker[v].pc = "reveal" => Committed(v, worker[v].latestBlock + 1)
  /\ \A tx \in sentTxs : tx.func = "randomSeed" => Committed(tx.from, tx.nHeight)
  /\ \A n \in Nodes : \A h \in 1..(Len(chain[n]) - 1) : Committed(n, h)
  /\ \A v \in Validators :
       syncer[v].pc \in {"process", "pushBack"} => Committed(v, Len(chain[v]))

(* A creator that has seen a full mempool keeps one it can order. *)
Creators ==
  \A v \in Validators :
    /\ syncer[v].pc = "dead" => syncer[v].clock < syncer[v].block.timestamp
    /\ syncer[v].pc \in {"awaitTx", "getMempool"} => CanOrder(validatorMempool[v], randomList[v])
    /\ syncer[v].pc = "order" =>
         /\ CanOrder(syncer[v].mempool, randomList[v])
         /\ \A tx \in syncer[v].mempool : tx.nHeight = Height(v) + 1

RoundInv ==
  /\ OneTxPerRound
  /\ WorkerTxs
  /\ SeedsMatch
  /\ PoolTxs
  /\ Commits
  /\ Creators

-----------------------------------------------------------------------------
(* Counting. *)

(* What is numbered injectively with 1..M has at most M members, and with   *)
(* M members uses every number.                                             *)
LEMMA Numbering ==
  ASSUME NEW M \in Nat, NEW S, NEW f \in [S -> 1..M],
         \A x, y \in S : f[x] = f[y] => x = y
  PROVE  /\ Cardinality(S) <= M
         /\ Cardinality(S) >= M => \A i \in 1..M : \E x \in S : f[x] = i
<1>1. IsFiniteSet(1..M) /\ Cardinality(1..M) = M
  BY FS_Interval
<1>2. f \in Injection(S, 1..M)
  BY Zenon DEF Injection, IsInjective
<1>3. /\ IsFiniteSet(S)
      /\ Cardinality(S) <= M
      /\ Cardinality(S) = M => f \in Surjection(S, 1..M)
  BY <1>1, <1>2, FS_Injection
<1>4. Cardinality(S) \in Nat
  BY Zenon, <1>3, FS_CardinalityType
<1> QED  BY SMTT(30), <1>3, <1>4 DEF Surjection

(* A mempool of MinValidators hashes holds one of every participant. *)
LEMMA HashesOfPool ==
  ASSUME TypeOK, OneTxPerRound, PoolTxs, NEW n \in Nodes,
         Cardinality(validatorMempool[n]) >= MinValidators,
         \A tx \in validatorMempool[n] : tx.func = "randomHash"
  PROVE  \A i \in 1..MinValidators : \E tx \in validatorMempool[n] :
           tx.from = randomList[n][i]
<1> DEFINE pool == validatorMempool[n]
           list == randomList[n]
           f == [tx \in pool |-> CHOOSE i \in 1..MinValidators : tx.from = list[i]]
<1>1. MinValidators \in Nat
  BY Zenon, ConstantsAssumption
<1>2. pool \subseteq sentTxs
  BY Zenon DEF TypeOK
<1>3. ASSUME NEW tx \in pool
      PROVE  f[tx] \in 1..MinValidators /\ tx.from = list[f[tx]]
  <2>1. \E i \in 1..MinValidators : tx.from = list[i]
    BY Zenon DEF PoolTxs, Participates
  <2> QED  BY Zenon, <2>1
<1>4. f \in [pool -> 1..MinValidators]
  BY Zenon, <1>3
<1> HIDE DEF f
<1>5. ASSUME NEW t \in pool, NEW u \in pool, f[t] = f[u]
      PROVE  t = u
  <2>1. t.from = u.from /\ t.func = u.func /\ t.nHeight = u.nHeight
    BY SMTT(30), <1>3, <1>5 DEF PoolTxs
  <2> QED  BY SMTT(30), <1>2, <2>1 DEF OneTxPerRound
<1>6. \A i \in 1..MinValidators : \E tx \in pool : f[tx] = i
  BY SMTT(30), <1>1, <1>4, <1>5, Numbering
<1> QED  BY <1>3, <1>6

(* A mempool has room for two transactions of every participant, and a full *)
(* one holds them.                                                          *)
LEMMA FullPool ==
  ASSUME TypeOK, OneTxPerRound, PoolTxs, NEW n \in Nodes
  PROVE  /\ Cardinality(validatorMempool[n]) <= 2 * MinValidators
         /\ Cardinality(validatorMempool[n]) >= 2 * MinValidators =>
              CanOrder(validatorMempool[n], randomList[n])
<1> DEFINE M == MinValidators
           pool == validatorMempool[n]
           list == randomList[n]
           place(tx) == CHOOSE i \in 1..M : tx.from = list[i]
           f == [tx \in pool |-> IF tx.func = "randomHash" THEN place(tx) ELSE M + place(tx)]
<1>1. M \in Nat /\ 2 * M \in Nat
  BY ConstantsAssumption
<1>2. pool \subseteq sentTxs /\ \A tx \in pool : tx.func \in TxFunctions
  BY DEF TypeOK, TxValidator, TxFunctions
<1>3. ASSUME NEW tx \in pool
      PROVE  place(tx) \in 1..M /\ tx.from = list[place(tx)]
  <2>1. \E i \in 1..M : tx.from = list[i]
    BY Zenon DEF PoolTxs, Participates
  <2> QED  BY Zenon, <2>1
<1> HIDE DEF place
<1>4. /\ f \in [pool -> 1..(2 * M)]
      /\ \A tx \in pool :
           f[tx] = IF tx.func = "randomHash" THEN place(tx) ELSE M + place(tx)
  BY <1>1, <1>3
<1> HIDE DEF f
<1>5. ASSUME NEW t \in pool, NEW u \in pool, f[t] = f[u]
      PROVE  t = u
  <2>1. place(t) = place(u) /\ t.func = u.func
    BY SMTT(30), <1>1, <1>2, <1>3, <1>4, <1>5 DEF TxFunctions
  <2>2. t.from = u.from /\ t.nHeight = u.nHeight
    BY SMTT(30), <1>3, <2>1 DEF PoolTxs
  <2> QED  BY ZenonT(30), <1>2, <2>1, <2>2 DEF OneTxPerRound
<1>6. /\ Cardinality(pool) <= 2 * M
      /\ Cardinality(pool) >= 2 * M => \A i \in 1..(2 * M) : \E tx \in pool : f[tx] = i
  <2> HIDE DEF M, pool
  <2> QED  BY SMTT(30), <1>1, <1>4, <1>5, Numbering
<1>7. ASSUME \A i \in 1..(2 * M) : \E tx \in pool : f[tx] = i,
             NEW i \in 1..M, NEW g \in TxFunctions
      PROVE  \E tx \in pool : tx.from = list[i] /\ tx.func = g
  <2>1. CASE g = "randomHash"
    <3>1. PICK tx \in pool : f[tx] = i
      BY <1>1, <1>7
    <3>2. tx.func = "randomHash" /\ place(tx) = i
      BY SMTT(30), <1>1, <1>2, <1>3, <1>4, <3>1 DEF TxFunctions
    <3> QED  BY SMTT(30), <1>3, <2>1, <3>2
  <2>2. CASE g = "randomSeed"
    <3>0. M + i \in 1..(2 * M)
      BY <1>1
    <3>1. PICK tx \in pool : f[tx] = M + i
      BY Zenon, <1>7, <3>0
    <3>2. tx.func = "randomSeed" /\ place(tx) = i
      BY SMTT(30), <1>1, <1>2, <1>3, <1>4, <3>1 DEF TxFunctions
    <3> QED  BY SMTT(30), <1>3, <2>2, <3>2
  <2> QED  BY Zenon, <2>1, <2>2 DEF TxFunctions
<1> QED  BY Zenon, <1>6, <1>7 DEF CanOrder

-----------------------------------------------------------------------------
(* Chains only grow. *)

(* The height of a node in the next state. *)
LEMMA NextHeight ==
  ASSUME TypeOK', ChainShape', NEW n \in Nodes
  PROVE  Len(chain'[n]) \in Nat \ {0} /\ Height(n)' = Len(chain'[n]) - 1
<1>1. chain'[n] \in Seq(({Genesis} \cup sentBlocks)')
  BY Zenon DEF TypeOK
<1>2. Len(chain'[n]) \in Nat /\ Len(chain'[n]) >= 1
  BY <1>1 DEF ChainShape
<1> QED  BY <1>2 DEF ChainShape, Latest, Height

(* What pushBack does to the chains. *)
LEMMA PushBackGrows ==
  ASSUME TypeOK, NEW m \in Nodes, NEW b, PushBack(m, b), NEW n \in Nodes
  PROVE  /\ Len(chain'[n]) >= Len(chain[n])
         /\ \A i \in 1..Len(chain[n]) : chain'[n][i] = chain[n][i]
         /\ n # m => chain'[n] = chain[n]
<1>1. chain[m] \in Seq({Genesis} \cup sentBlocks \cup {b}) /\ Len(chain[n]) \in Nat
  BY SeqMono DEF TypeOK
<1>2. chain'[n] = chain[n] \/ (n = m /\ chain'[n] = Append(chain[m], b))
  BY Zenon DEF PushBack, TypeOK
<1> QED  BY SMTT(30), <1>1, <1>2

(* No step removes or replaces a block. *)
LEMMA ChainGrows ==
  ASSUME TypeOK, [Next]_vars, NEW n \in Nodes
  PROVE  /\ Len(chain'[n]) >= Len(chain[n])
         /\ \A i \in 1..Len(chain[n]) : chain'[n][i] = chain[n][i]
<1>0. Len(chain[n]) \in Nat
  BY DEF TypeOK
<1>1. CASE chain' = chain
  BY <1>0, <1>1
<1>2. ASSUME NEW m \in Nodes, HandlerPushBack(m)
      PROVE  /\ Len(chain'[n]) >= Len(chain[n])
             /\ \A i \in 1..Len(chain[n]) : chain'[n][i] = chain[n][i]
  BY Zenon, <1>2, PushBackGrows DEF HandlerPushBack
<1>3. ASSUME NEW v \in Validators, SyncerPushBack(v)
      PROVE  /\ Len(chain'[n]) >= Len(chain[n])
             /\ \A i \in 1..Len(chain[n]) : chain'[n][i] = chain[n][i]
  BY Zenon, <1>3, PushBackGrows, NodesAssumption DEF SyncerPushBack
<1>4. \/ chain' = chain
      \/ \E m \in Nodes : HandlerPushBack(m)
      \/ \E v \in Validators : SyncerPushBack(v)
  BY ZenonT(30) DEF Next, vars, nodeVars, WorkerStep, WorkerElect, WorkerCommit, WorkerSeesPool,
     WorkerReveal, WorkerScan, WorkerPoolFull, WorkerNextRound, WorkerRequestTxs,
     SyncerStep, SyncerElect, SyncerAwaitTxs, SyncerSeesTx, SyncerGetMempool, SyncerSign, SyncerProcess,
     SyncerNextRound, HandlerStep, HandleBlockBroadcast, HandlerProcess,
     HandleTxValidatorBroadcast
<1> QED  BY Zenon, <1>1, <1>2, <1>3, <1>4

(* So a round whose hashes were public stays one. *)
LEMMA CommittedStays ==
  ASSUME TypeOK, [Next]_vars, sentTxs \subseteq sentTxs',
         NEW n \in Nodes, NEW h \in 1..Len(chain[n]), Committed(n, h)
  PROVE  Committed(n, h)'
<1>1. chain'[n][h] = chain[n][h]
  BY Zenon, ChainGrows
<1> QED  BY Zenon, <1>1 DEF Committed

-----------------------------------------------------------------------------
(* Transactions: OneTxPerRound, WorkerTxs and SeedsMatch. *)

TxInv == OneTxPerRound /\ WorkerTxs /\ SeedsMatch

(* A worker moves on without signing anything. *)
LEMMA WorkerMoveTxInv ==
  ASSUME TypeOK, TxInv, NEW v \in Validators,
         UNCHANGED <<chain, sentTxs>>,
         \A u \in Validators \ {v} : worker'[u] = worker[u],
         \/ /\ worker'[v].latestBlock = worker[v].latestBlock
            /\ \/ worker'[v].pc \notin {"elect", "doTxCreation", "awaitHashes", "reveal"}
               \/ worker[v].pc \in {"elect", "doTxCreation"}
                    /\ worker'[v].pc \in {"elect", "doTxCreation"}
               \/ /\ worker[v].pc = "awaitHashes" /\ worker'[v].pc = "reveal"
                  /\ worker'[v].seeds = worker[v].seeds
         \/ /\ worker'[v].latestBlock > worker[v].latestBlock
            /\ worker'[v].latestBlock <= Height(v)
            /\ worker'[v].latestBlock \in Nat
            /\ worker'[v].pc = "elect"
  PROVE  TxInv'
<1>1. worker[v].latestBlock \in Nat /\ \A tx \in sentTxs : tx.from \in Validators /\ tx.nHeight \in Nat
  BY Zenon DEF TypeOK, TxValidator
<1>2. OneTxPerRound'
  BY Zenon DEF TxInv, OneTxPerRound
<1>3. WorkerTxs'
  <2>1. \A u \in Validators : Height(u)' = Height(u)
    BY Zenon DEF Height, Latest
  <2>2. \A u \in Validators : worker'[u].latestBlock <= Height(u)'
    BY SMTT(30), <2>1 DEF TxInv, WorkerTxs
  <2>3. ASSUME NEW tx \in sentTxs
        PROVE  /\ tx.nHeight \in 1..(worker'[tx.from].latestBlock + 1)
               /\ tx.nHeight = worker'[tx.from].latestBlock + 1 =>
                    /\ worker'[tx.from].pc \notin {"elect", "doTxCreation"}
                    /\ tx.func = "randomSeed" =>
                         worker'[tx.from].pc \notin {"awaitHashes", "reveal"}
    <3>1. /\ tx.nHeight \in 1..(worker[tx.from].latestBlock + 1)
          /\ tx.nHeight = worker[tx.from].latestBlock + 1 =>
               /\ worker[tx.from].pc \notin {"elect", "doTxCreation"}
               /\ tx.func = "randomSeed" =>
                    worker[tx.from].pc \notin {"awaitHashes", "reveal"}
      BY Zenon DEF TxInv, WorkerTxs
    <3>2. CASE tx.from # v
      BY SMTT(30), <1>1, <3>1, <3>2
    <3>3. CASE tx.from = v
      BY SMTT(30), <1>1, <3>1, <3>3
    <3> QED  BY SMTT(30), <3>2, <3>3
  <2> QED  BY <2>2, <2>3 DEF WorkerTxs
<1>4. SeedsMatch'
  BY DEF TxInv, SeedsMatch
<1> QED  BY Zenon, <1>2, <1>3, <1>4 DEF TxInv

(* A worker signs a transaction for the height after its latest block, the  *)
(* first of its kind.                                                       *)
LEMMA SignTxInv ==
  ASSUME TypeOK, TxInv, NEW v \in Validators, NEW tx,
         UNCHANGED chain, sentTxs' = sentTxs \cup {tx},
         \A u \in Validators \ {v} : worker'[u] = worker[u],
         worker'[v].latestBlock = worker[v].latestBlock,
         tx.from = v, tx.nHeight = worker[v].latestBlock + 1,
         \/ /\ worker[v].pc = "doTxCreation"
            /\ worker'[v].pc = "awaitHashes"
            /\ \E seed \in Seeds :
                 /\ worker'[v].seeds = {seed}
                 /\ tx = RandomHashTx(v, seed, worker[v].latestBlock + 1)
         \/ /\ worker[v].pc = "reveal"
            /\ worker'[v].pc = "scan"
            /\ \E seed \in worker[v].seeds :
                 tx = RandomSeedTx(v, seed, worker[v].latestBlock + 1)
  PROVE  TxInv'
<1>1. worker[v].latestBlock \in Nat /\ \A t \in sentTxs : t.from \in Validators /\ t.nHeight \in Nat
  BY Zenon DEF TypeOK, TxValidator
<1>2. \/ tx.func = "randomHash" /\ worker[v].pc = "doTxCreation"
      \/ tx.func = "randomSeed" /\ worker[v].pc = "reveal"
  BY DEF RandomHashTx, RandomSeedTx
<1>3. \A t \in sentTxs :
        t.from = v /\ t.nHeight = worker[v].latestBlock + 1 =>
          /\ worker[v].pc # "doTxCreation"
          /\ t.func = "randomSeed" => worker[v].pc # "reveal"
  BY SMTT(30) DEF TxInv, WorkerTxs
<1>4. OneTxPerRound'
  <2>1. \A t \in sentTxs : ~(t.from = tx.from /\ t.func = tx.func /\ t.nHeight = tx.nHeight)
    BY SMTT(30), <1>2, <1>3
  <2> QED  BY SMTT(30), <2>1 DEF TxInv, OneTxPerRound
<1>5. WorkerTxs'
  <2>1. \A u \in Validators : worker'[u].latestBlock <= Height(u)'
    BY Zenon DEF TxInv, WorkerTxs, Height, Latest
  <2>2. ASSUME NEW t \in sentTxs'
        PROVE  /\ t.nHeight \in 1..(worker'[t.from].latestBlock + 1)
               /\ t.nHeight = worker'[t.from].latestBlock + 1 =>
                    /\ worker'[t.from].pc \notin {"elect", "doTxCreation"}
                    /\ t.func = "randomSeed" =>
                         worker'[t.from].pc \notin {"awaitHashes", "reveal"}
    <3>1. CASE t = tx
      BY SMTT(30), <1>1, <1>2, <3>1
    <3>2. CASE t \in sentTxs /\ t.from # v
      BY SMTT(30), <1>1, <3>2 DEF TxInv, WorkerTxs
    <3>3. CASE t \in sentTxs /\ t.from = v
      <4>1. t.nHeight \in 1..(worker[v].latestBlock + 1)
        BY Zenon, <3>3 DEF TxInv, WorkerTxs
      <4> QED  BY SMTT(30), <1>1, <1>3, <3>3, <4>1
    <3> QED  BY SMTT(30), <3>1, <3>2, <3>3
  <2> QED  BY <2>1, <2>2 DEF WorkerTxs
<1>6. SeedsMatch'
  <2>1. ASSUME NEW u \in Validators, worker'[u].pc \in {"awaitHashes", "reveal"},
               NEW seed \in worker'[u].seeds
        PROVE  RandomHashTx(u, seed, worker'[u].latestBlock + 1) \in sentTxs'
    BY <2>1 DEF TxInv, SeedsMatch
  <2>2. ASSUME NEW t \in sentTxs', t.func = "randomSeed"
        PROVE  RandomHashTx(t.from, t.data, t.nHeight) \in sentTxs'
    <3>1. CASE t = tx
      <4>1. PICK seed \in worker[v].seeds : tx = RandomSeedTx(v, seed, worker[v].latestBlock + 1)
        BY SMTT(30), <2>2, <3>1 DEF RandomHashTx
      <4>2. t.from = v /\ t.data = seed /\ t.nHeight = worker[v].latestBlock + 1
        BY SMTT(30), <3>1, <4>1 DEF RandomSeedTx
      <4>3. worker[v].pc = "reveal"
        BY Zenon, <1>2, <2>2, <3>1
      <4>4. RandomHashTx(v, seed, worker[v].latestBlock + 1) \in sentTxs
        BY Zenon, <4>3 DEF TxInv, SeedsMatch
      <4> QED  BY SMTT(30), <4>2, <4>4
    <3>2. CASE t \in sentTxs
      BY SMTT(30), <2>2, <3>2 DEF TxInv, SeedsMatch
    <3> QED  BY Zenon, <3>1, <3>2
  <2> QED  BY SMTT(30), <2>1, <2>2 DEF SeedsMatch
<1> QED  BY Zenon, <1>4, <1>5, <1>6 DEF TxInv

(* The steps of rdPoSWorker. *)
LEMMA WorkerTxInv ==
  ASSUME TypeOK, ChainInv, TxInv, NEW v \in Validators, WorkerStep(v)
  PROVE  TxInv'
<1>1. /\ DOMAIN worker = Validators
      /\ DOMAIN worker[v] = {"pc", "latestBlock", "i", "seeds"}
      /\ worker[v].latestBlock \in Nat
  BY Zenon DEF TypeOK
<1>2. v \in Nodes /\ Height(v) \in Nat
  BY SMTT(30), NodesAssumption, LatestFacts DEF ChainInv
<1>3. CASE WorkerElect(v)
  <2>1. /\ worker[v].pc = "elect"
        /\ worker'[v].pc \in {"doBlockCreation", "doTxCreation", "wait"}
        /\ worker'[v].latestBlock = worker[v].latestBlock
        /\ \A u \in Validators \ {v} : worker'[u] = worker[u]
        /\ UNCHANGED <<chain, sentTxs>>
    BY <1>1, <1>3 DEF WorkerElect, nodeVars
  <2> QED  BY SMTT(30), <2>1, WorkerMoveTxInv
<1>4. CASE WorkerCommit(v)
  <2>1. PICK seed \in Seeds :
          LET tx == RandomHashTx(v, seed, worker[v].latestBlock + 1)
          IN  /\ sentTxs' = sentTxs \cup {tx}
              /\ worker' = [worker EXCEPT ![v].pc = "awaitHashes", ![v].seeds = {seed}]
    BY Zenon, <1>4 DEF WorkerCommit
  <2> DEFINE tx == RandomHashTx(v, seed, worker[v].latestBlock + 1)
  <2>2. /\ worker[v].pc = "doTxCreation"
        /\ worker'[v].pc = "awaitHashes" /\ worker'[v].seeds = {seed}
        /\ worker'[v].latestBlock = worker[v].latestBlock
        /\ \A u \in Validators \ {v} : worker'[u] = worker[u]
        /\ UNCHANGED chain
    BY SMTT(30), <1>1, <1>4, <2>1 DEF WorkerCommit
  <2>3. tx.from = v /\ tx.nHeight = worker[v].latestBlock + 1
    BY Zenon DEF RandomHashTx
  <2>4. sentTxs' = sentTxs \cup {tx}
    BY <2>1
  <2>5. \E s \in Seeds : worker'[v].seeds = {s} /\ tx = RandomHashTx(v, s, worker[v].latestBlock + 1)
    BY Zenon, <2>2
  <2> HIDE DEF tx
  <2> QED  BY ZenonT(30), <2>2, <2>3, <2>4, <2>5, SignTxInv
<1>5. CASE WorkerReveal(v)
  <2>1. PICK seed \in worker[v].seeds :
          LET tx == RandomSeedTx(v, seed, worker[v].latestBlock + 1)
          IN  /\ sentTxs' = sentTxs \cup {tx}
              /\ worker' = [worker EXCEPT ![v].pc = "scan", ![v].seeds = {}]
    BY Zenon, <1>5 DEF WorkerReveal
  <2> DEFINE tx == RandomSeedTx(v, seed, worker[v].latestBlock + 1)
  <2>2. /\ worker[v].pc = "reveal"
        /\ worker'[v].pc = "scan"
        /\ worker'[v].latestBlock = worker[v].latestBlock
        /\ \A u \in Validators \ {v} : worker'[u] = worker[u]
        /\ UNCHANGED chain
    BY SMTT(30), <1>1, <1>5, <2>1 DEF WorkerReveal
  <2>3. tx.from = v /\ tx.nHeight = worker[v].latestBlock + 1
    BY Zenon DEF RandomSeedTx
  <2>4. sentTxs' = sentTxs \cup {tx}
    BY Zenon, <2>1
  <2>5. \E s \in worker[v].seeds : tx = RandomSeedTx(v, s, worker[v].latestBlock + 1)
    OBVIOUS
  <2> HIDE DEF tx
  <2> QED  BY SMTT(30), <2>2, <2>3, <2>4, <2>5, SignTxInv
<1>6. CASE WorkerSeesPool(v)
  <2>1. /\ worker[v].pc = "awaitHashes" /\ worker'[v].pc = "reveal"
        /\ worker'[v].latestBlock = worker[v].latestBlock
        /\ worker'[v].seeds = worker[v].seeds
        /\ \A u \in Validators \ {v} : worker'[u] = worker[u]
        /\ UNCHANGED <<chain, sentTxs>>
    BY SMTT(30), <1>1, <1>6 DEF WorkerSeesPool, nodeVars
  <2> QED  BY <2>1, WorkerMoveTxInv
<1>7. CASE WorkerScan(v) \/ WorkerPoolFull(v)
  <2>1. /\ worker'[v].pc \in {"dead", "wait"}
        /\ worker'[v].latestBlock = worker[v].latestBlock
        /\ \A u \in Validators \ {v} : worker'[u] = worker[u]
        /\ UNCHANGED <<chain, sentTxs>>
    BY SMTT(30), <1>1, <1>7 DEF WorkerScan, WorkerPoolFull, WorkerAt, nodeVars
  <2> QED  BY SMTT(30), <2>1, WorkerMoveTxInv
<1>8. CASE WorkerNextRound(v)
  <2>1. /\ worker'[v].pc = "elect"
        /\ worker[v].latestBlock # Height(v)
        /\ worker'[v].latestBlock = Height(v)
        /\ \A u \in Validators \ {v} : worker'[u] = worker[u]
        /\ UNCHANGED <<chain, sentTxs>>
    BY <1>1, <1>8 DEF WorkerNextRound, WorkerAt, nodeVars
  <2>2. worker[v].latestBlock <= Height(v)
    BY Zenon DEF TxInv, WorkerTxs
  <2> QED  BY SMTT(30), <1>1, <1>2, <2>1, <2>2, WorkerMoveTxInv
<1> QED  BY SMTT(30), <1>3, <1>4, <1>5, <1>6, <1>7, <1>8 DEF WorkerStep

(* Every step. *)
LEMMA NextTxInv ==
  ASSUME TypeOK, ChainInv, TxInv, [Next]_vars, TypeOK', ChainInv'
  PROVE  TxInv'
<1>1. CASE UNCHANGED <<worker, sentTxs>>
  <2>1. ASSUME NEW v \in Validators
        PROVE  worker'[v].latestBlock <= Height(v)'
    <3>1. v \in Nodes
      BY Zenon, NodesAssumption
    <3>2. Height(v) \in Nat /\ Height(v)' \in Nat /\ Height(v)' >= Height(v)
      BY SMTT(30), <3>1, LatestFacts, NextHeight, ChainGrows DEF ChainInv
    <3>3. worker[v].latestBlock <= Height(v) /\ worker[v].latestBlock \in Nat
      BY Zenon DEF TxInv, WorkerTxs, TypeOK
    <3> QED  BY <1>1, <3>2, <3>3
  <2> QED  BY <1>1, <2>1 DEF TxInv, OneTxPerRound, WorkerTxs, SeedsMatch
<1>2. \/ UNCHANGED <<worker, sentTxs>>
      \/ \E v \in Validators : WorkerStep(v)
  BY ZenonT(30) DEF Next, vars, WorkerRequestTxs, SyncerStep, SyncerElect, SyncerAwaitTxs,
     SyncerSeesTx, SyncerGetMempool, SyncerSign, SyncerProcess, SyncerPushBack, SyncerNextRound,
     HandlerStep, HandleBlockBroadcast, HandlerProcess, HandlerPushBack,
     HandleTxValidatorBroadcast
<1> QED  BY SMTT(30), <1>1, <1>2, WorkerTxInv

-----------------------------------------------------------------------------
(* Mempools: PoolTxs. *)

(* What a step does to the nodes. *)
LEMMA NodeSteps ==
  ASSUME [Next]_vars
  PROVE  \/ UNCHANGED nodeVars
         \/ \E m \in Nodes : \E txs :
              /\ StateUnlocked(m)
              /\ validatorMempool' = [validatorMempool EXCEPT ![m] = PoolWith(m, txs)]
              /\ UNCHANGED <<chain, randomList>>
         \/ \E m \in Nodes : \E b :
              ProcessBlock(m, b) /\ UNCHANGED chain
         \/ \E m \in Nodes : \E b :
              PushBack(m, b) /\ ~StateUnlocked(m) /\ UNCHANGED <<randomList, validatorMempool>>
<1> DEFINE Pool == \E m \in Nodes : \E txs :
                     /\ StateUnlocked(m)
                     /\ validatorMempool' = [validatorMempool EXCEPT ![m] = PoolWith(m, txs)]
                     /\ UNCHANGED <<chain, randomList>>
           Process == \E m \in Nodes : \E b : ProcessBlock(m, b) /\ UNCHANGED chain
           Push == \E m \in Nodes : \E b :
                     PushBack(m, b) /\ ~StateUnlocked(m) /\ UNCHANGED <<randomList, validatorMempool>>
<1>1. ASSUME NEW v \in Validators, WorkerStep(v)
      PROVE  UNCHANGED nodeVars \/ Pool
  <2>1. v \in Nodes
    BY Zenon, NodesAssumption
  <2>2. CASE WorkerCommit(v)
    BY Zenon, <2>1, <2>2 DEF WorkerCommit
  <2>3. CASE WorkerReveal(v)
    BY Zenon, <2>1, <2>3 DEF WorkerReveal
  <2> QED
    BY Zenon, <1>1, <2>2, <2>3 DEF WorkerStep, WorkerElect, WorkerSeesPool, WorkerScan,
       WorkerPoolFull, WorkerNextRound
<1>2. ASSUME NEW v \in Validators, SyncerStep(v)
      PROVE  UNCHANGED nodeVars \/ Process \/ Push
  <2>1. v \in Nodes
    BY Zenon, NodesAssumption
  <2>2. CASE SyncerProcess(v)
    BY Zenon, <2>1, <2>2 DEF SyncerProcess
  <2>3. CASE SyncerPushBack(v)
    BY Zenon, <2>1, <2>3 DEF SyncerPushBack, StateUnlocked
  <2> QED
    BY Zenon, <1>2, <2>2, <2>3 DEF SyncerStep, SyncerElect, SyncerAwaitTxs,
       SyncerSeesTx, SyncerGetMempool, SyncerSign, SyncerNextRound
<1>3. ASSUME NEW v \in Validators, NEW p \in Nodes, WorkerRequestTxs(v, p)
      PROVE  Pool
  <2>1. v \in Nodes
    BY Zenon, NodesAssumption
  <2> QED  BY Zenon, <1>3, <2>1 DEF WorkerRequestTxs
<1>4. ASSUME NEW n \in Nodes, HandlerStep(n)
      PROVE  UNCHANGED nodeVars \/ Process \/ Push
  <2>1. CASE HandlerProcess(n)
    BY Zenon, <2>1 DEF HandlerProcess
  <2>2. CASE HandlerPushBack(n)
    BY Zenon, <2>2 DEF HandlerPushBack, StateUnlocked
  <2> QED  BY Zenon, <1>4, <2>1, <2>2 DEF HandlerStep, HandleBlockBroadcast
<1>5. ASSUME NEW n \in Nodes, NEW tx \in sentTxs, HandleTxValidatorBroadcast(n, tx)
      PROVE  Pool
  BY Zenon, <1>5 DEF HandleTxValidatorBroadcast
<1>6. ASSUME UNCHANGED vars
      PROVE  UNCHANGED nodeVars
  BY Zenon, <1>6 DEF vars, nodeVars
<1> HIDE DEF Pool, Process, Push
<1>7. UNCHANGED nodeVars \/ Pool \/ Process \/ Push
  BY SMTT(30), <1>1, <1>2, <1>3, <1>4, <1>5, <1>6 DEF Next
<1> QED  BY Zenon, <1>7 DEF Pool, Process, Push

(* Mempools hold transactions of the round under way, under every step.      *)
LEMMA NextPoolTxs ==
  ASSUME TypeOK, ChainInv, PoolTxs, [Next]_vars
  PROVE  PoolTxs'
<1>1. CASE UNCHANGED nodeVars
  BY Zenon, <1>1 DEF PoolTxs, nodeVars, Height, Latest
<1>2. ASSUME NEW m \in Nodes, NEW txs,
             validatorMempool' = [validatorMempool EXCEPT ![m] = PoolWith(m, txs)],
             UNCHANGED <<chain, randomList>>
      PROVE  PoolTxs'
  <2>1. \A tx \in PoolWith(m, txs) :
          tx.nHeight = Height(m) + 1 /\ Participates(randomList[m], tx.from)
    BY Zenon DEF PoolWith, AcceptsTx, PoolTxs
  <2>2. \A n \in Nodes : validatorMempool'[n] = IF n = m THEN PoolWith(m, txs)
                                                         ELSE validatorMempool[n]
    BY Zenon, <1>2 DEF TypeOK
  <2>3. \A n \in Nodes : Height(n)' = Height(n) /\ randomList'[n] = randomList[n]
    BY Zenon, <1>2 DEF Height, Latest
  <2> QED  BY SMTT(30), <2>1, <2>2, <2>3 DEF PoolTxs, Participates
<1>3. ASSUME NEW m \in Nodes, NEW b, ProcessBlock(m, b), UNCHANGED chain
      PROVE  PoolTxs'
  <2>1. /\ validatorMempool'[m] = {}
        /\ \A n \in Nodes \ {m} : /\ validatorMempool'[n] = validatorMempool[n]
                                  /\ randomList'[n] = randomList[n]
    BY Zenon, <1>3 DEF ProcessBlock, TypeOK
  <2>2. \A n \in Nodes : Height(n)' = Height(n)
    BY Zenon, <1>3 DEF Height, Latest
  <2> QED  BY SMTT(30), <2>1, <2>2 DEF PoolTxs, Participates
<1>4. ASSUME NEW m \in Nodes, NEW b, PushBack(m, b), ~StateUnlocked(m),
             UNCHANGED <<randomList, validatorMempool>>
      PROVE  PoolTxs'
  <2>1. validatorMempool'[m] = {}
    BY Zenon, <1>4 DEF ChainInv, PoolInv
  <2>2. \A n \in Nodes \ {m} : chain'[n] = chain[n]
    BY Zenon, <1>4 DEF PushBack, TypeOK
  <2> QED  BY SMTT(30), <1>4, <2>1, <2>2 DEF PoolTxs, Height, Latest
<1> QED  BY SMTT(30), <1>1, <1>2, <1>3, <1>4, NodeSteps

-----------------------------------------------------------------------------
(* Published hashes: Commits. *)

(* A thread of a node moves only by its own steps, and only pushBack moves  *)
(* a chain.                                                                 *)
LEMMA ThreadSteps ==
  ASSUME TypeOK, [Next]_vars
  PROVE  /\ \A v \in Validators : worker'[v] = worker[v] \/ WorkerStep(v)
         /\ \A v \in Validators : syncer'[v] = syncer[v] \/ SyncerStep(v)
         /\ \A n \in Nodes :
              \/ chain'[n] = chain[n]
              \/ HandlerPushBack(n)
              \/ n \in Validators /\ SyncerPushBack(n)
         /\ \/ sentTxs' = sentTxs
            \/ \E v \in Validators : WorkerCommit(v) \/ WorkerReveal(v)
<1> USE DEF nodeVars
<1>1. CASE UNCHANGED vars
  BY Zenon, <1>1 DEF vars
<1>2. ASSUME NEW u \in Validators, WorkerStep(u)
      PROVE  /\ \A v \in Validators \ {u} : worker'[v] = worker[v]
             /\ syncer' = syncer /\ chain' = chain
             /\ sentTxs' = sentTxs \/ WorkerCommit(u) \/ WorkerReveal(u)
  BY ZenonT(30), <1>2 DEF WorkerStep, WorkerElect, WorkerCommit, WorkerSeesPool, WorkerReveal,
     WorkerScan, WorkerPoolFull, WorkerNextRound, TypeOK
<1>3. ASSUME NEW u \in Validators, SyncerStep(u)
      PROVE  /\ \A v \in Validators \ {u} : syncer'[v] = syncer[v]
             /\ worker' = worker /\ sentTxs' = sentTxs
             /\ \A n \in Nodes : chain'[n] = chain[n] \/ (n = u /\ SyncerPushBack(u))
  <2>1. CASE SyncerPushBack(u)
    BY SMTT(30), <2>1 DEF SyncerPushBack, PushBack, TypeOK
  <2>2. CASE SyncerSign(u)
    BY Zenon, <2>2 DEF SyncerSign, TypeOK
  <2>3. CASE SyncerProcess(u)
    BY Zenon, <2>3 DEF SyncerProcess, TypeOK
  <2>4. CASE SyncerElect(u) \/ SyncerAwaitTxs(u) \/ SyncerSeesTx(u) \/ SyncerGetMempool(u) \/ SyncerNextRound(u)
    BY Zenon, <2>4 DEF SyncerElect, SyncerAwaitTxs, SyncerSeesTx, SyncerGetMempool, SyncerNextRound, TypeOK
  <2> QED  BY Zenon, <1>3, <2>1, <2>2, <2>3, <2>4 DEF SyncerStep
<1>4. ASSUME NEW u \in Validators, NEW p \in Nodes, WorkerRequestTxs(u, p)
      PROVE  UNCHANGED <<worker, syncer, chain, sentTxs>>
  BY Zenon, <1>4 DEF WorkerRequestTxs
<1>5. ASSUME NEW m \in Nodes, HandlerStep(m)
      PROVE  /\ UNCHANGED <<worker, syncer, sentTxs>>
             /\ \A n \in Nodes : chain'[n] = chain[n] \/ (n = m /\ HandlerPushBack(m))
  BY <1>5 DEF HandlerStep, HandleBlockBroadcast, HandlerProcess, HandlerPushBack,
     PushBack, TypeOK
<1>6. ASSUME NEW m \in Nodes, NEW tx \in sentTxs, HandleTxValidatorBroadcast(m, tx)
      PROVE  UNCHANGED <<worker, syncer, chain, sentTxs>>
  BY Zenon, <1>6 DEF HandleTxValidatorBroadcast
<1>7. \/ UNCHANGED vars
      \/ \E u \in Validators : WorkerStep(u)
      \/ \E u \in Validators : SyncerStep(u)
      \/ \E u \in Validators : \E p \in Nodes : WorkerRequestTxs(u, p)
      \/ \E m \in Nodes : HandlerStep(m)
      \/ \E m \in Nodes : \E tx \in sentTxs : HandleTxValidatorBroadcast(m, tx)
  BY Zenon DEF Next
<1>8. ASSUME NEW u \in Validators, WorkerStep(u) PROVE \A v \in Validators : worker'[v] = worker[v] \/ WorkerStep(v)
  BY Zenon, <1>2, <1>8
<1>9. ASSUME NEW u \in Validators, SyncerStep(u) PROVE \A v \in Validators : syncer'[v] = syncer[v] \/ SyncerStep(v)
  BY Zenon, <1>3, <1>9
<1> QED  BY ZenonT(30), <1>1, <1>2, <1>3, <1>4, <1>5, <1>6, <1>7, <1>8, <1>9

(* Broadcast transactions stay so. *)
LEMMA SentStays ==
  ASSUME TypeOK, [Next]_vars
  PROVE  sentTxs \subseteq sentTxs'
<1>1. sentTxs' = sentTxs \/ \E v \in Validators : WorkerCommit(v) \/ WorkerReveal(v)
  BY Zenon, ThreadSteps
<1> QED  BY Zenon, <1>1 DEF WorkerCommit, WorkerReveal

(* Whether a round is committed does not depend on whose chain it is of. *)
LEMMA CommittedAgrees ==
  ASSUME Agreement, NEW m \in Nodes, NEW n \in Nodes, NEW h \in 1..Len(chain[m]),
         h <= Len(chain[n]), Committed(m, h)
  PROVE  Committed(n, h)
<1>1. chain[m][h] = chain[n][h]
  BY Zenon DEF Agreement
<1> QED  BY Zenon, <1>1 DEF Committed

(* Seeds are for rounds that the sender's chain has reached. *)
LEMMA SentHeights ==
  ASSUME TypeOK, ChainShape, WorkerTxs, NEW tx \in sentTxs
  PROVE  tx.from \in Nodes /\ tx.nHeight \in 1..Len(chain[tx.from])
<1>1. tx.from \in Validators /\ tx.from \in Nodes
  BY NodesAssumption DEF TypeOK, TxValidator
<1>2. /\ Len(chain[tx.from]) \in Nat
      /\ Height(tx.from) = Len(chain[tx.from]) - 1
  BY Zenon, <1>1, LatestFacts
<1>3. /\ worker[tx.from].latestBlock \in Nat
      /\ worker[tx.from].latestBlock <= Height(tx.from)
      /\ tx.nHeight \in 1..(worker[tx.from].latestBlock + 1)
  BY Zenon, <1>1 DEF TypeOK, WorkerTxs
<1> QED  BY SMTT(30), <1>1, <1>2, <1>3

(* When doTxCreation's wait ends, all hashes of the round are public: the   *)
(* mempool holds all of them, or a seed, or the round is over.              *)
LEMMA SeesPoolCommitted ==
  ASSUME TypeOK, ChainInv, OneTxPerRound, WorkerTxs, PoolTxs, Commits,
         NEW v \in Validators, Cardinality(validatorMempool[v]) >= MinValidators
  PROVE  Committed(v, worker[v].latestBlock + 1)
<1> DEFINE h == worker[v].latestBlock + 1
<1>1. /\ v \in Nodes
      /\ Len(chain[v]) \in Nat /\ Height(v) = Len(chain[v]) - 1
  BY Zenon, NodesAssumption, LatestFacts DEF ChainInv
<1>2. worker[v].latestBlock \in Nat /\ worker[v].latestBlock <= Height(v)
  BY Zenon DEF TypeOK, WorkerTxs
<1>3. CASE worker[v].latestBlock < Height(v)
  <2>1. h \in 1..(Len(chain[v]) - 1)
    BY SMTT(30), <1>1, <1>2, <1>3
  <2> QED  BY <1>1, <2>1 DEF Commits
<1>4. CASE worker[v].latestBlock = Height(v)
  <2>1. h = Len(chain[v]) /\ h = Height(v) + 1
    BY SMTT(30), <1>1, <1>4
  <2>2. randomList[v] = ListAfter(chain[v][h])
    <3>1. validatorMempool[v] # {}
      BY SMTT(30), EmptyCardinality, ConstantsAssumption
    <3>2. StateUnlocked(v)
      BY SMTT(30), <1>1, <3>1 DEF ChainInv, PoolInv
    <3> QED  BY SMTT(30), <1>1, <2>1, <3>2, UnlockedList DEF ChainInv, Latest
  <2>3. \A tx \in validatorMempool[v] : tx \in sentTxs /\ tx.nHeight = h /\ tx.func \in TxFunctions
    BY SMTT(30), <1>1, <2>1 DEF PoolTxs, TypeOK, TxValidator, TxFunctions
  <2>4. ASSUME \E tx \in validatorMempool[v] : tx.func = "randomSeed"
        PROVE  Committed(v, h)
    <3>1. PICK tx \in validatorMempool[v] : tx.func = "randomSeed"
      BY Zenon, <2>4
    <3>2. Committed(tx.from, h)
      BY SMTT(30), <2>3, <3>1 DEF Commits
    <3>3. tx.from \in Nodes /\ h \in 1..Len(chain[tx.from])
      BY <2>3, SentHeights DEF ChainInv
    <3>4. h <= Len(chain[v])
      BY SMTT(30), <1>1, <2>1
    <3> HIDE DEF h
    <3> QED  BY ZenonT(30), <1>1, <3>2, <3>3, <3>4, CommittedAgrees DEF ChainInv
  <2>5. ASSUME \A tx \in validatorMempool[v] : tx.func = "randomHash"
        PROVE  Committed(v, h)
    <3>1. \A i \in 1..MinValidators : \E tx \in validatorMempool[v] : tx.from = randomList[v][i]
      BY <1>1, <2>5, HashesOfPool
    <3> HIDE DEF h
    <3> QED  BY SMTT(30), <2>2, <2>3, <2>5, <3>1 DEF Committed
  <2> QED  BY SMTT(30), <2>3, <2>4, <2>5 DEF TxFunctions
<1> QED  BY SMTT(30), <1>1, <1>2, <1>3, <1>4

(* A chain grows only at a height whose round is committed. *)
LEMMA GrowthCommitted ==
  ASSUME TypeOK, ChainInv, Commits, [Next]_vars, NEW n \in Nodes, chain'[n] # chain[n]
  PROVE  /\ Len(chain'[n]) <= Len(chain[n]) + 1
         /\ Committed(n, Len(chain[n]))
<1>1. Len(chain[n]) \in Nat /\ Height(n) = Len(chain[n]) - 1
  BY Zenon, LatestFacts DEF ChainInv
<1>2. ASSUME NEW b, PushBack(n, b)
      PROVE  Len(chain'[n]) <= Len(chain[n]) + 1
  <2>1. chain[n] \in Seq({Genesis} \cup sentBlocks \cup {b})
    BY SMTT(30), SeqMono DEF TypeOK
  <2>2. chain'[n] = chain[n] \/ chain'[n] = Append(chain[n], b)
    BY Zenon, <1>2 DEF PushBack, TypeOK
  <2> QED  BY SMTT(30), <1>1, <2>1, <2>2
<1>3. CASE HandlerPushBack(n)
  <2> DEFINE b == handler[n].block
             u == b.validator
             h == b.nHeight
  <2>1. b \in sentBlocks /\ h = Height(n) + 1
    BY SMTT(30), <1>3, HandlerFacts DEF HandlerPushBack
  <2>2. u \in Nodes
    BY SMTT(30), <2>1, NodesAssumption DEF TypeOK, IsBlock
  <2>3. h \in 1..(Len(chain[u]) - 1) /\ Len(chain[u]) \in Nat
    <3>1. Len(chain[u]) \in Nat
      BY Zenon, <2>2, LatestFacts DEF ChainInv
    <3> QED  BY Zenon, <2>1, <3>1 DEF ChainInv, SentInOwnChain
  <2>4. h = Len(chain[n]) /\ h \in Nat \ {0}
    BY SMTT(30), <1>1, <2>1, LatestFacts DEF ChainInv
  <2>5. h \in 1..(Len(chain[u]) - 1) /\ h \in 1..Len(chain[u]) /\ h <= Len(chain[n])
    BY SMTT(30), <2>3, <2>4
  <2>6. Committed(u, h)
    BY Zenon, <2>2, <2>5 DEF Commits
  <2>7. Committed(n, h)
    <3> HIDE DEF u, h
    <3> QED  BY ZenonT(30), <2>2, <2>5, <2>6, CommittedAgrees DEF ChainInv
  <2> QED  BY ZenonT(30), <1>2, <1>3, <2>4, <2>7 DEF HandlerPushBack
<1>4. CASE n \in Validators /\ SyncerPushBack(n)
  <2>1. Committed(n, Len(chain[n]))
    BY Zenon, <1>4 DEF SyncerPushBack, Commits
  <2> QED  BY SMTT(30), <1>2, <1>4, <2>1 DEF SyncerPushBack
<1> QED  BY <1>3, <1>4, ThreadSteps

(* A creator's transactions hold the hashes of its round. *)
LEMMA SignCommitted ==
  ASSUME TypeOK, ChainInv, Creators, NEW v \in Validators, SyncerSign(v)
  PROVE  Committed(v, Len(chain[v]))
<1>1. v \in Nodes /\ Len(chain[v]) \in Nat /\ Height(v) + 1 = Len(chain[v])
  BY NodesAssumption, LatestFacts DEF ChainInv
<1>2. syncer[v].pc = "order" /\ CanOrder(syncer[v].mempool, randomList[v])
  BY Zenon DEF SyncerSign
<1>3. randomList[v] = ListAfter(Latest(v))
  BY SMTT(30), <1>1, <1>2, UnlockedList DEF ChainInv, SyncerInv, StateUnlocked, Creating
<1>4. \A tx \in syncer[v].mempool : tx \in sentTxs /\ tx.nHeight = Len(chain[v])
  BY SMTT(30), <1>1, <1>2 DEF Creators, TypeOK
<1> QED  BY SMTT(30), <1>2, <1>3, <1>4 DEF CanOrder, TxFunctions, Committed, Latest

(* Seeds follow hashes, under every step.                                    *)
LEMMA NextCommits ==
  ASSUME TypeOK, ChainInv, RoundInv, [Next]_vars, TypeOK', ChainInv'
  PROVE  Commits'
<1>1. sentTxs \subseteq sentTxs'
  BY Zenon, SentStays
<1>2. \A n \in Nodes : \A h \in 1..Len(chain[n]) : Committed(n, h) => Committed(n, h)'
  BY SMTT(30), <1>1, CommittedStays
<1>3. \A n \in Nodes : Len(chain[n]) \in Nat \ {0} /\ Height(n) = Len(chain[n]) - 1
  BY LatestFacts DEF ChainInv
<1>4. ASSUME NEW v \in Validators
      PROVE  /\ v \in Nodes
             /\ worker[v].latestBlock \in Nat
             /\ worker[v].latestBlock + 1 \in 1..Len(chain[v])
  <2>1. v \in Nodes /\ worker[v].latestBlock \in Nat /\ worker[v].latestBlock <= Height(v)
    BY NodesAssumption DEF RoundInv, WorkerTxs, TypeOK
  <2> QED  BY SMTT(30), <1>3, <2>1
<1>5. ASSUME NEW v \in Validators, worker'[v].pc = "reveal"
      PROVE  Committed(v, worker[v].latestBlock + 1)' /\ worker'[v].latestBlock = worker[v].latestBlock
  <2>1. worker'[v].latestBlock = worker[v].latestBlock /\ Committed(v, worker[v].latestBlock + 1)
    <3>1. CASE worker'[v] = worker[v]
      BY SMTT(30), <1>5, <3>1 DEF RoundInv, Commits
    <3>2. CASE WorkerStep(v)
      <4>1. DOMAIN worker = Validators /\ DOMAIN worker[v] = {"pc", "latestBlock", "i", "seeds"}
        BY Zenon DEF TypeOK
      <4>2. WorkerSeesPool(v)
        <5>1. CASE WorkerElect(v)
          BY <1>5, <4>1, <5>1 DEF WorkerElect
        <5>2. CASE WorkerCommit(v)
          BY <1>5, <4>1, <5>2 DEF WorkerCommit
        <5>3. CASE WorkerReveal(v)
          BY <1>5, <4>1, <5>3 DEF WorkerReveal
        <5>4. CASE WorkerScan(v) \/ WorkerPoolFull(v) \/ WorkerNextRound(v)
          BY <1>5, <4>1, <5>4 DEF WorkerScan, WorkerPoolFull, WorkerNextRound, WorkerAt
        <5> QED  BY SMTT(30), <3>2, <5>1, <5>2, <5>3, <5>4 DEF WorkerStep
      <4>3. /\ Cardinality(validatorMempool[v]) >= MinValidators
            /\ worker'[v].latestBlock = worker[v].latestBlock
        BY Zenon, <4>1, <4>2 DEF WorkerSeesPool
      <4> QED  BY SMTT(30), <4>3, SeesPoolCommitted DEF RoundInv
    <3> QED  BY SMTT(30), <3>1, <3>2, ThreadSteps
  <2>2. PICK h \in 1..Len(chain[v]) : h = worker[v].latestBlock + 1
    BY Zenon, <1>4
  <2>3. Committed(v, h)'
    BY Zenon, <1>2, <1>4, <2>1, <2>2
  <2> QED  BY SMTT(30), <2>1, <2>2, <2>3

<1>6. ASSUME NEW tx \in sentTxs', tx.func = "randomSeed"
      PROVE  Committed(tx.from, tx.nHeight)'
  <2>1. /\ tx.from \in Nodes /\ tx.nHeight \in 1..Len(chain[tx.from])
        /\ Committed(tx.from, tx.nHeight)
    <3>1. CASE tx \in sentTxs
      BY SMTT(30), <1>6, <3>1, SentHeights DEF RoundInv, Commits, ChainInv
    <3>2. ASSUME NEW v \in Validators, WorkerReveal(v), tx \notin sentTxs
          PROVE  /\ tx.from \in Nodes /\ tx.nHeight \in 1..Len(chain[tx.from])
                 /\ Committed(tx.from, tx.nHeight)
      <4>1. worker[v].pc = "reveal" /\ tx.from = v /\ tx.nHeight = worker[v].latestBlock + 1
        BY <3>2 DEF WorkerReveal, RandomSeedTx
      <4> QED  BY SMTT(30), <1>4, <4>1 DEF RoundInv, Commits
    <3>3. ASSUME NEW v \in Validators, WorkerCommit(v)
          PROVE  tx \in sentTxs
      BY SMTT(30), <1>6, <3>3 DEF WorkerCommit, RandomHashTx
    <3>4. sentTxs' = sentTxs \/ \E v \in Validators : WorkerCommit(v) \/ WorkerReveal(v)
      BY ThreadSteps
    <3> QED  BY SMTT(30), <3>1, <3>2, <3>3, <3>4
  <2> QED  BY <1>2, <2>1
<1>7. ASSUME NEW n \in Nodes, NEW h \in 1..(Len(chain'[n]) - 1)
      PROVE  Committed(n, h)'
  <2>1. h \in 1..Len(chain[n]) /\ Committed(n, h)
    <3>1. CASE h <= Len(chain[n]) - 1
      <4>1. h \in 1..(Len(chain[n]) - 1) /\ h \in 1..Len(chain[n])
        BY <1>3, <3>1
      <4> QED  BY Zenon, <4>1 DEF RoundInv, Commits
    <3>2. CASE ~(h <= Len(chain[n]) - 1)
      <4>0. Len(chain'[n]) \in Nat /\ h \in Nat
        BY NextHeight DEF ChainInv
      <4>1. chain'[n] # chain[n]
        BY <1>3, <3>2
      <4>2. Len(chain'[n]) <= Len(chain[n]) + 1 /\ Committed(n, Len(chain[n]))
        BY Zenon, <4>1, GrowthCommitted DEF RoundInv
      <4>3. h = Len(chain[n])
        BY SMTT(30), <1>3, <3>2, <4>0, <4>2
      <4> QED  BY SMTT(30), <1>3, <4>2, <4>3
    <3> QED  BY <3>1, <3>2
  <2> QED  BY <1>2, <2>1
<1>8. ASSUME NEW v \in Validators, syncer'[v].pc \in {"process", "pushBack"}
      PROVE  Committed(v, Len(chain[v]))'
  <2>1. DOMAIN syncer = Validators /\ DOMAIN syncer[v] = {"pc", "latestBlock", "mempool", "block", "clock"}
    BY Zenon DEF TypeOK
  <2>2. v \in Nodes /\ Len(chain[v]) \in 1..Len(chain[v])
    BY SMTT(30), <1>3, <1>4
  <2>3. Committed(v, Len(chain[v])) /\ syncer[v].pc \in Creating
    <3>1. CASE syncer'[v] = syncer[v]
      BY <1>8, <3>1 DEF RoundInv, Commits, Creating
    <3>2. CASE SyncerStep(v)
      <4>1. SyncerSign(v) \/ SyncerProcess(v)
        BY SMTT(30), <1>8, <2>1, <3>2 DEF SyncerStep, SyncerElect, SyncerAwaitTxs, SyncerSeesTx, SyncerGetMempool,
           SyncerPushBack, SyncerNextRound, SyncerAt
      <4>2. CASE SyncerSign(v)
        BY Zenon, <4>2, SignCommitted DEF RoundInv, SyncerSign, Creating
      <4>3. CASE SyncerProcess(v)
        BY Zenon, <4>3 DEF RoundInv, Commits, SyncerProcess, Creating
      <4> QED  BY SMTT(30), <4>1, <4>2, <4>3
    <3> QED  BY SMTT(30), <3>1, <3>2, ThreadSteps
  <2>4. chain'[v] = chain[v]
    <3>1. ~HandlerPushBack(v)
      BY Zenon, <2>3 DEF HandlerPushBack, ChainInv, SyncerInv
    <3>2. ~SyncerPushBack(v)
      BY <1>8, <2>1 DEF SyncerPushBack, SyncerAt
    <3> QED  BY <2>2, <3>1, <3>2, ThreadSteps
  <2>5. PICK h \in 1..Len(chain[v]) : h = Len(chain[v])
    BY Zenon, <2>2
  <2>6. Committed(v, h)'
    BY Zenon, <1>2, <2>2, <2>3, <2>5
  <2> QED  BY SMTT(30), <2>4, <2>5, <2>6
<1> QED  BY SMTT(30), <1>5, <1>6, <1>7, <1>8 DEF Commits

-----------------------------------------------------------------------------
(* Creators. *)

(* Apart from processNextBlock, steps leave the chain and the list of a     *)
(* node alone and its mempool grows.                                        *)
LEMMA NodeStable ==
  ASSUME TypeOK, [Next]_vars, NEW n \in Nodes
  PROVE  \/ /\ chain'[n] = chain[n] /\ randomList'[n] = randomList[n]
            /\ validatorMempool[n] \subseteq validatorMempool'[n]
         \/ HandlerProcess(n) \/ HandlerPushBack(n)
         \/ n \in Validators /\ (SyncerProcess(n) \/ SyncerPushBack(n))
<1> DEFINE Stable == /\ chain'[n] = chain[n] /\ randomList'[n] = randomList[n]
                     /\ validatorMempool[n] \subseteq validatorMempool'[n]
<1>1. ASSUME UNCHANGED nodeVars
      PROVE  Stable
  BY Zenon, <1>1 DEF nodeVars
<1>2. ASSUME NEW m \in Nodes, NEW txs,
             validatorMempool' = [validatorMempool EXCEPT ![m] = PoolWith(m, txs)],
             UNCHANGED <<chain, randomList>>
      PROVE  Stable
  BY <1>2 DEF PoolWith, TypeOK
<1>3. ASSUME NEW m \in Nodes, NEW b, ProcessBlock(m, b) /\ UNCHANGED chain, m # n
      PROVE  Stable
  BY SMTT(30), <1>3 DEF ProcessBlock, TypeOK
<1>4. ASSUME NEW m \in Nodes, NEW b,
             PushBack(m, b) /\ UNCHANGED <<randomList, validatorMempool>>, m # n
      PROVE  Stable
  BY <1>4 DEF PushBack, TypeOK
<1>5. ASSUME NEW v \in Validators, WorkerStep(v)
      PROVE  Stable
  <2>1. v \in Nodes
    BY Zenon, NodesAssumption
  <2>2. CASE WorkerCommit(v)
    <3>1. \E txs : validatorMempool' = [validatorMempool EXCEPT ![v] = PoolWith(v, txs)]
      BY Zenon, <2>2 DEF WorkerCommit
    <3>2. UNCHANGED <<chain, randomList>>
      BY <2>2 DEF WorkerCommit
    <3> HIDE DEF Stable
    <3> QED  BY Zenon, <1>2, <2>1, <3>1, <3>2
  <2>3. CASE WorkerReveal(v)
    <3>1. \E txs : validatorMempool' = [validatorMempool EXCEPT ![v] = PoolWith(v, txs)]
      BY Zenon, <2>3 DEF WorkerReveal
    <3>2. UNCHANGED <<chain, randomList>>
      BY Zenon, <2>3 DEF WorkerReveal
    <3> HIDE DEF Stable
    <3> QED  BY Zenon, <1>2, <2>1, <3>1, <3>2
  <2> HIDE DEF Stable
  <2> QED
    BY Zenon, <1>1, <1>5, <2>2, <2>3 DEF WorkerStep, WorkerElect, WorkerSeesPool,
       WorkerScan, WorkerPoolFull, WorkerNextRound
<1>6. ASSUME NEW v \in Validators, SyncerStep(v)
      PROVE  Stable \/ (n = v /\ (SyncerProcess(v) \/ SyncerPushBack(v)))
  <2>1. v \in Nodes
    BY Zenon, NodesAssumption
  <2>2. CASE SyncerProcess(v)
    BY SMTT(30), <1>3, <2>1, <2>2 DEF SyncerProcess
  <2>3. CASE SyncerPushBack(v)
    BY SMTT(30), <1>4, <2>1, <2>3 DEF SyncerPushBack
  <2> HIDE DEF Stable
  <2> QED
    BY Zenon, <1>1, <1>6, <2>2, <2>3 DEF SyncerStep, SyncerElect, SyncerAwaitTxs,
       SyncerSeesTx, SyncerGetMempool, SyncerSign, SyncerNextRound
<1>7. ASSUME NEW v \in Validators, NEW p \in Nodes, WorkerRequestTxs(v, p)
      PROVE  Stable
  BY Zenon, <1>2, <1>7, NodesAssumption DEF WorkerRequestTxs
<1>8. ASSUME NEW m \in Nodes, HandlerStep(m)
      PROVE  Stable \/ (n = m /\ (HandlerProcess(m) \/ HandlerPushBack(m)))
  <2>1. CASE HandlerProcess(m)
    BY <1>3, <2>1 DEF HandlerProcess
  <2>2. CASE HandlerPushBack(m)
    BY Zenon, <1>4, <2>2 DEF HandlerPushBack
  <2> HIDE DEF Stable
  <2> QED  BY Zenon, <1>1, <1>8, <2>1, <2>2 DEF HandlerStep, HandleBlockBroadcast
<1>9. ASSUME NEW m \in Nodes, NEW tx \in sentTxs, HandleTxValidatorBroadcast(m, tx)
      PROVE  Stable
  BY Zenon, <1>2, <1>9 DEF HandleTxValidatorBroadcast
<1>10. ASSUME UNCHANGED vars
       PROVE  Stable
  BY Zenon, <1>10 DEF vars
<1> HIDE DEF Stable
<1>11. \/ Stable
       \/ HandlerProcess(n) \/ HandlerPushBack(n)
       \/ n \in Validators /\ (SyncerProcess(n) \/ SyncerPushBack(n))
  BY SMTT(30), <1>5, <1>6, <1>7, <1>8, <1>9, <1>10 DEF Next
<1> QED  BY Zenon, <1>11 DEF Stable

(* validateNextBlock accepts the block of a creator whose clock is not behind. *)
LEMMA CreatedBlockValid ==
  ASSUME TypeOK, ChainInv, RoundInv, NEW v \in Validators, syncer[v].pc = "order",
         NEW body, <<v, body>> \notin Refused, NEW clock, ~(Latest(v).timestamp > clock),
         Latest(v).timestamp <= clock
  PROVE  ValidateNextBlock(v, CreatedBlock(v, body, clock))
<1> DEFINE M == MinValidators
           pool == syncer[v].mempool
           list == randomList[v]
           txs == OrderedTxs(pool, list)
           b == CreatedBlock(v, body, clock)
<1>1. v \in Nodes /\ M \in Nat /\ 2 * M \in Nat
  BY SMTT(30), NodesAssumption, ConstantsAssumption
<1>2. CanOrder(pool, list) /\ \A tx \in pool : tx \in sentTxs /\ tx.nHeight = Height(v) + 1
  BY Zenon DEF RoundInv, Creators, TypeOK
<1>3. list = ListAfter(Latest(v)) /\ v = list[0]
  BY SMTT(30), <1>1, UnlockedList DEF ChainInv, SyncerInv, StateUnlocked, Creating
<1>4. /\ \A i \in 1..M : txs[i] \in pool /\ txs[i].from = list[i] /\ txs[i].func = "randomHash"
      /\ \A i \in 1..M : txs[M + i] \in pool /\ txs[M + i].from = list[i] /\ txs[M + i].func = "randomSeed"
  BY <1>2, OrderedTxsFacts
<1>5. Len(txs) = 2 * M
  BY <1>1 DEF OrderedTxs
<1> HIDE DEF txs
<1>6. \A i \in 1..(2 * M) : txs[i] \in pool
  <2>1. ASSUME NEW i \in 1..(2 * M), ~(i \in 1..M)
        PROVE  \E j \in 1..M : i = M + j
    <3>1. i - M \in 1..M /\ i = M + (i - M)
      BY <1>1, <2>1
    <3> QED  BY Zenon, <3>1
  <2> QED  BY <1>4, <2>1
<1>7. ASSUME NEW i \in 1..M
      PROVE  txs[i].data = Sha3(txs[i + M].data)
  <2>1. i + M = M + i
    BY SMTT(30), <1>1
  <2>2. /\ txs[i] \in sentTxs /\ txs[i + M] \in sentTxs
        /\ txs[i].nHeight = txs[i + M].nHeight /\ txs[i].from = txs[i + M].from
        /\ txs[i].func = "randomHash" /\ txs[i + M].func = "randomSeed"
    BY SMTT(30), <1>2, <1>4, <2>1
  <2> DEFINE t == RandomHashTx(txs[i + M].from, txs[i + M].data, txs[i + M].nHeight)
  <2>3. t \in sentTxs
    BY Zenon, <2>2 DEF RoundInv, SeedsMatch
  <2>4. /\ t.from = txs[i].from /\ t.func = txs[i].func /\ t.nHeight = txs[i].nHeight
        /\ t.data = Sha3(txs[i + M].data)
    BY Zenon, <2>2 DEF RandomHashTx
  <2> HIDE DEF t
  <2>5. t = txs[i]
    BY Zenon, <2>2, <2>3, <2>4 DEF RoundInv, OneTxPerRound
  <2> QED  BY Zenon, <2>4, <2>5
<1>8. /\ b.nHeight = Height(v) + 1 /\ b.prevBlockHash = BlockHash(Latest(v))
      /\ b.txValidators = txs /\ b.validator = v
      /\ b.timestamp = clock /\ b.body = body
  BY Zenon DEF CreatedBlock, SignBlock, NewBlock, Height, txs
<1> HIDE DEF b
<1>9. ValidateBlock(list, b)
  <2>1. \A i \in 1..M : i + M = M + i
    BY SMTT(30), <1>1
  <2> QED  BY SMTT(30), <1>2, <1>3, <1>4, <1>5, <1>6, <1>7, <1>8, <2>1 DEF ValidateBlock
<1>10. ValidateNextBlock(v, b)
  BY Zenon, <1>8, <1>9 DEF ValidateNextBlock, Extends, Height
<1> QED  BY Zenon, <1>10 DEF b, txs

(* A creator finds what it waits for, under every step.                      *)
LEMMA NextCreators ==
  ASSUME TypeOK, ChainInv, RoundInv, [Next]_vars
  PROVE  Creators'
<1> SUFFICES ASSUME NEW v \in Validators
             PROVE  /\ syncer'[v].pc = "dead" => syncer'[v].clock < syncer'[v].block.timestamp
                    /\ syncer'[v].pc \in {"awaitTx", "getMempool"} => CanOrder(validatorMempool'[v], randomList'[v])
                    /\ syncer'[v].pc = "order" =>
                         /\ CanOrder(syncer'[v].mempool, randomList'[v])
                         /\ \A tx \in syncer'[v].mempool : tx.nHeight = Height(v)' + 1
  <2>1. Creators' <=> \A v \in Validators :
          /\ syncer'[v].pc = "dead" => syncer'[v].clock < syncer'[v].block.timestamp
          /\ syncer'[v].pc \in {"awaitTx", "getMempool"} => CanOrder(validatorMempool'[v], randomList'[v])
          /\ syncer'[v].pc = "order" =>
               /\ CanOrder(syncer'[v].mempool, randomList'[v])
               /\ \A tx \in syncer'[v].mempool : tx.nHeight = Height(v)' + 1
    BY Zenon DEF Creators, CanOrder
  <2> QED  BY Zenon, <2>1
<1>1. /\ v \in Nodes
      /\ DOMAIN syncer = Validators /\ DOMAIN syncer[v] = {"pc", "latestBlock", "mempool", "block", "clock"}
  BY Zenon, NodesAssumption DEF TypeOK
<1>2. CASE syncer'[v] = syncer[v]
  <2>1. syncer[v].pc = "dead" => syncer[v].clock < syncer[v].block.timestamp
    BY Zenon DEF RoundInv, Creators
  <2>2. ASSUME syncer[v].pc \in {"awaitTx", "getMempool", "order"}
        PROVE  /\ chain'[v] = chain[v] /\ randomList'[v] = randomList[v]
               /\ validatorMempool[v] \subseteq validatorMempool'[v]
    <3>1. handler[v].pc = "idle"
      BY Zenon, <2>2 DEF ChainInv, SyncerInv, Creating
    <3>2. ~HandlerProcess(v) /\ ~HandlerPushBack(v) /\ ~SyncerProcess(v) /\ ~SyncerPushBack(v)
      BY Zenon, <2>2, <3>1 DEF HandlerProcess, HandlerPushBack, SyncerProcess, SyncerPushBack
    <3> QED  BY SMTT(30), <1>1, <3>2, NodeStable
  <2>3. CASE syncer[v].pc \in {"awaitTx", "getMempool"}
    <3>1. CanOrder(validatorMempool[v], randomList[v])
      BY Zenon, <2>3 DEF RoundInv, Creators
    <3> QED  BY SMTT(30), <1>2, <2>2, <2>3, <3>1 DEF CanOrder
  <2>4. CASE syncer[v].pc = "order"
    <3>1. /\ CanOrder(syncer[v].mempool, randomList[v])
          /\ \A tx \in syncer[v].mempool : tx.nHeight = Height(v) + 1
      BY Zenon, <2>4 DEF RoundInv, Creators
    <3>2. Height(v)' = Height(v)
      BY Zenon, <2>2, <2>4 DEF Height, Latest
    <3> QED  BY Zenon, <1>2, <2>2, <2>4, <3>1, <3>2
  <2> QED  BY SMTT(30), <1>2, <2>1, <2>3, <2>4
<1>3. CASE SyncerElect(v) \/ SyncerNextRound(v)
  BY <1>1, <1>3 DEF SyncerElect, SyncerNextRound, SyncerAt
<1>4. CASE SyncerAwaitTxs(v)
  <2>1. CanOrder(validatorMempool[v], randomList[v])
    BY Zenon, <1>1, <1>4, FullPool DEF SyncerAwaitTxs, RoundInv
  <2>2. syncer'[v].pc = "awaitTx" /\ UNCHANGED nodeVars
    BY Zenon, <1>1, <1>4 DEF SyncerAwaitTxs
  <2> QED  BY Zenon, <2>1, <2>2 DEF nodeVars
<1>4a. CASE SyncerSeesTx(v)
  <2>1. CanOrder(validatorMempool[v], randomList[v])
    BY Zenon, <1>4a DEF SyncerSeesTx, RoundInv, Creators
  <2>2. syncer'[v].pc = "getMempool" /\ UNCHANGED nodeVars
    BY Zenon, <1>1, <1>4a DEF SyncerSeesTx
  <2> QED  BY Zenon, <2>1, <2>2 DEF nodeVars
<1>5. CASE SyncerGetMempool(v)
  <2>1. syncer[v].pc = "getMempool" /\ syncer'[v].pc = "order"
        /\ syncer'[v].mempool = validatorMempool[v] /\ UNCHANGED nodeVars
    BY Zenon, <1>1, <1>5 DEF SyncerGetMempool
  <2>2. /\ CanOrder(validatorMempool[v], randomList[v])
        /\ \A tx \in validatorMempool[v] : tx.nHeight = Height(v) + 1
    BY Zenon, <1>1, <2>1 DEF RoundInv, Creators, PoolTxs
  <2>3. Height(v)' = Height(v) /\ randomList'[v] = randomList[v]
    BY Zenon, <2>1 DEF nodeVars, Height, Latest
  <2> QED  BY <2>1, <2>2, <2>3
<1>6. CASE SyncerSign(v)
  <2>1. PICK body \in Bodies, clock \in Times :
          /\ <<v, body>> \notin Refused
          /\ syncer' = [syncer EXCEPT ![v] =
                          IF ValidateNextBlock(v, CreatedBlock(v, body, clock))
                          THEN [SyncerAt("process", @.latestBlock) EXCEPT
                                  !.block = CreatedBlock(v, body, clock)]
                          ELSE [SyncerAt("dead", @.latestBlock) EXCEPT
                                  !.block = CreatedBlock(v, body, clock), !.clock = clock]]
    BY Zenon, <1>6 DEF SyncerSign
  <2> DEFINE b == CreatedBlock(v, body, clock)
  <2>2. Latest(v).timestamp \in Nat /\ clock \in Nat
    BY SMTT(30), <1>1, LatestFacts, GenesisFacts, ConstantsAssumption DEF ChainInv, TypeOK, IsBlock
  <2>3. CASE Latest(v).timestamp <= clock
    <3>1. ~(Latest(v).timestamp > clock)
      BY <2>2, <2>3
    <3>2. ValidateNextBlock(v, b)
      BY Zenon, <1>6, <2>1, <2>3, <3>1, CreatedBlockValid DEF SyncerSign
    <3> HIDE DEF b
    <3>3. syncer'[v].pc = "process"
      BY Zenon, <1>1, <2>1, <3>2 DEF SyncerAt, b
    <3> QED  BY Zenon, <3>3
  <2>4. CASE ~(Latest(v).timestamp <= clock)
    <3>1. Latest(v).timestamp > clock /\ clock < Latest(v).timestamp
      BY <2>2, <2>4
    <3>2. b.timestamp = Latest(v).timestamp
      BY Zenon, <3>1 DEF CreatedBlock, SignBlock, NewBlock
    <3> HIDE DEF b
    <3>3. \/ syncer'[v].pc = "process"
          \/ syncer'[v].pc = "dead" /\ syncer'[v].block = b /\ syncer'[v].clock = clock
      BY Zenon, <1>1, <2>1 DEF SyncerAt, b
    <3> QED  BY Zenon, <3>1, <3>2, <3>3
  <2> QED  BY Zenon, <2>3, <2>4
<1>7. CASE SyncerProcess(v)
  BY Zenon, <1>1, <1>7 DEF SyncerProcess
<1>8. CASE SyncerPushBack(v)
  <2>1. Extends(syncer[v].block, Latest(v))
    BY Zenon, <1>8 DEF SyncerPushBack, ChainInv, SyncerInv
  <2> QED  BY <1>1, <1>8, <2>1 DEF SyncerPushBack, SyncerAt
<1> QED
  BY Zenon, <1>2, <1>3, <1>4, <1>4a, <1>5, <1>6, <1>7, <1>8, ThreadSteps DEF SyncerStep

-----------------------------------------------------------------------------
(* The invariant and what it implies. *)

(* The first round has not begun.                                            *)
LEMMA InitRoundInv == Init => RoundInv
<1> SUFFICES ASSUME Init
             PROVE  RoundInv
  OBVIOUS
<1>1. \A n \in Nodes : chain[n] = <<Genesis>> /\ Len(chain[n]) = 1 /\ Height(n) = 0
  BY Zenon DEF Init, Height, Latest, Genesis
<1>2. \A v \in Validators : /\ v \in Nodes
                            /\ worker[v].pc = "elect" /\ worker[v].latestBlock = 0
                            /\ syncer[v].pc = "elect"
  BY Zenon, NodesAssumption DEF Init, WorkerAt, SyncerAt
<1>3. sentTxs = {} /\ \A n \in Nodes : validatorMempool[n] = {}
  BY Zenon DEF Init
<1>4. OneTxPerRound /\ WorkerTxs /\ SeedsMatch /\ PoolTxs /\ Creators
  BY SMTT(30), <1>1, <1>2, <1>3 DEF OneTxPerRound, WorkerTxs, SeedsMatch, PoolTxs, Creators
<1>5. Commits
  <2>1. ASSUME NEW n \in Nodes, NEW h \in 1..(Len(chain[n]) - 1)
        PROVE  FALSE
    <3>1. Len(chain[n]) = 1
      BY Zenon, <1>1
    <3>2. h \in 1..(1 - 1)
      BY Zenon, <3>1
    <3>3. h \in Int /\ 1 <= h /\ h <= 1 - 1
      BY <3>2
    <3> QED  BY <3>3
  <2> QED  BY Zenon, <1>2, <1>3, <2>1 DEF Commits
<1> QED  BY Zenon, <1>4, <1>5 DEF RoundInv

(* All of this in every reachable state.                                     *)
LEMMA RoundInvariant == Spec => [](TypeOK /\ ChainInv /\ RoundInv)
<1> DEFINE I == TypeOK /\ ChainInv /\ RoundInv
<1>1. Init => I
  BY InitTypeOK, InitChainInv, InitRoundInv
<1>2. I /\ [Next]_vars => I'
  <2> SUFFICES ASSUME TypeOK, ChainInv, RoundInv, [Next]_vars
               PROVE  TypeOK' /\ ChainInv' /\ RoundInv'
    OBVIOUS
  <2>1. TypeOK' /\ ChainInv'
    BY NextTypeOK, NextChainInv DEF ChainInv
  <2>2. TxInv'
    BY Zenon, <2>1, NextTxInv DEF RoundInv, TxInv
  <2>3. PoolTxs'
    BY Zenon, NextPoolTxs DEF RoundInv
  <2>4. Commits'
    BY Zenon, <2>1, NextCommits
  <2>5. Creators'
    BY Zenon, NextCreators
  <2> QED  BY SMTT(30), <2>1, <2>2, <2>3, <2>4, <2>5 DEF RoundInv, TxInv
<1> QED  BY <1>1, <1>2, PTL DEF Spec

(* No worker signs two transactions of one kind for one height: it enters   *)
(* doTxCreation once per latest block it has seen.                          *)
THEOREM ValidatorsSignOnce == Spec => []OneTxPerRound
<1>1. RoundInv => OneTxPerRound
  BY Zenon DEF RoundInv
<1> QED  BY <1>1, RoundInvariant, PTL

(* A seed is public only when every participant of its round has published  *)
(* its hash, although doTxCreation's wait only counts transactions.         *)
THEOREM SeedsFollowHashes == Spec => []CommitBeforeReveal
<1>1. TypeOK /\ ChainInv /\ RoundInv => CommitBeforeReveal
  <2> SUFFICES ASSUME TypeOK, ChainInv, RoundInv, NEW n \in Nodes, NEW seedTx \in sentTxs,
                      seedTx.func = "randomSeed", seedTx.nHeight \in 1..Len(chain[n])
               PROVE  \A i \in 1..MinValidators : \E hashTx \in sentTxs :
                        /\ hashTx.func = "randomHash"
                        /\ hashTx.nHeight = seedTx.nHeight
                        /\ hashTx.from = ListAfter(chain[n][seedTx.nHeight])[i]
    BY Zenon DEF CommitBeforeReveal
  <2>1. seedTx.from \in Nodes /\ seedTx.nHeight \in 1..Len(chain[seedTx.from])
    BY Zenon, SentHeights DEF ChainInv, RoundInv
  <2>2. Committed(seedTx.from, seedTx.nHeight)
    BY Zenon DEF RoundInv, Commits
  <2>3. Committed(n, seedTx.nHeight)
    BY SMTT(30), <2>1, <2>2, CommittedAgrees DEF ChainInv
  <2> QED  BY Zenon, <2>3 DEF Committed
<1> QED  BY <1>1, RoundInvariant, PTL

(* addValidatorTx keeps at most two transactions per participant, and       *)
(* processBlock leaves none of a round that is over.                        *)
THEOREM MempoolsAreBounded == Spec => []MempoolBounded
<1>1. TypeOK /\ ChainInv /\ RoundInv => MempoolBounded
  BY Zenon, FullPool DEF RoundInv, PoolTxs, MempoolBounded
<1> QED  BY <1>1, RoundInvariant, PTL

(* A creator that has seen enough transactions orders them, and unless its  *)
(* clock is behind the latest block it signs a block that validateNextBlock *)
(* and pushBack accept.                                                     *)
THEOREM CreatorsSucceed == Spec => []CreatorSucceeds
<1>1. RoundInv => CreatorSucceeds
  BY Zenon DEF RoundInv, Creators, CreatorSucceeds
<1> QED  BY <1>1, RoundInvariant, PTL

=============================================================================
