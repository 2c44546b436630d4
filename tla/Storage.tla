------------------------------ MODULE Storage ------------------------------
(* Storage: the recent chain and its indexes in memory, the two lookup      *)
(* caches, and the database they are loaded from by the constructor and     *)
(* saved to, in four separate writes, by the destructor.  Between any two   *)
(* writes the process may die.  A block stands for its own hash.            *)
EXTENDS Naturals, Sequences, FiniteSets, Functions

CONSTANTS
  Blocks,     \* block hashes
  Genesis,    \* the block initializeBlockchain makes
  Prev,       \* block -> hash of the previous block
  Height,     \* block -> nHeight
  Txs,        \* block -> its transactions, in order
  NoHash,     \* Hash(), a default-constructed hash, and "no entry"
  Depth,      \* the constructor loads the Depth + 1 most recent blocks
  Readers,    \* threads of the P2P and HTTP servers that look things up
  Queries,    \* what they may ask
  MaxCrashes  \* bound on crashes

ASSUME StorageAssumption ==
  /\ Depth \in Nat /\ MaxCrashes \in Nat
  /\ Genesis \in Blocks /\ NoHash \notin Blocks
  /\ Prev \in [Blocks -> Blocks \cup {NoHash}]
  /\ Height \in [Blocks -> Nat] /\ Height[Genesis] = 0
  /\ \A b \in Blocks : Txs[b] \in Seq(Range(Txs[b]))

(* Queries are records: op is "block" or "tx", by says how it is addressed. *)
(* The lookups by index do not test the index: it is that of a transaction. *)
ASSUME QueriesAssumption ==
  \A q \in Queries :
    \/ q.op = "block" /\ q.by = "hash"
    \/ q.op = "block" /\ q.by = "height" /\ q.height \in Nat
    \/ q.op = "tx" /\ q.by = "tx"
    \/ /\ q.op = "tx" /\ q.by = "hash" /\ q.index \in Nat
       /\ q.hash \in Blocks => q.index + 1 \in DOMAIN Txs[q.hash]
    \/ /\ q.op = "tx" /\ q.by = "height" /\ q.height \in Nat /\ q.index \in Nat
       /\ \A b \in Blocks : Height[b] = q.height => q.index + 1 \in DOMAIN Txs[b]

VARIABLES
  phase,    \* where the process is: see Phases
  mem,      \* chain, blockByHash, blockHashByHeight, blockHeightByHash, txByHash
  cache,    \* cachedBlocks and cachedTxs
  db,       \* the prefixes blocks (with the key "latest"), blockHeightMaps, txToBlocks
  batch,    \* the blocks the destructor is saving
  reader,   \* reader[r]: the lookup thread r is in, or has last finished
  crashes

vars == <<phase, mem, cache, db, batch, reader, crashes>>

-----------------------------------------------------------------------------
(* Maps. unordered_map::insert keeps an existing entry; a database put      *)
(* replaces it.                                                             *)

Over(f, g) == [k \in DOMAIN f \cup DOMAIN g |-> IF k \in DOMAIN f THEN f[k] ELSE g[k]]
Entry(k, v) == [x \in {k} |-> v]
Insert(f, k, v) == Over(f, Entry(k, v))
NoEntries == [x \in {} |-> x]

Last(s) == s[Len(s)]

(* The places of the transactions of block b: block hash, index, height.    *)
TxPlaces(b) ==
  [t \in Range(Txs[b]) |->
     [block |-> b, index |-> (CHOOSE i \in DOMAIN Txs[b] : Txs[b][i] = t) - 1,
      height |-> Height[b]]]

AllPlaces(bs) ==
  [t \in UNION {Range(Txs[b]) : b \in bs} |->
     TxPlaces(CHOOSE b \in bs : t \in Range(Txs[b]))[t]]

EmptyMem ==
  [chain |-> <<>>, blockByHash |-> {}, hashByHeight |-> NoEntries,
   heightByHash |-> NoEntries, txByHash |-> NoEntries]
EmptyCache == [blocks |-> {}, txs |-> NoEntries]
EmptyDB == [latest |-> NoHash, blocks |-> {}, heights |-> NoEntries, txs |-> NoEntries]

(* The entry of a block in blockHashByHeight, and a variant one off. *)
HeightAboveEntry(b) == Entry(Height[b] + 1, b)
HeightEntry(b) == Entry(Height[b], b)

(* What pushBackInternal does to the mappings. *)
Indexed(m, b) ==
  [m EXCEPT !.blockByHash = @ \cup {b},
            !.hashByHeight = Over(@, HeightEntry(b)),
            !.heightByHash = Insert(@, b, Height[b]),
            !.txByHash = Over(@, TxPlaces(b))]

-----------------------------------------------------------------------------
(* Constructor and destructor.                                              *)

OnlyDB == UNCHANGED <<mem, cache, batch, reader, crashes>>     \* and phase
OnlyMem == UNCHANGED <<phase, cache, db, batch, reader, crashes>>

Idle == [at |-> "idle"]
ReadersIdle == \A r \in Readers : reader[r].at \in {"idle", "done"}

Closing == {"blocks", "heights", "txs", "latest"}     \* the write to come
Phases == {"off", "new", "mapped", "ready", "on", "failed"} \cup Closing

Init ==
  /\ phase = "off" /\ mem = EmptyMem /\ cache = EmptyCache /\ db = EmptyDB
  /\ batch = <<>> /\ reader = [r \in Readers |-> Idle] /\ crashes = 0

(* initializeBlockchain: three puts when there is no latest block. *)
Start ==
  /\ phase = "off"
  /\ IF db.latest = NoHash
     THEN phase' = "new" /\ db' = [db EXCEPT !.latest = Genesis]
     ELSE phase' = "ready" /\ UNCHANGED db
  /\ OnlyDB

PutGenesisHeight ==
  /\ phase = "new" /\ phase' = "mapped"
  /\ db' = [db EXCEPT !.heights = Over(Entry(0, Genesis), @)]
  /\ OnlyDB

PutGenesis ==
  /\ phase = "mapped" /\ phase' = "ready"
  /\ db' = [db EXCEPT !.blocks = @ \cup {Genesis}]
  /\ OnlyDB

(* The heights of the blocks the constructor loads. *)
Lowest == IF Height[db.latest] > Depth THEN Height[db.latest] - Depth ELSE 0
Recent == Lowest..Height[db.latest]

(* Loading reads block after block backwards from the height of the latest  *)
(* one through the height map; an entry that is missing is an empty string, *)
(* which is no block, and a block that is not the parent of its successor   *)
(* makes pushFrontInternal throw.                                           *)
Loadable ==
  /\ \A h \in Recent : h \in DOMAIN db.heights /\ db.heights[h] \in db.blocks
  /\ \A h \in Recent : h + 1 \in Recent =>
       /\ Prev[db.heights[h + 1]] = db.heights[h]
       /\ Height[db.heights[h + 1]] = Height[db.heights[h]] + 1

LoadedChain == [i \in 1..(Height[db.latest] - Lowest + 1) |-> db.heights[Lowest + i - 1]]

LoadedMem ==
  LET loaded == Range(LoadedChain)
  IN [chain |-> LoadedChain,
      blockByHash |-> loaded,
      hashByHeight |-> db.heights,
      heightByHash |-> [b \in Range(db.heights) |->
                          CHOOSE h \in DOMAIN db.heights : db.heights[h] = b],
      txByHash |-> AllPlaces(loaded)]

Load ==
  /\ phase = "ready"
  /\ IF Loadable
     THEN phase' = "on" /\ mem' = LoadedMem
     ELSE phase' = "failed" /\ UNCHANGED mem
  /\ UNCHANGED <<cache, db, batch, reader, crashes>>

(* The destructor takes the chain apart; the servers have been stopped. *)
Close ==
  /\ phase = "on" /\ ReadersIdle /\ mem.chain # <<>>
  /\ phase' = "blocks"
  /\ batch' = mem.chain
  /\ mem' = EmptyMem /\ cache' = EmptyCache
  /\ reader' = [r \in Readers |-> Idle]
  /\ UNCHANGED <<db, crashes>>

(* Variants of SaveBlocks: only the latest block is saved; only those that  *)
(* the constructor will load are.                                           *)
SaveLatestBlock ==
  /\ phase = "blocks" /\ phase' = "heights"
  /\ db' = [db EXCEPT !.blocks = @ \cup {Last(batch)}]
  /\ OnlyDB
SaveRecentBlocks ==
  /\ phase = "blocks" /\ phase' = "heights"
  /\ db' = [db EXCEPT !.blocks = @ \cup {batch[i] : i \in {k \in DOMAIN batch : k + Depth >= Len(batch)}}]
  /\ OnlyDB

SaveBlocks ==
  /\ phase = "blocks" /\ phase' = "heights"
  /\ db' = [db EXCEPT !.blocks = @ \cup Range(batch)]
  /\ OnlyDB

(* Variant of SaveHeights: key and value are swapped. *)
SaveHeightsByHash ==
  /\ phase = "heights" /\ phase' = "txs"
  /\ db' = [db EXCEPT !.heights = Over([b \in Range(batch) |-> Height[b]], @)]
  /\ OnlyDB

SaveHeights ==
  /\ phase = "heights" /\ phase' = "txs"
  /\ db' = [db EXCEPT !.heights =
       Over([h \in {Height[b] : b \in Range(batch)} |->
               CHOOSE b \in Range(batch) : Height[b] = h], @)]
  /\ OnlyDB

SaveTxs ==
  /\ phase = "txs" /\ phase' = "latest"
  /\ db' = [db EXCEPT !.txs = Over(AllPlaces(Range(batch)), @)]
  /\ OnlyDB

(* Variant of SaveLatest: the wrong end of the batch. *)
SaveOldest ==
  /\ phase = "latest" /\ phase' = "off"
  /\ db' = [db EXCEPT !.latest = Head(batch)]
  /\ batch' = <<>>
  /\ UNCHANGED <<mem, cache, reader, crashes>>

SaveLatest ==
  /\ phase = "latest" /\ phase' = "off"
  /\ db' = [db EXCEPT !.latest = Last(batch)]
  /\ batch' = <<>>
  /\ UNCHANGED <<mem, cache, reader, crashes>>

(* The process dies; nothing but the database remains. *)
Die ==
  /\ crashes < MaxCrashes
  /\ phase' = "off" /\ crashes' = crashes + 1
  /\ mem' = EmptyMem /\ cache' = EmptyCache /\ batch' = <<>>
  /\ reader' = [r \in Readers |-> Idle]
  /\ UNCHANGED db

Crash == phase \notin {"off", "failed"} /\ Die

-----------------------------------------------------------------------------
(* The chain. *)

PushBack(b) ==
  /\ phase = "on"
  /\ mem.chain # <<>> => /\ Prev[b] = Last(mem.chain)
                         /\ Height[b] = Height[Last(mem.chain)] + 1
  /\ mem' = Indexed([mem EXCEPT !.chain = Append(@, b)], b)
  /\ OnlyMem

-----------------------------------------------------------------------------
(* Lookups.  A thread first finds out where the thing is, then takes the    *)
(* lock that goes with the answer, then reads there.                        *)

NoTx == [tx |-> NoHash, block |-> NoHash, index |-> 0, height |-> 0]
Found(t, p) == [tx |-> t, block |-> p.block, index |-> p.index, height |-> p.height]

(* getTxFromBlockWithIndex. *)
TxAt(place) == Txs[place.block][place.index + 1]

BlockExists(b) ==
  CASE b \in mem.blockByHash -> "OnChain"
    [] b \notin mem.blockByHash /\ b \in cache.blocks -> "OnCache"
    [] b \notin mem.blockByHash \cup cache.blocks /\ b \in db.blocks -> "OnDB"
    [] OTHER -> "NotFound"

BlockExistsAt(h) ==
  IF h \notin DOMAIN mem.hashByHeight THEN "NotFound"
  ELSE LET b == mem.hashByHeight[h] IN
       CASE b \in mem.blockByHash -> "OnChain"
         [] b \notin mem.blockByHash /\ b \in cache.blocks -> "OnCache"
         [] OTHER -> "OnDB"

TxExists(t) ==
  CASE t \in DOMAIN mem.txByHash -> "OnChain"
    [] t \notin DOMAIN mem.txByHash /\ t \in DOMAIN cache.txs -> "OnCache"
    [] t \notin DOMAIN mem.txByHash \cup DOMAIN cache.txs /\ t \in DOMAIN db.txs -> "OnDB"
    [] OTHER -> "NotFound"

StatusOf(q) ==
  CASE q.by = "hash" -> BlockExists(q.hash)
    [] q.by = "height" -> BlockExistsAt(q.height)
    [] q.by = "tx" -> TxExists(q.tx)

Ask(r, q) ==
  /\ phase = "on" /\ reader[r].at \in {"idle", "done"}
  /\ reader' = [reader EXCEPT ![r] = [at |-> "asked", q |-> q, status |-> StatusOf(q)]]
  /\ UNCHANGED <<phase, mem, cache, db, batch, crashes>>

(* getTx locks temporaries, which are unlocked at once. *)
Locks(r) ==
  CASE reader[r].q.by = "tx" -> "none"
    [] reader[r].q.by # "tx" /\ reader[r].status = "OnCache" -> "shared"
    [] reader[r].q.by # "tx" /\ reader[r].status = "OnDB" -> "unique"
    [] OTHER -> "none"

Inside(r) == reader[r].at = "inside"

Enter(r) ==
  /\ reader[r].at = "asked"
  /\ \A s \in Readers \ {r} : Inside(s) =>
       /\ Locks(s) = "unique" => Locks(r) = "none"
       /\ Locks(r) = "unique" => Locks(s) = "none"
  /\ reader' = [reader EXCEPT ![r].at = "inside"]
  /\ UNCHANGED <<phase, mem, cache, db, batch, crashes>>

Answer(r, result) ==
  reader' = [reader EXCEPT ![r] = [at |-> "done", q |-> @.q, status |-> @.status, result |-> result]]

HashIn(q) == IF q.by = "height" THEN mem.hashByHeight[q.height] ELSE q.hash

GetBlock(r) ==
  LET q == reader[r].q
      st == reader[r].status
  IN /\ Inside(r) /\ q.op = "block"
     /\ Answer(r, CASE st = "NotFound" -> NoHash
                    [] st = "OnDB" /\ HashIn(q) \notin db.blocks -> "throws"
                    [] OTHER -> HashIn(q))
     /\ cache' = IF st = "OnDB" /\ HashIn(q) \in db.blocks
                 THEN [cache EXCEPT !.blocks = @ \cup {HashIn(q)}] ELSE cache
     /\ UNCHANGED <<phase, mem, db, batch, crashes>>

GetTx(r) ==
  LET t == reader[r].q.tx
      st == reader[r].status
      place == db.txs[t]
      txs == Insert(cache.txs, t, Found(TxAt(place), place))
  IN /\ Inside(r) /\ reader[r].q.by = "tx"
     /\ Answer(r, CASE st = "NotFound" -> NoTx
                    [] st = "OnChain" -> Found(t, mem.txByHash[t])
                    [] st = "OnCache" -> cache.txs[t]
                    [] st = "OnDB" -> txs[t])
     /\ cache' = IF st = "OnDB" THEN [cache EXCEPT !.txs = txs] ELSE cache
     /\ UNCHANGED <<phase, mem, db, batch, crashes>>

(* getTxByBlockHashAndIndex and getTxByBlockNumberAndIndex. operator[]      *)
(* inserts a default entry for a key that is not there.  By hash, a         *)
(* transaction whose recorded place is another one is an exception: no      *)
(* answer.                                                                  *)
GetTxInBlock(r) ==
  LET q == reader[r].q
      st == reader[r].status
      b == HashIn(q)
      t == Txs[b][q.index + 1]
      mismatch == /\ st = "OnChain" /\ q.by = "hash"
                  /\ \/ mem.txByHash[t].block # b
                     \/ mem.txByHash[t].index # q.index
      heights == Insert(mem.heightByHash, b, 0)
      fromCache == Insert(cache.txs, t, NoTx)
      fromDB == Insert(cache.txs, t,
                  Found(t, [block |-> b, index |-> q.index, height |-> heights[b]]))
  IN /\ Inside(r) /\ q.op = "tx" /\ q.by # "tx"
     /\ Answer(r, CASE st = "NotFound" \/ mismatch -> NoTx
                    [] st = "OnChain" /\ ~mismatch -> Found(t, mem.txByHash[t])
                    [] st = "OnCache" -> fromCache[t]
                    [] st = "OnDB" -> fromDB[t])
     /\ cache' = CASE st = "OnCache" -> [cache EXCEPT !.txs = fromCache]
                   [] st = "OnDB" -> [cache EXCEPT !.txs = fromDB]
                   [] OTHER -> cache
     /\ mem' = IF st = "OnDB" THEN [mem EXCEPT !.heightByHash = heights] ELSE mem
     /\ UNCHANGED <<phase, db, batch, crashes>>

-----------------------------------------------------------------------------
ReaderStep(r) ==
  \/ \E q \in Queries : Ask(r, q)
  \/ Enter(r)
  \/ GetBlock(r)
  \/ GetTx(r)
  \/ GetTxInBlock(r)

LifeStep ==
  \/ Start \/ PutGenesisHeight \/ PutGenesis \/ Load
  \/ Close \/ SaveBlocks \/ SaveHeights \/ SaveTxs \/ SaveLatest
  \/ Crash

(* What the node does; pushFront, popBack and popFront have no caller.      *)
Next ==
  \/ LifeStep
  \/ \E b \in Blocks : PushBack(b)
  \/ \E r \in Readers : ReaderStep(r)

Spec == Init /\ [][Next]_vars

-----------------------------------------------------------------------------
(* Properties.                                                              *)

(* The chain of the node, and the chain the database would give back: the   *)
(* part that is in memory (or being saved), below it the height map of the  *)
(* database.                                                                *)
DbAt(h) == IF h \in DOMAIN db.heights THEN db.heights[h] ELSE Genesis
DbTip == IF db.latest = NoHash THEN Genesis ELSE db.latest
Held == IF phase = "on" THEN mem.chain ELSE batch
Tip == IF Held = <<>> THEN DbTip ELSE Last(Held)
Log ==
  LET n == Height[Tip] + 1
  IN [i \in 1..n |-> IF i > n - Len(Held) THEN Held[i + Len(Held) - n] ELSE DbAt(i - 1)]
SavedLog == [i \in 1..Height[DbTip] + 1 |-> DbAt(i - 1)]

ChainStore == INSTANCE ChainStore WITH log <- Log, saved <- SavedLog

(* Storage implements ChainStore: whichever of the writes of the            *)
(* constructor and the destructor the process dies between, the node comes  *)
(* back with exactly the chain of its last complete shutdown.               *)
ImplementsChainStore == ChainStore!Spec

(* Once the genesis block has been written, the constructor can load what   *)
(* is in the database, after a crash at any point of any later shutdown.    *)
InitializedLoads == Genesis \in db.blocks => phase # "failed"

(* Refuted by TLC (README, Disagreements): the constructor loads the chain, *)
(* whatever happened before.                                                *)
ConstructorLoads == phase # "failed"

(* Refuted by TLC (README, Disagreements): blockHashByHeight gives, for     *)
(* every height of the chain, the block of the chain: getBlock(height) and  *)
(* the RPC methods that take a number use it.                               *)
HeightsIndexChain ==
  phase = "on" =>
    \A i \in 1..Len(Log) :
      i - 1 \in DOMAIN mem.hashByHeight /\ mem.hashByHeight[i - 1] = Log[i]

(* A block or transaction that a lookup returns is in the chain, at the     *)
(* place the lookup says, wherever (chain, cache, database) it was found.   *)
AnswersAreFromChain ==
  \A r \in Readers : reader[r].at = "done" =>
    LET q == reader[r].q
        res == reader[r].result
    IN IF q.op = "block"
       THEN res # NoHash => /\ \E i \in 1..Len(Log) : Log[i] = res
                            /\ q.by = "height" => Log[q.height + 1] = res
       ELSE res # NoTx => /\ res.height + 1 \in 1..Len(Log)
                          /\ Log[res.height + 1] = res.block
                          /\ Txs[res.block][res.index + 1] = res.tx
                          /\ q.by = "tx" => res.tx = q.tx

(* A block of the chain is found by its hash from the moment it is pushed,  *)
(* and after every restart, however old it is.                              *)
BlocksAreFound ==
  phase = "on" => \A i \in 1..Len(Log) : BlockExists(Log[i]) # "NotFound"

(* Refuted by TLC (README, Disagreements): a lookup that knows where a      *)
(* transaction is returns it.                                               *)
TransactionsAreFound ==
  \A r \in Readers :
    (reader[r].at = "done" /\ reader[r].q.op = "tx" /\ reader[r].status # "NotFound")
      => reader[r].result # NoTx

InTxCache(r) ==
  Inside(r) /\ reader[r].q.op = "tx" /\ reader[r].status \in {"OnCache", "OnDB"}

(* Refuted by TLC (README, Disagreements): cacheLock manages access to the  *)
(* cache, so that no thread is in the transaction cache while another one   *)
(* inserts into it.                                                         *)
CacheAccessIsExclusive ==
  \A r, s \in Readers :
    (r # s /\ InTxCache(r) /\ InTxCache(s)) => reader[r].status # "OnDB"

(* Types. *)
Place == [block : Blocks, index : Nat, height : Nat]
TypeOK ==
  /\ phase \in Phases
  /\ mem.chain \in Seq(Blocks) /\ batch \in Seq(Blocks)
  /\ mem.blockByHash \subseteq Blocks /\ cache.blocks \subseteq Blocks
  /\ db.blocks \subseteq Blocks /\ db.latest \in Blocks \cup {NoHash}
  /\ Range(mem.hashByHeight) \cup Range(db.heights) \subseteq Blocks
  /\ DOMAIN mem.hashByHeight \cup DOMAIN db.heights \subseteq Nat
  /\ Range(mem.txByHash) \cup Range(db.txs) \subseteq Place
  /\ crashes \in 0..MaxCrashes
=============================================================================
