--------------------------- MODULE StorageProofs ---------------------------
(***************************************************************************)
(* Proofs about Storage.tla and Shutdown.tla for every set of blocks, every*)
(* depth of the chain in memory and any number of crashes.  Storage, alone *)
(* and in the node: it is a durable store of a chain, and no block is      *)
(* lost.  The node: accounts and nonces never fall behind the chain.  Last *)
(* what starts and shutdowns do to the lookups; LookupProofs has the rest. *)
(***************************************************************************)
EXTENDS Shutdown, TLAPS

-----------------------------------------------------------------------------
(* The inductive invariant. *)

(* What the maps and records hold. *)
Shape ==
  /\ phase \in Phases
  /\ DOMAIN mem = {"chain", "blockByHash", "hashByHeight", "heightByHash", "txByHash"}
  /\ DOMAIN db = {"latest", "blocks", "heights", "txs"}
  /\ mem.chain \in Seq(Blocks) /\ batch \in Seq(Blocks)
  /\ db.latest \in Blocks \cup {NoHash}
  /\ \A h \in DOMAIN db.heights : h \in Nat /\ db.heights[h] \in Blocks
  /\ crashes \in Nat

(* The height map leads from the latest block of the database to genesis,   *)
(* and once genesis is written all blocks on the way are.                   *)
DbChain ==
  /\ DbAt(0) = Genesis
  /\ DbAt(Height[DbTip]) = DbTip
  /\ \A h \in 1..Height[DbTip] :
       /\ h \in DOMAIN db.heights
       /\ Height[db.heights[h]] = h
       /\ Prev[db.heights[h]] = DbAt(h - 1)
  /\ Height[DbTip] > 0 => Genesis \in db.blocks
  /\ Genesis \in db.blocks =>
       \A h \in 0..Height[DbTip] : h \in DOMAIN db.heights /\ db.heights[h] \in db.blocks

(* initializeBlockchain. *)
Starting ==
  /\ phase \in {"new", "mapped"} => db.latest = Genesis
  /\ phase = "mapped" => 0 \in DOMAIN db.heights
  /\ phase = "ready" => db.latest # NoHash

(* A chain in memory, or the batch it has become, starts in the chain of    *)
(* the database, follows it to its end, and goes on from there.             *)
Holding == {"on"} \cup Closing

HeldChain ==
  /\ phase \notin Holding => batch = <<>>
  /\ phase \in Holding =>
       /\ Held # <<>>
       /\ db.latest # NoHash
       /\ Genesis \in db.blocks
       /\ \A i \in 1..Len(Held) : Height[Held[i]] = Height[Held[1]] + i - 1
       /\ \A i \in 1..(Len(Held) - 1) : Prev[Held[i + 1]] = Held[i]
       /\ Height[DbTip] \in Height[Held[1]]..Height[Last(Held)]
       /\ \A i \in 1..Len(Held) :
            Height[Held[i]] <= Height[DbTip] => Held[i] = DbAt(Height[Held[i]])

(* What has been written of it. *)
Saving ==
  /\ phase = "on" => Range(mem.chain) \subseteq mem.blockByHash
  /\ phase \in {"heights", "txs", "latest"} => Range(batch) \subseteq db.blocks
  /\ phase \in {"txs", "latest"} =>
       \A i \in 1..Len(batch) :
         /\ Height[batch[i]] \in DOMAIN db.heights
         /\ db.heights[Height[batch[i]]] = batch[i]

StorageInv ==
  /\ Shape
  /\ DbChain
  /\ Starting
  /\ HeldChain
  /\ Saving

-----------------------------------------------------------------------------
(* Facts about the maps and the chains. *)

(* A database put or an insertion of several entries. *)
LEMMA OverFacts ==
  ASSUME NEW f, NEW g
  PROVE  /\ DOMAIN Over(f, g) = DOMAIN f \cup DOMAIN g
         /\ \A k \in DOMAIN f : Over(f, g)[k] = f[k]
         /\ \A k \in DOMAIN g \ DOMAIN f : Over(f, g)[k] = g[k]
BY Zenon DEF Over

(* The chain of the database consists of blocks. *)
LEMMA DbFacts ==
  ASSUME Shape
  PROVE  /\ DbTip \in Blocks /\ Height[DbTip] \in Nat
         /\ \A h : DbAt(h) \in Blocks
BY Zenon, StorageAssumption DEF Shape, DbTip, DbAt

(* The chain in memory. *)
LEMMA HeldFacts ==
  ASSUME Shape, HeldChain, phase \in Holding
  PROVE  /\ Held \in Seq(Blocks) /\ Len(Held) \in Nat \ {0}
         /\ \A i \in 1..Len(Held) : Held[i] \in Blocks /\ Height[Held[i]] \in Nat
         /\ Height[Held[1]] \in Nat
         /\ Last(Held) = Held[Len(Held)] /\ Last(Held) \in Blocks
         /\ Height[Last(Held)] = Height[Held[1]] + Len(Held) - 1
<1>1. Held \in Seq(Blocks) /\ Held # <<>>
  BY Zenon DEF Shape, HeldChain, Held
<1>2. Len(Held) \in Nat \ {0} /\ \A i \in 1..Len(Held) : Held[i] \in Blocks
  BY <1>1
<1>3. \A b \in Blocks : Height[b] \in Nat
  BY Zenon, StorageAssumption
<1>4. Last(Held) = Held[Len(Held)]
  BY Zenon DEF Last
<1>5. 1 \in 1..Len(Held) /\ Len(Held) \in 1..Len(Held)
  BY <1>2
<1>6. Height[Held[Len(Held)]] = Height[Held[1]] + Len(Held) - 1
  BY Zenon, <1>5 DEF HeldChain
<1> QED  BY Zenon, <1>1, <1>2, <1>3, <1>4, <1>5, <1>6

(* The chain of the node, entry by entry. *)
LEMMA LogHolding ==
  ASSUME Shape, HeldChain, phase \in Holding
  PROVE  Log = [i \in 1..(Height[Held[1]] + Len(Held)) |->
                  IF i > Height[Held[1]] THEN Held[i - Height[Held[1]]] ELSE DbAt(i - 1)]
<1> DEFINE h1 == Height[Held[1]]
           n == Height[Tip] + 1
<1>1. h1 \in Nat /\ Len(Held) \in Nat \ {0} /\ Height[Last(Held)] = h1 + Len(Held) - 1
  BY Zenon, HeldFacts
<1>2. Tip = Last(Held)
  BY Zenon DEF Tip, HeldChain
<1>3. n = h1 + Len(Held) /\ n - Len(Held) = h1 /\ \A i \in 1..n : i + Len(Held) - n = i - h1
  BY SMTT(30), <1>1, <1>2
<1>4. Log = [i \in 1..n |-> IF i > n - Len(Held) THEN Held[i + Len(Held) - n] ELSE DbAt(i - 1)]
  BY Zenon DEF Log
<1> HIDE DEF n, h1
<1>5. Log = [i \in 1..n |-> IF i > h1 THEN Held[i - h1] ELSE DbAt(i - 1)]
  <2>1. ASSUME NEW i \in 1..n
        PROVE  (IF i > n - Len(Held) THEN Held[i + Len(Held) - n] ELSE DbAt(i - 1))
                 = IF i > h1 THEN Held[i - h1] ELSE DbAt(i - 1)
    BY Zenon, <1>3
  <2> QED  BY Zenon, <1>4, <2>1
<1> QED  BY Zenon, <1>3, <1>5 DEF h1

(* Without one it is the chain of the database. *)
LEMMA LogNotHolding ==
  ASSUME Shape, HeldChain, phase \notin Holding
  PROVE  Log = SavedLog /\ Tip = DbTip
<1>1. Held = <<>> /\ Len(Held) = 0
  BY Zenon DEF HeldChain, Holding, Held
<1>2. Tip = DbTip /\ Height[Tip] + 1 \in Nat
  BY <1>1, DbFacts DEF Tip
<1> DEFINE n == Height[Tip] + 1
<1>3. Log = [i \in 1..n |-> IF i > n - Len(Held) THEN Held[i + Len(Held) - n] ELSE DbAt(i - 1)]
  BY Zenon DEF Log
<1>4. Log = [i \in 1..n |-> DbAt(i - 1)]
  <2>1. \A i \in 1..n : ~(i > n - Len(Held))
    BY <1>1, <1>2
  <2> QED  BY Zenon, <1>3, <2>1
<1> QED  BY Zenon, <1>2, <1>4 DEF SavedLog

(* Log in terms of what is held and of the database, in every state. *)
LogForm ==
  /\ phase \in Holding =>
       Log = [i \in 1..(Height[Held[1]] + Len(Held)) |->
                IF i > Height[Held[1]] THEN Held[i - Height[Held[1]]] ELSE DbAt(i - 1)]
  /\ phase \notin Holding => Log = SavedLog /\ Tip = DbTip

(* The same as a fact about every state, to use in the next one.             *)
LEMMA LogAlways == [](Shape /\ HeldChain => LogForm)
<1>1. Shape /\ HeldChain => LogForm
  BY Zenon, LogHolding, LogNotHolding DEF LogForm
<1> QED  BY <1>1, PTL

(* Chains depend on what is held and on the chain of the database. *)
LEMMA LogFrame ==
  ASSUME Shape, HeldChain, Held' = Held, DbTip' = DbTip,
         \A h \in Nat : DbAt(h)' = DbAt(h)
  PROVE  Log' = Log /\ SavedLog' = SavedLog
<1> DEFINE n == Height[Tip] + 1
<1>1. Tip' = Tip
  BY Zenon DEF Tip
<1>2. n \in Nat
  BY SMTT(30), DbFacts, HeldFacts, LogNotHolding DEF Tip, HeldChain
<1>3. \A i \in 1..n : DbAt(i - 1)' = DbAt(i - 1)
  <2>1. \A i \in 1..n : i - 1 \in Nat
    BY <1>2
  <2> QED  BY Zenon, <2>1
<1>4. Log' = Log
  <2>1. Log = [i \in 1..n |-> IF i > n - Len(Held) THEN Held[i + Len(Held) - n] ELSE DbAt(i - 1)]
    BY Zenon DEF Log
  <2>2. Log' = [i \in 1..n |-> IF i > n - Len(Held) THEN Held[i + Len(Held) - n] ELSE DbAt(i - 1)']
    BY Zenon, <1>1 DEF Log
  <2> HIDE DEF n
  <2> QED  BY Zenon, <1>3, <2>1, <2>2
<1>5. SavedLog' = SavedLog
  <2>1. \A i \in 1..(Height[DbTip] + 1) : i - 1 \in Nat
    BY DbFacts
  <2>2. SavedLog = [i \in 1..(Height[DbTip] + 1) |-> DbAt(i - 1)]
    BY Zenon DEF SavedLog
  <2>3. SavedLog' = [i \in 1..(Height[DbTip] + 1) |-> DbAt(i - 1)']
    BY Zenon DEF SavedLog
  <2> QED  BY Zenon, <2>1, <2>2, <2>3
<1> QED  BY Zenon, <1>4, <1>5

-----------------------------------------------------------------------------
(* The steps of Storage, one after the other. *)

(* Lookups move nothing but the reader, the caches and heightByHash. *)
LEMMA FrameStep ==
  ASSUME StorageInv, UNCHANGED <<phase, batch, db, crashes>>,
         DOMAIN mem' = DOMAIN mem, mem'.chain = mem.chain,
         mem'.blockByHash = mem.blockByHash
  PROVE  StorageInv' /\ Log' = Log /\ SavedLog' = SavedLog
<1>1. /\ Held' = Held /\ DbTip' = DbTip
      /\ \A h \in Nat : DbAt(h)' = DbAt(h)
  BY Zenon DEF Held, DbTip, DbAt
<1>2. Log' = Log /\ SavedLog' = SavedLog
  BY Zenon, <1>1, LogFrame DEF StorageInv
<1>3. Shape' /\ Starting' /\ Saving'
  BY Zenon DEF StorageInv, Shape, Starting, Saving
<1>4. DbChain'
  BY Zenon DEF StorageInv, DbChain, DbAt, DbTip
<1>5. HeldChain'
  BY Zenon, <1>1 DEF StorageInv, HeldChain, DbAt
<1> QED  BY Zenon, <1>2, <1>3, <1>4, <1>5 DEF StorageInv

(* The steps of a lookup.                                                    *)
LEMMA ReaderInv ==
  ASSUME StorageInv, NEW r \in Readers, ReaderStep(r)
  PROVE  StorageInv' /\ Log' = Log /\ SavedLog' = SavedLog /\ UNCHANGED crashes
<1>1. UNCHANGED <<phase, batch, db, crashes>>
  BY Zenon DEF ReaderStep, Ask, Enter, GetBlock, GetTx, GetTxInBlock
<1>2. mem' = mem \/ \E f : mem' = [mem EXCEPT !.heightByHash = f]
  BY Zenon DEF ReaderStep, Ask, Enter, GetBlock, GetTx, GetTxInBlock
<1>3. /\ DOMAIN mem' = DOMAIN mem /\ mem'.chain = mem.chain
      /\ mem'.blockByHash = mem.blockByHash
  BY Zenon, <1>2 DEF StorageInv, Shape
<1> QED  BY Zenon, <1>1, <1>3, FrameStep

(* The constructor finds a database or makes one.                            *)
LEMMA StartInv ==
  ASSUME StorageInv, Start
  PROVE  StorageInv' /\ Log' = Log /\ SavedLog' = SavedLog /\ UNCHANGED crashes
<1>1. /\ phase = "off" /\ UNCHANGED <<mem, batch, crashes>>
      /\ \/ db.latest = NoHash /\ phase' = "new" /\ db' = [db EXCEPT !.latest = Genesis]
         \/ db.latest # NoHash /\ phase' = "ready" /\ db' = db
  BY Zenon DEF Start, OnlyDB
<1>2. /\ DOMAIN db' = DOMAIN db /\ db'.heights = db.heights /\ db'.blocks = db.blocks
      /\ db'.latest = IF db.latest = NoHash THEN Genesis ELSE db.latest
  BY Zenon, <1>1 DEF StorageInv, Shape
<1>3. /\ DbTip' = DbTip /\ \A h : DbAt(h)' = DbAt(h)
  BY Zenon, <1>2, StorageAssumption DEF DbTip, DbAt
<1>4. Held' = Held /\ phase \notin Holding /\ phase' \notin Holding
  BY Zenon, <1>1 DEF Held, Holding, Closing
<1>5. Shape'
  BY Zenon, <1>1, <1>2, StorageAssumption DEF StorageInv, Shape, Phases
<1>6. DbChain'
  BY Zenon, <1>2, <1>3 DEF StorageInv, DbChain
<1>7. Starting' /\ HeldChain' /\ Saving'
  BY Zenon, <1>1, <1>2, <1>4 DEF StorageInv, Starting, HeldChain, Saving, Holding, Closing
<1> QED  BY Zenon, <1>1, <1>3, <1>4, <1>5, <1>6, <1>7, LogFrame DEF StorageInv

(* The genesis block enters the height map.                                  *)
LEMMA PutGenesisHeightInv ==
  ASSUME StorageInv, PutGenesisHeight
  PROVE  StorageInv' /\ Log' = Log /\ SavedLog' = SavedLog /\ UNCHANGED crashes
<1> DEFINE heights == Over(Entry(0, Genesis), db.heights)
<1>1. /\ phase = "new" /\ phase' = "mapped" /\ UNCHANGED <<mem, batch, crashes>>
      /\ db' = [db EXCEPT !.heights = heights]
  BY Zenon DEF PutGenesisHeight, OnlyDB
<1>2. /\ DOMAIN db' = DOMAIN db /\ db'.heights = heights /\ db'.blocks = db.blocks
      /\ db'.latest = db.latest
  BY Zenon, <1>1 DEF StorageInv, Shape
<1>3. DOMAIN Entry(0, Genesis) = {0} /\ Entry(0, Genesis)[0] = Genesis
  BY Zenon DEF Entry
<1>4. /\ DOMAIN heights = {0} \cup DOMAIN db.heights /\ heights[0] = Genesis
      /\ \A h \in DOMAIN db.heights \ {0} : heights[h] = db.heights[h]
  <2> DEFINE e == Entry(0, Genesis)
  <2> HIDE DEF e
  <2>1. /\ DOMAIN Over(e, db.heights) = DOMAIN e \cup DOMAIN db.heights
        /\ \A k \in DOMAIN e : Over(e, db.heights)[k] = e[k]
        /\ \A k \in DOMAIN db.heights \ DOMAIN e : Over(e, db.heights)[k] = db.heights[k]
    BY Zenon, OverFacts
  <2>2. DOMAIN e = {0} /\ e[0] = Genesis /\ heights = Over(e, db.heights)
    BY Zenon, <1>3 DEF e
  <2> HIDE DEF heights
  <2> QED  BY Zenon, <2>1, <2>2
<1> HIDE DEF heights
<1>5. db.latest = Genesis /\ DbTip = Genesis /\ DbTip' = Genesis /\ Height[Genesis] = 0
  BY Zenon, <1>1, <1>2, StorageAssumption DEF StorageInv, Starting, DbTip
<1>6. DbAt(0) = Genesis /\ \A h : DbAt(h)' = DbAt(h)
  BY <1>2, <1>4 DEF StorageInv, DbChain, DbAt
<1>7. Held' = Held /\ phase \notin Holding /\ phase' \notin Holding
  BY Zenon, <1>1 DEF Held, Holding, Closing
<1>8. Shape'
  BY SMTT(30), <1>1, <1>2, <1>4, StorageAssumption DEF StorageInv, Shape, Phases
<1>9. DbChain'
  <2>1. DbAt(0)' = Genesis /\ DbAt(Height[DbTip])' = DbTip'
    BY Zenon, <1>5, <1>6
  <2>2. \A h \in 1..Height[DbTip'] : FALSE
    BY <1>5
  <2>3. \A h \in 0..Height[DbTip'] : h = 0
    BY <1>5
  <2>4. ~(Height[DbTip'] > 0)
    BY <1>5
  <2> QED  BY Zenon, <1>2, <1>4, <2>1, <2>2, <2>3, <2>4 DEF DbChain
<1>10. Starting' /\ HeldChain' /\ Saving'
  BY Zenon, <1>1, <1>2, <1>4, <1>7 DEF StorageInv, Starting, HeldChain, Saving, Holding, Closing
<1> QED  BY Zenon, <1>1, <1>5, <1>6, <1>7, <1>8, <1>9, <1>10, LogFrame DEF StorageInv

(* The genesis block is written.                                             *)
LEMMA PutGenesisInv ==
  ASSUME StorageInv, PutGenesis
  PROVE  StorageInv' /\ Log' = Log /\ SavedLog' = SavedLog /\ UNCHANGED crashes
<1>1. /\ phase = "mapped" /\ phase' = "ready" /\ UNCHANGED <<mem, batch, crashes>>
      /\ db' = [db EXCEPT !.blocks = db.blocks \cup {Genesis}]
  BY Zenon DEF PutGenesis, OnlyDB
<1>2. /\ DOMAIN db' = DOMAIN db /\ db'.heights = db.heights
      /\ db'.blocks = db.blocks \cup {Genesis} /\ db'.latest = db.latest
  BY Zenon, <1>1 DEF StorageInv, Shape
<1>3. db.latest = Genesis /\ DbTip = Genesis /\ DbTip' = Genesis /\ Height[Genesis] = 0
  BY Zenon, <1>1, <1>2, StorageAssumption DEF StorageInv, Starting, DbTip
<1>4. DbAt(0) = Genesis /\ \A h : DbAt(h)' = DbAt(h)
  BY Zenon, <1>2 DEF StorageInv, DbChain, DbAt
<1>5. Held' = Held /\ phase \notin Holding /\ phase' \notin Holding
  BY Zenon, <1>1 DEF Held, Holding, Closing
<1>6. Shape'
  BY Zenon, <1>1, <1>2, StorageAssumption DEF StorageInv, Shape, Phases
<1>7. DbChain'
  <2>1. DbAt(0)' = Genesis /\ DbAt(Height[DbTip])' = DbTip'
    BY Zenon, <1>3, <1>4
  <2>2. \A h \in 1..Height[DbTip'] : FALSE
    BY <1>3
  <2>3. \A h \in 0..Height[DbTip'] : h = 0
    BY <1>3
  <2>4. ~(Height[DbTip'] > 0)
    BY <1>3
  <2>5. 0 \in DOMAIN db.heights /\ db.heights[0] = Genesis
    BY Zenon, <1>1, <1>4 DEF StorageInv, Starting, DbAt
  <2> QED  BY SMTT(30), <1>2, <2>1, <2>2, <2>3, <2>4, <2>5 DEF DbChain
<1>8. Starting' /\ HeldChain' /\ Saving'
  BY Zenon, <1>1, <1>2, <1>3, <1>5, StorageAssumption
     DEF StorageInv, Starting, HeldChain, Saving, Holding, Closing
<1> QED  BY Zenon, <1>1, <1>3, <1>4, <1>5, <1>6, <1>7, <1>8, LogFrame DEF StorageInv

(* The blocks of the chain of the database have the heights they are kept   *)
(* under.                                                                   *)
LEMMA DbHeights ==
  ASSUME Shape, DbChain
  PROVE  \A h \in 0..Height[DbTip] : Height[DbAt(h)] = h
<1>1. Height[DbTip] \in Nat
  BY Zenon, DbFacts
<1>2. ASSUME NEW h \in 0..Height[DbTip], h # 0
      PROVE  Height[DbAt(h)] = h
  <2>1. h \in 1..Height[DbTip]
    BY <1>1, <1>2
  <2> QED  BY Zenon, <2>1 DEF DbChain, DbAt
<1>3. Height[DbAt(0)] = 0
  BY Zenon, StorageAssumption DEF DbChain
<1> QED  BY Zenon, <1>2, <1>3

(* The constructor finds the latest blocks of the chain of the database.    *)
LEMMA LoadFacts ==
  ASSUME StorageInv, phase = "ready"
  PROVE  /\ db.latest = DbTip /\ Height[DbTip] \in Nat /\ Lowest \in 0..Height[DbTip]
         /\ Genesis \in db.blocks => Loadable
         /\ Loadable => /\ Genesis \in db.blocks
                        /\ \A h \in Recent : db.heights[h] = DbAt(h)
<1>1. db.latest = DbTip /\ Height[DbTip] \in Nat
  BY Zenon, DbFacts DEF StorageInv, Starting, DbTip
<1>2. Lowest \in 0..Height[DbTip] /\ Recent = Lowest..Height[DbTip]
  BY <1>1, StorageAssumption DEF Lowest, Recent
<1>3. ASSUME Genesis \in db.blocks PROVE Loadable
  <2>1. \A h \in 0..Height[DbTip] :
          h \in DOMAIN db.heights /\ db.heights[h] \in db.blocks /\ db.heights[h] = DbAt(h)
    BY Zenon, <1>3 DEF StorageInv, DbChain, DbAt
  <2>2. ASSUME NEW h \in Recent, h + 1 \in Recent
        PROVE  /\ Prev[db.heights[h + 1]] = db.heights[h]
               /\ Height[db.heights[h + 1]] = Height[db.heights[h]] + 1
    <3>1. /\ h \in 0..Height[DbTip] /\ h + 1 \in 0..Height[DbTip]
          /\ h + 1 \in 1..Height[DbTip] /\ (h + 1) - 1 = h
      BY <1>1, <1>2, <2>2
    <3>2. Height[DbAt(h)] = h /\ Height[DbAt(h + 1)] = h + 1
      BY Zenon, <3>1, DbHeights DEF StorageInv
    <3>3. Prev[db.heights[h + 1]] = DbAt((h + 1) - 1)
      BY Zenon, <3>1 DEF StorageInv, DbChain
    <3> QED  BY Zenon, <2>1, <3>1, <3>2, <3>3
  <2>3. \A h \in Recent : h \in 0..Height[DbTip]
    BY <1>1, <1>2
  <2> QED  BY Zenon, <2>1, <2>2, <2>3 DEF Loadable
<1>4. ASSUME Loadable
      PROVE  Genesis \in db.blocks /\ \A h \in Recent : db.heights[h] = DbAt(h)
  <2>1. \A h \in Recent : h \in DOMAIN db.heights /\ db.heights[h] \in db.blocks
    BY Zenon, <1>4 DEF Loadable
  <2>2. \A h \in Recent : db.heights[h] = DbAt(h)
    BY Zenon, <2>1 DEF DbAt
  <2>3. CASE Height[DbTip] > 0
    BY Zenon, <2>2, <2>3 DEF StorageInv, DbChain
  <2>4. CASE Height[DbTip] = 0
    <3>1. 0 \in Recent
      BY <1>2, <2>4
    <3> QED  BY Zenon, <2>1, <2>2, <3>1 DEF StorageInv, DbChain
  <2> QED  BY <1>1, <2>3, <2>4
<1> QED  BY Zenon, <1>1, <1>2, <1>3, <1>4

(* The constructor has the recent chain in memory.                           *)
LEMMA LoadInv ==
  ASSUME StorageInv, Load
  PROVE  StorageInv' /\ Log' = Log /\ SavedLog' = SavedLog /\ UNCHANGED crashes
<1>1. phase = "ready" /\ UNCHANGED <<db, batch, crashes>>
  BY Zenon DEF Load
<1>2. DbTip' = DbTip /\ \A h : DbAt(h)' = DbAt(h)
  BY Zenon, <1>1 DEF DbTip, DbAt
<1>3. DbChain'
  BY Zenon, <1>1, <1>2 DEF StorageInv, DbChain
<1>4. phase \notin Holding /\ batch = <<>>
  BY Zenon, <1>1 DEF StorageInv, HeldChain, Holding, Closing
<1>5. CASE ~Loadable
  <2>1. phase' = "failed" /\ mem' = mem
    BY Zenon, <1>5 DEF Load
  <2>2. Held' = Held /\ phase' \notin Holding
    BY Zenon, <1>1, <2>1 DEF Held, Holding, Closing
  <2>3. Shape' /\ Starting' /\ HeldChain' /\ Saving'
    BY Zenon, <1>1, <1>4, <2>1, <2>2
       DEF StorageInv, Shape, Starting, HeldChain, Saving, Holding, Closing, Phases
  <2> QED  BY Zenon, <1>1, <1>2, <1>3, <2>2, <2>3, LogFrame DEF StorageInv
<1>6. CASE Loadable
  <2> DEFINE n == Height[DbTip] - Lowest + 1
             L == [i \in 1..n |-> DbAt(Lowest + i - 1)]
  <2>1. phase' = "on" /\ mem' = LoadedMem
    BY Zenon, <1>6 DEF Load
  <2>2. /\ db.latest = DbTip /\ Height[DbTip] \in Nat /\ Lowest \in 0..Height[DbTip]
        /\ Recent = Lowest..Height[DbTip] /\ Genesis \in db.blocks
        /\ \A h \in Recent : db.heights[h] = DbAt(h)
    BY Zenon, <1>1, <1>6, LoadFacts DEF Recent
  <2>3. n \in Nat \ {0} /\ \A i \in 1..n : Lowest + i - 1 \in Recent
    BY <2>2
  <2>4. LoadedChain = L
    <3>1. LoadedChain = [i \in 1..n |-> db.heights[Lowest + i - 1]]
      BY Zenon, <2>2 DEF LoadedChain
    <3> HIDE DEF n
    <3> QED  BY Zenon, <2>2, <2>3, <3>1
  <2>5. /\ DOMAIN mem' = {"chain", "blockByHash", "hashByHeight", "heightByHash", "txByHash"}
        /\ mem'.chain = L /\ mem'.blockByHash = Range(L)
    <3> HIDE DEF L
    <3> QED  BY Zenon, <2>1, <2>4 DEF LoadedMem
  <2>6. L \in Seq(Blocks) /\ Len(L) = n /\ \A i \in 1..n : L[i] = DbAt(Lowest + i - 1)
    <3>1. \A i \in 1..n : DbAt(Lowest + i - 1) \in Blocks
      BY Zenon, DbFacts DEF StorageInv
    <3> QED  BY <2>3, <3>1
  <2> HIDE DEF L, n
  <2>7. Held' = L
    BY Zenon, <2>1, <2>5 DEF Held
  <2>8. Shape' /\ Starting' /\ Saving'
    <3>1. Starting' /\ Saving'
      BY Zenon, <2>1, <2>5 DEF Starting, Saving
    <3>2. Shape'
      BY Zenon, <1>1, <2>1, <2>5, <2>6 DEF StorageInv, Shape, Phases
    <3> QED  BY Zenon, <3>1, <3>2
  <2>9. \A i \in 1..n : L[i] = DbAt(Lowest + i - 1) /\ Height[L[i]] = Lowest + i - 1
    <3>1. \A i \in 1..n : Lowest + i - 1 \in 0..Height[DbTip]
      BY <2>2 DEF n
    <3> QED  BY Zenon, <2>6, <3>1, DbHeights DEF StorageInv
  <2>10. L # <<>> /\ Height[L[1]] = Lowest /\ Last(L) = L[n] /\ Height[Last(L)] = Height[DbTip]
    <3>1. L # <<>> /\ Last(L) = L[n]
      BY Zenon, <2>3, <2>6 DEF Last
    <3>2. 1 \in 1..n /\ n \in 1..n /\ Lowest + 1 - 1 = Lowest /\ Lowest + n - 1 = Height[DbTip]
      BY <2>2, <2>3 DEF n
    <3> QED  BY Zenon, <2>9, <3>1, <3>2
  <2>11. \A i \in 1..(n - 1) : Prev[L[i + 1]] = L[i]
    <3> TAKE i \in 1..(n - 1)
    <3>1. /\ i \in 1..n /\ i + 1 \in 1..n /\ Lowest + i \in 1..Height[DbTip]
          /\ Lowest + (i + 1) - 1 = Lowest + i /\ (Lowest + i) - 1 = Lowest + i - 1
      BY SMTT(30), <2>2, <2>3 DEF n
    <3>2. L[i + 1] = DbAt(Lowest + i) /\ L[i] = DbAt(Lowest + i - 1)
      BY Zenon, <2>6, <3>1
    <3>3. /\ Lowest + i \in DOMAIN db.heights
          /\ Prev[db.heights[Lowest + i]] = DbAt((Lowest + i) - 1)
      BY Zenon, <3>1 DEF StorageInv, DbChain
    <3> QED  BY Zenon, <3>1, <3>2, <3>3 DEF DbAt
  <2>12. HeldChain'
    <3>1. phase' \in Holding
      BY Zenon, <2>1 DEF Holding
    <3>2. /\ Len(L) = n
          /\ \A i \in 1..n : Height[L[i]] = Height[L[1]] + i - 1
          /\ Height[DbTip] \in Height[L[1]]..Height[Last(L)]
          /\ \A i \in 1..n : L[i] = DbAt(Height[L[i]])
      BY <2>2, <2>6, <2>9, <2>10
    <3>3. db'.latest # NoHash /\ Genesis \in db'.blocks
      BY Zenon, <1>1, <2>2 DEF StorageInv, Starting
    <3> QED  BY Zenon, <1>2, <2>7, <2>10, <2>11, <3>1, <3>2, <3>3 DEF HeldChain
  <2>13. SavedLog' = SavedLog
    BY Zenon, <1>2 DEF SavedLog
  <2>14. Log' = SavedLog
    <3>1. LogForm' /\ phase' \in Holding
      <4>1. (Shape /\ HeldChain => LogForm)'
        BY LogAlways, PTL
      <4> QED  BY Zenon, <2>1, <2>8, <2>12, <4>1 DEF Holding
    <3>2. Log' = [i \in 1..(Lowest + n) |-> IF i > Lowest THEN L[i - Lowest] ELSE DbAt(i - 1)']
      BY Zenon, <2>6, <2>7, <2>10, <3>1 DEF LogForm
    <3>3. Lowest + n = Height[DbTip] + 1
      BY <2>2 DEF n
    <3>4. ASSUME NEW i \in 1..(Height[DbTip] + 1), i > Lowest
          PROVE  L[i - Lowest] = DbAt(i - 1)
      <4>1. i - Lowest \in 1..n /\ Lowest + (i - Lowest) - 1 = i - 1
        BY <2>2, <3>4 DEF n
      <4> QED  BY Zenon, <2>6, <4>1
    <3> QED  BY Zenon, <1>2, <3>2, <3>3, <3>4 DEF SavedLog
  <2>15. Log = SavedLog
    BY Zenon, <1>4, LogNotHolding DEF StorageInv
  <2> QED  BY Zenon, <1>1, <1>3, <2>8, <2>12, <2>13, <2>14, <2>15 DEF StorageInv
<1> QED  BY Zenon, <1>5, <1>6

(* Writing below the tip what is already there changes neither chain. *)
LEMMA HoldingFrame ==
  ASSUME StorageInv, Shape', HeldChain', phase \in Holding, phase' \in Holding,
         Held' = Held, DbTip' = DbTip, \A h \in 0..Height[DbTip] : DbAt(h)' = DbAt(h)
  PROVE  Log' = Log /\ SavedLog' = SavedLog
<1> DEFINE h1 == Height[Held[1]]
<1>1. LogForm /\ LogForm'
  <2>1. (Shape /\ HeldChain => LogForm)'
    BY LogAlways, PTL
  <2>2. LogForm
    BY Zenon, LogHolding DEF StorageInv, LogForm
  <2> QED  BY Zenon, <2>1, <2>2
<1>2. /\ Log = [i \in 1..(h1 + Len(Held)) |-> IF i > h1 THEN Held[i - h1] ELSE DbAt(i - 1)]
      /\ Log' = [i \in 1..(h1 + Len(Held)) |-> IF i > h1 THEN Held[i - h1] ELSE DbAt(i - 1)']
  BY Zenon, <1>1 DEF LogForm
<1>3. h1 \in Nat /\ Len(Held) \in Nat /\ Height[DbTip] \in Nat /\ h1 <= Height[DbTip]
  <2>1. Height[DbTip] \in h1..Height[Last(Held)]
    BY Zenon DEF StorageInv, HeldChain
  <2> QED  BY SMTT(30), <2>1, HeldFacts, DbFacts DEF StorageInv
<1> HIDE DEF h1
<1>4. \A i \in 1..(h1 + Len(Held)) : ~(i > h1) => DbAt(i - 1)' = DbAt(i - 1)
  <2>1. \A i \in 1..(h1 + Len(Held)) : ~(i > h1) => i - 1 \in 0..Height[DbTip]
    BY <1>3
  <2> QED  BY Zenon, <2>1
<1>5. Log' = Log
  BY Zenon, <1>2, <1>4
<1>6. \A i \in 1..(Height[DbTip] + 1) : i - 1 \in 0..Height[DbTip]
  BY <1>3
<1>7. SavedLog' = [i \in 1..(Height[DbTip] + 1) |-> DbAt(i - 1)']
  BY Zenon DEF SavedLog
<1>8. SavedLog = [i \in 1..(Height[DbTip] + 1) |-> DbAt(i - 1)]
  BY Zenon DEF SavedLog
<1> QED  BY Zenon, <1>5, <1>6, <1>7, <1>8

(* The chain in memory becomes the batch of the destructor.                  *)
LEMMA CloseInv ==
  ASSUME StorageInv, Close
  PROVE  StorageInv' /\ Log' = Log /\ SavedLog' = SavedLog /\ UNCHANGED crashes
<1>1. /\ phase = "on" /\ phase' = "blocks" /\ batch' = mem.chain /\ mem' = EmptyMem
      /\ UNCHANGED <<db, crashes>>
  BY Zenon DEF Close
<1>2. DbTip' = DbTip /\ \A h : DbAt(h)' = DbAt(h)
  BY Zenon, <1>1 DEF DbTip, DbAt
<1>3. Held' = Held /\ phase \in Holding /\ phase' \in Holding
  BY Zenon, <1>1 DEF Held, Holding, Closing
<1>4. Shape'
  <2>1. /\ DOMAIN mem' = {"chain", "blockByHash", "hashByHeight", "heightByHash", "txByHash"}
        /\ mem'.chain = <<>>
    BY Zenon, <1>1 DEF EmptyMem
  <2>2. mem'.chain \in Seq(Blocks)
    BY <2>1
  <2> QED  BY Zenon, <1>1, <2>1, <2>2 DEF StorageInv, Shape, Phases, Closing
<1>5. DbChain'
  BY Zenon, <1>1, <1>2 DEF StorageInv, DbChain
<1>6. Starting' /\ Saving'
  BY Zenon, <1>1 DEF Starting, Saving
<1>7. HeldChain'
  BY Zenon, <1>1, <1>2, <1>3 DEF StorageInv, HeldChain
<1> QED  BY Zenon, <1>1, <1>2, <1>3, <1>4, <1>5, <1>6, <1>7, HoldingFrame DEF StorageInv

(* The blocks of the batch are written.                                      *)
LEMMA SaveBlocksInv ==
  ASSUME StorageInv, SaveBlocks
  PROVE  StorageInv' /\ Log' = Log /\ SavedLog' = SavedLog /\ UNCHANGED crashes
<1>1. /\ phase = "blocks" /\ phase' = "heights" /\ UNCHANGED <<mem, batch, crashes>>
      /\ db' = [db EXCEPT !.blocks = db.blocks \cup Range(batch)]
  BY Zenon DEF SaveBlocks, OnlyDB
<1>2. /\ DOMAIN db' = DOMAIN db /\ db'.heights = db.heights
      /\ db'.blocks = db.blocks \cup Range(batch) /\ db'.latest = db.latest
  BY Zenon, <1>1 DEF StorageInv, Shape
<1>3. DbTip' = DbTip /\ \A h : DbAt(h)' = DbAt(h)
  BY Zenon, <1>2 DEF DbTip, DbAt
<1>4. Held' = Held /\ phase \in Holding /\ phase' \in Holding
  BY Zenon, <1>1 DEF Held, Holding, Closing
<1>5. Shape'
  BY Zenon, <1>1, <1>2 DEF StorageInv, Shape, Phases, Closing
<1>6. Genesis \in db.blocks /\ db.latest # NoHash
  BY Zenon, <1>4 DEF StorageInv, HeldChain
<1>7. DbChain'
  BY Zenon, <1>2, <1>3, <1>6 DEF StorageInv, DbChain
<1>8. Starting' /\ Saving'
  BY Zenon, <1>1, <1>2 DEF Starting, Saving
<1>9. HeldChain'
  BY Zenon, <1>2, <1>3, <1>4, <1>6 DEF StorageInv, HeldChain
<1> QED  BY Zenon, <1>1, <1>3, <1>4, <1>5, <1>7, <1>8, <1>9, HoldingFrame DEF StorageInv

(* So are their transactions.                                                *)
LEMMA SaveTxsInv ==
  ASSUME StorageInv, SaveTxs
  PROVE  StorageInv' /\ Log' = Log /\ SavedLog' = SavedLog /\ UNCHANGED crashes
<1>1. /\ phase = "txs" /\ phase' = "latest" /\ UNCHANGED <<mem, batch, crashes>>
      /\ \E t : db' = [db EXCEPT !.txs = t]
  BY Zenon DEF SaveTxs, OnlyDB
<1>2. /\ DOMAIN db' = DOMAIN db /\ db'.heights = db.heights
      /\ db'.blocks = db.blocks /\ db'.latest = db.latest
  BY Zenon, <1>1 DEF StorageInv, Shape
<1>3. DbTip' = DbTip /\ \A h : DbAt(h)' = DbAt(h)
  BY Zenon, <1>2 DEF DbTip, DbAt
<1>4. Held' = Held /\ phase \in Holding /\ phase' \in Holding
  BY Zenon, <1>1 DEF Held, Holding, Closing
<1>5. Shape'
  BY Zenon, <1>1, <1>2 DEF StorageInv, Shape, Phases, Closing
<1>6. DbChain'
  BY Zenon, <1>2, <1>3 DEF StorageInv, DbChain
<1>7. Starting' /\ Saving'
  BY <1>1, <1>2 DEF StorageInv, Starting, Saving
<1>8. HeldChain'
  BY Zenon, <1>2, <1>3, <1>4 DEF StorageInv, HeldChain
<1> QED  BY Zenon, <1>1, <1>3, <1>4, <1>5, <1>6, <1>7, <1>8, HoldingFrame DEF StorageInv

(* So are their heights.                                                     *)
LEMMA SaveHeightsInv ==
  ASSUME StorageInv, SaveHeights
  PROVE  StorageInv' /\ Log' = Log /\ SavedLog' = SavedLog /\ UNCHANGED crashes
<1> DEFINE new == [h \in {Height[b] : b \in Range(batch)} |->
                     CHOOSE b \in Range(batch) : Height[b] = h]
           heights == Over(new, db.heights)
<1>1. /\ phase = "heights" /\ phase' = "txs" /\ UNCHANGED <<mem, batch, crashes>>
      /\ db' = [db EXCEPT !.heights = heights]
  BY Zenon DEF SaveHeights, OnlyDB
<1> HIDE DEF heights
<1>2. /\ DOMAIN db' = DOMAIN db /\ db'.heights = heights
      /\ db'.blocks = db.blocks /\ db'.latest = db.latest
  BY Zenon, <1>1 DEF StorageInv, Shape
<1>3. DbTip' = DbTip
  BY Zenon, <1>2 DEF DbTip
<1>4. Held' = Held /\ Held = batch /\ phase \in Holding /\ phase' \in Holding
  BY Zenon, <1>1 DEF Held, Holding, Closing
<1>5. /\ batch \in Seq(Blocks) /\ Len(batch) \in Nat
      /\ \A i \in 1..Len(batch) : batch[i] \in Blocks /\ Height[batch[i]] \in Nat
      /\ Height[batch[1]] \in Nat
      /\ \A i \in 1..Len(batch) : Height[batch[i]] = Height[batch[1]] + i - 1
  BY Zenon, <1>4, HeldFacts DEF StorageInv, HeldChain
<1>6. Range(batch) = {batch[i] : i \in 1..Len(batch)}
  BY <1>5 DEF Range
<1>7. \A i, j \in 1..Len(batch) : Height[batch[i]] = Height[batch[j]] => batch[i] = batch[j]
  <2>1. \A i, j \in 1..Len(batch) : Height[batch[i]] = Height[batch[j]] => i = j
    BY SMTT(30), <1>5
  <2> QED  BY Zenon, <2>1
<1>8. /\ DOMAIN new = {Height[batch[i]] : i \in 1..Len(batch)}
      /\ \A i \in 1..Len(batch) : new[Height[batch[i]]] = batch[i]
  <2>1. \A b \in Range(batch) : (CHOOSE c \in Range(batch) : Height[c] = Height[b]) = b
    <3> TAKE b \in Range(batch)
    <3> DEFINE c == CHOOSE x \in Range(batch) : Height[x] = Height[b]
    <3>1. c \in Range(batch) /\ Height[c] = Height[b]
      OBVIOUS
    <3> HIDE DEF c
    <3>2. c = b
      BY <1>6, <1>7, <3>1
    <3> QED  BY Zenon, <3>2 DEF c
  <2>2. \A i \in 1..Len(batch) : batch[i] \in Range(batch)
    BY Zenon, <1>6
  <2>3. \A b \in Range(batch) : new[Height[b]] = b
    BY Zenon, <2>1
  <2>4. DOMAIN new = {Height[b] : b \in Range(batch)}
    OBVIOUS
  <2> HIDE DEF new
  <2>5. {Height[b] : b \in Range(batch)} = {Height[batch[i]] : i \in 1..Len(batch)}
    BY Zenon, <1>6
  <2> QED  BY Zenon, <2>2, <2>3, <2>4, <2>5
<1> HIDE DEF new
<1>9. /\ DOMAIN heights = DOMAIN new \cup DOMAIN db.heights
      /\ \A h \in DOMAIN new : heights[h] = new[h]
      /\ \A h \in DOMAIN db.heights \ DOMAIN new : heights[h] = db.heights[h]
  BY Zenon, OverFacts DEF heights
<1>10. \A i \in 1..Len(batch) :
         Height[batch[i]] \in DOMAIN heights /\ heights[Height[batch[i]]] = batch[i]
  BY Zenon, <1>8, <1>9
<1>11. ASSUME NEW h \in 0..Height[DbTip] PROVE DbAt(h)' = DbAt(h)
  <2>1. CASE h \in DOMAIN new
    <3>1. PICK i \in 1..Len(batch) : h = Height[batch[i]]
      BY <1>8, <2>1
    <3>2. h <= Height[DbTip]
      BY DbFacts DEF StorageInv
    <3>3. batch[i] = DbAt(h)
      BY Zenon, <1>4, <3>1, <3>2 DEF StorageInv, HeldChain
    <3>4. DbAt(h)' = batch[i]
      BY Zenon, <1>2, <1>10, <3>1 DEF DbAt
    <3> QED  BY Zenon, <3>3, <3>4
  <2>2. CASE h \notin DOMAIN new
    BY Zenon, <1>2, <1>9, <2>2 DEF DbAt
  <2> QED  BY Zenon, <2>1, <2>2
<1>12. Shape'
  <2>1. \A h \in DOMAIN heights : h \in Nat /\ heights[h] \in Blocks
    <3>1. \A h \in DOMAIN new : h \in Nat /\ new[h] \in Blocks
      BY ZenonT(30), <1>5, <1>8
    <3>2. \A h \in DOMAIN db.heights : h \in Nat /\ db.heights[h] \in Blocks
      BY Zenon DEF StorageInv, Shape
    <3> QED  BY Zenon, <1>9, <3>1, <3>2
  <2> QED  BY Zenon, <1>1, <1>2, <2>1 DEF StorageInv, Shape, Phases, Closing
<1>13. Genesis \in db.blocks /\ db.latest # NoHash
  BY Zenon, <1>4 DEF StorageInv, HeldChain
<1>14. DbChain'
  <2>1. Height[DbTip] \in Nat /\ 0 \in 0..Height[DbTip] /\ Height[DbTip] \in 0..Height[DbTip]
    BY DbFacts DEF StorageInv
  <2>2. DbAt(0)' = Genesis /\ DbAt(Height[DbTip])' = DbTip
    BY Zenon, <1>3, <1>11, <2>1 DEF StorageInv, DbChain
  <2>3. ASSUME NEW h \in 0..Height[DbTip]
        PROVE  h \in DOMAIN heights /\ heights[h] = db.heights[h] /\ heights[h] \in db.blocks
    <3>1. h \in DOMAIN db.heights /\ db.heights[h] \in db.blocks
      BY Zenon, <1>13 DEF StorageInv, DbChain
    <3>2. h \in DOMAIN heights
      BY Zenon, <1>9, <3>1
    <3>3. DbAt(h)' = heights[h] /\ DbAt(h) = db.heights[h]
      BY Zenon, <1>2, <3>1, <3>2 DEF DbAt
    <3> QED  BY Zenon, <1>11, <3>1, <3>2, <3>3
  <2>4. ASSUME NEW h \in 1..Height[DbTip]
        PROVE  /\ h \in DOMAIN heights /\ Height[heights[h]] = h
               /\ Prev[heights[h]] = DbAt(h - 1)'
    <3>1. h \in 0..Height[DbTip] /\ h - 1 \in 0..Height[DbTip]
      BY <2>1
    <3>2. DbAt(h - 1)' = DbAt(h - 1)
      BY Zenon, <1>11, <3>1
    <3>3. Height[db.heights[h]] = h /\ Prev[db.heights[h]] = DbAt(h - 1)
      BY Zenon DEF StorageInv, DbChain
    <3> QED  BY Zenon, <2>3, <3>1, <3>2, <3>3
  <2>5. DbAt(Height[DbTip])' = DbTip'
    BY Zenon, <1>3, <2>2 DEF DbAt
  <2> QED  BY Zenon, <1>2, <1>3, <1>13, <2>2, <2>3, <2>4, <2>5 DEF DbChain
<1>15. Starting' /\ Saving'
  <2>1. Range(batch) \subseteq db.blocks
    BY Zenon, <1>1 DEF StorageInv, Saving
  <2> QED  BY Zenon, <1>1, <1>2, <1>10, <2>1 DEF Starting, Saving
<1>16. HeldChain'
  <2>1. ASSUME NEW i \in 1..Len(batch), Height[batch[i]] <= Height[DbTip]
        PROVE  batch[i] = DbAt(Height[batch[i]])'
    BY Zenon, <1>1, <1>2, <1>10 DEF DbAt
  <2> QED  BY Zenon, <1>1, <1>2, <1>3, <1>4, <1>13, <2>1 DEF StorageInv, HeldChain
<1> QED
  BY Zenon, <1>1, <1>3, <1>4, <1>11, <1>12, <1>14, <1>15, <1>16, HoldingFrame DEF StorageInv

(* The last write makes the whole chain durable. *)
LEMMA SaveLatestInv ==
  ASSUME StorageInv, SaveLatest
  PROVE  StorageInv' /\ Log' = Log /\ SavedLog' = Log /\ UNCHANGED crashes
<1> DEFINE n == Len(batch)
           h1 == Height[batch[1]]
           tip == Last(batch)
<1>1. /\ phase = "latest" /\ phase' = "off" /\ batch' = <<>> /\ UNCHANGED <<mem, crashes>>
      /\ db' = [db EXCEPT !.latest = tip]
  BY Zenon DEF SaveLatest
<1>2. /\ DOMAIN db' = DOMAIN db /\ db'.heights = db.heights
      /\ db'.blocks = db.blocks /\ db'.latest = tip
  BY Zenon, <1>1 DEF StorageInv, Shape
<1>3. Held = batch /\ phase \in Holding /\ phase' \notin Holding /\ Held' = <<>>
  BY Zenon, <1>1 DEF Held, Holding, Closing
<1>4. /\ n \in Nat \ {0} /\ h1 \in Nat /\ tip = batch[n] /\ tip \in Blocks
      /\ Height[tip] = h1 + n - 1
      /\ \A i \in 1..n : batch[i] \in Blocks
  BY Zenon, <1>3, HeldFacts DEF StorageInv
<1>5. /\ \A i \in 1..n : Height[batch[i]] = h1 + i - 1
      /\ \A i \in 1..(n - 1) : Prev[batch[i + 1]] = batch[i]
      /\ Height[DbTip] \in h1..Height[tip] /\ Genesis \in db.blocks
  BY Zenon, <1>3 DEF StorageInv, HeldChain
<1>6. /\ Range(batch) \subseteq db.blocks
      /\ \A i \in 1..n : /\ Height[batch[i]] \in DOMAIN db.heights
                         /\ db.heights[Height[batch[i]]] = batch[i]
  BY Zenon, <1>1 DEF StorageInv, Saving
<1>7. \A i \in 1..n : batch[i] \in db.blocks
  BY <1>6 DEF StorageInv, Shape, Range
<1>8. DbTip' = tip /\ \A h : DbAt(h)' = DbAt(h)
  BY Zenon, <1>2, <1>4, StorageAssumption DEF DbTip, DbAt
<1> HIDE DEF tip, n, h1
<1>9. ASSUME NEW i \in 1..n
      PROVE  /\ h1 + i - 1 \in DOMAIN db.heights
             /\ db.heights[h1 + i - 1] = batch[i] /\ DbAt(h1 + i - 1) = batch[i]
  BY Zenon, <1>5, <1>6 DEF DbAt
<1>10. Shape'
  BY <1>1, <1>2, <1>4 DEF StorageInv, Shape, Phases
<1>11. Starting' /\ HeldChain' /\ Saving'
  BY Zenon, <1>1, <1>3 DEF Starting, HeldChain, Saving
<1>12. ASSUME NEW h \in 0..Height[tip], ~(h <= Height[DbTip])
       PROVE  /\ h - h1 + 1 \in 1..n /\ (h - h1 + 1) - 1 \in 1..(n - 1)
              /\ h1 + (h - h1 + 1) - 1 = h /\ h1 + ((h - h1 + 1) - 1) - 1 = h - 1
              /\ ((h - h1 + 1) - 1) + 1 = h - h1 + 1
  <2>1. h \in Int /\ Height[DbTip] \in Int /\ Height[DbTip] >= h1 /\ h <= h1 + n - 1
    BY <1>4, <1>5
  <2> QED  BY <1>4, <1>12, <2>1
<1>13. ASSUME NEW h \in 0..Height[tip]
       PROVE  h \in DOMAIN db.heights /\ db.heights[h] \in db.blocks
  <2>1. CASE h <= Height[DbTip]
    <3>1. h \in 0..Height[DbTip]
      BY <1>4, <1>5, <2>1
    <3> QED  BY Zenon, <1>5, <3>1 DEF StorageInv, DbChain
  <2>2. CASE ~(h <= Height[DbTip])
    <3>1. PICK i \in 1..n : h1 + i - 1 = h
      BY Zenon, <1>12, <2>2
    <3> QED  BY Zenon, <1>7, <1>9, <3>1
  <2> QED  BY Zenon, <2>1, <2>2
<1>14. ASSUME NEW h \in 1..Height[tip]
       PROVE  Height[db.heights[h]] = h /\ Prev[db.heights[h]] = DbAt(h - 1)
  <2>1. CASE h <= Height[DbTip]
    <3>1. h \in 1..Height[DbTip]
      BY <1>4, <1>5, <2>1
    <3> QED  BY Zenon, <3>1 DEF StorageInv, DbChain
  <2>2. CASE ~(h <= Height[DbTip])
    <3>1. h \in 0..Height[tip]
      BY <1>4
    <3>2. PICK i \in 1..n, j \in 1..(n - 1) :
            h1 + i - 1 = h /\ h1 + j - 1 = h - 1 /\ j + 1 = i
      BY <1>12, <2>2, <3>1
    <3>3. j \in 1..n
      BY <1>4
    <3>4. db.heights[h] = batch[i] /\ DbAt(h - 1) = batch[j] /\ Height[batch[i]] = h
      BY Zenon, <1>5, <1>9, <3>2, <3>3
    <3> QED  BY Zenon, <1>5, <3>2, <3>4
  <2> QED  BY Zenon, <2>1, <2>2
<1>15. DbAt(Height[tip]) = tip
  <2>1. n \in 1..n /\ h1 + n - 1 = Height[tip]
    BY SMTT(30), <1>4
  <2> QED  BY Zenon, <1>4, <1>9, <2>1
<1>16. DbChain'
  <2>1. DbAt(0)' = Genesis
    BY Zenon, <1>8 DEF StorageInv, DbChain
  <2>2. DbAt(Height[DbTip])' = DbTip'
    <3>1. DbAt(Height[DbTip])' = IF Height[tip] \in DOMAIN db.heights
                                 THEN db.heights[Height[tip]] ELSE Genesis
      BY Zenon, <1>2, <1>8 DEF DbAt
    <3> QED  BY Zenon, <1>8, <1>15, <3>1 DEF DbAt
  <2>3. \A h \in 1..Height[tip] : h \in 0..Height[tip]
    BY <1>4
  <2> QED  BY SMTT(30), <1>2, <1>5, <1>8, <1>13, <1>14, <2>1, <2>2, <2>3 DEF DbChain
<1>17. SavedLog' = [i \in 1..(h1 + n) |-> DbAt(i - 1)]
  <2>1. Height[tip] + 1 = h1 + n
    BY <1>4
  <2>2. SavedLog' = [i \in 1..(Height[tip] + 1) |-> DbAt(i - 1)']
    BY Zenon, <1>8 DEF SavedLog
  <2> QED  BY Zenon, <1>8, <2>1, <2>2
<1>18. Log = [i \in 1..(h1 + n) |-> IF i > h1 THEN batch[i - h1] ELSE DbAt(i - 1)]
  BY Zenon, <1>3, LogHolding DEF StorageInv, h1, n
<1>19. ASSUME NEW i \in 1..(h1 + n), i > h1
       PROVE  batch[i - h1] = DbAt(i - 1)
  <2>1. i - h1 \in 1..n /\ h1 + (i - h1) - 1 = i - 1
    BY <1>4, <1>19
  <2> QED  BY Zenon, <1>9, <2>1
<1>20. SavedLog' = Log
  BY Zenon, <1>17, <1>18, <1>19
<1>21. Log' = SavedLog'
  <2>1. (Shape /\ HeldChain => LogForm)'
    BY LogAlways, PTL
  <2> QED  BY Zenon, <1>3, <1>10, <1>11, <2>1 DEF LogForm
<1> QED  BY Zenon, <1>1, <1>10, <1>11, <1>16, <1>20, <1>21 DEF StorageInv

(* Whatever the process was doing, what remains is the durable chain. *)
LEMMA DieInv ==
  ASSUME StorageInv, Die
  PROVE  /\ StorageInv' /\ Log' = SavedLog /\ SavedLog' = SavedLog
         /\ crashes' = crashes + 1
<1>1. /\ phase' = "off" /\ batch' = <<>> /\ mem' = EmptyMem /\ UNCHANGED db
      /\ crashes' = crashes + 1
  BY Zenon DEF Die
<1>2. DbTip' = DbTip /\ \A h : DbAt(h)' = DbAt(h)
  BY Zenon, <1>1 DEF DbTip, DbAt
<1>3. phase' \notin Holding
  BY Zenon, <1>1 DEF Holding, Closing
<1>4. Shape'
  <2>1. /\ DOMAIN mem' = {"chain", "blockByHash", "hashByHeight", "heightByHash", "txByHash"}
        /\ mem'.chain = <<>>
    BY Zenon, <1>1 DEF EmptyMem
  <2>2. mem'.chain \in Seq(Blocks) /\ batch' \in Seq(Blocks)
    BY SMTT(30), <1>1, <2>1
  <2> QED  BY SMTT(30), <1>1, <2>1, <2>2 DEF StorageInv, Shape, Phases
<1>5. DbChain'
  BY Zenon, <1>1, <1>2 DEF StorageInv, DbChain
<1>6. Starting' /\ HeldChain' /\ Saving'
  BY Zenon, <1>1, <1>3 DEF Starting, HeldChain, Saving
<1>7. SavedLog' = SavedLog
  BY Zenon, <1>2 DEF SavedLog
<1>8. Log' = SavedLog'
  <2>1. (Shape /\ HeldChain => LogForm)'
    BY LogAlways, PTL
  <2> QED  BY Zenon, <1>3, <1>4, <1>6, <2>1 DEF LogForm
<1> QED  BY Zenon, <1>1, <1>4, <1>5, <1>6, <1>7, <1>8 DEF StorageInv

(* A block extends the chain, and is the only thing to do so.                *)
LEMMA PushBackInv ==
  ASSUME StorageInv, NEW b \in Blocks, PushBack(b)
  PROVE  /\ StorageInv' /\ Log' = Append(Log, b) /\ SavedLog' = SavedLog
         /\ UNCHANGED crashes /\ Prev[b] = Log[Len(Log)]
<1> DEFINE c == mem.chain
           n == Len(c)
           h1 == Height[c[1]]
           d == Append(c, b)
<1>1. /\ phase = "on" /\ UNCHANGED <<phase, db, batch, crashes>>
      /\ mem' = Indexed([mem EXCEPT !.chain = d], b)
      /\ c # <<>> => Prev[b] = Last(c) /\ Height[b] = Height[Last(c)] + 1
  BY Zenon DEF PushBack, OnlyMem
<1>2. /\ DOMAIN mem' = DOMAIN mem /\ mem'.chain = d
      /\ mem'.blockByHash = mem.blockByHash \cup {b}
  <2> HIDE DEF d
  <2> QED  BY Zenon, <1>1 DEF StorageInv, Shape, Indexed
<1>3. Held = c /\ phase \in Holding /\ phase' \in Holding /\ Held' = d
  BY Zenon, <1>1, <1>2 DEF Held, Holding
<1>4. /\ c \in Seq(Blocks) /\ n \in Nat \ {0} /\ h1 \in Nat
      /\ \A i \in 1..n : c[i] \in Blocks
      /\ Last(c) = c[n] /\ Height[c[n]] = h1 + n - 1
  BY Zenon, <1>3, HeldFacts DEF StorageInv
<1>5. /\ db.latest # NoHash /\ Genesis \in db.blocks /\ c # <<>>
      /\ \A i \in 1..n : Height[c[i]] = h1 + i - 1
      /\ \A i \in 1..(n - 1) : Prev[c[i + 1]] = c[i]
      /\ Height[DbTip] \in h1..Height[c[n]]
      /\ \A i \in 1..n : Height[c[i]] <= Height[DbTip] => c[i] = DbAt(Height[c[i]])
  BY Zenon, <1>3, <1>4 DEF StorageInv, HeldChain
<1>6. Prev[b] = c[n] /\ Height[b] = h1 + n
  BY SMTT(30), <1>1, <1>4, <1>5
<1>7. DbTip' = DbTip /\ \A h : DbAt(h)' = DbAt(h)
  BY Zenon, <1>1 DEF DbTip, DbAt
<1>8. /\ d \in Seq(Blocks) /\ Len(d) = n + 1 /\ d[n + 1] = b
      /\ \A i \in 1..n : d[i] = c[i]
  BY <1>4
<1>9. d # <<>> /\ Last(d) = b /\ d[1] = c[1]
  <2>1. 1 \in 1..n /\ n + 1 # 0
    BY <1>4
  <2> HIDE DEF d
  <2> QED  BY Zenon, <1>8, <2>1 DEF Last
<1> HIDE DEF c, d, n, h1
<1>10. Shape'
  BY Zenon, <1>1, <1>2, <1>8 DEF StorageInv, Shape
<1>11. DbChain'
  BY Zenon, <1>1, <1>7 DEF StorageInv, DbChain
<1>12. Starting'
  BY Zenon, <1>1 DEF StorageInv, Starting
<1>13. Saving'
  <2>1. Range(c) \subseteq mem.blockByHash
    BY Zenon, <1>1 DEF StorageInv, Saving, c
  <2>2. Range(c) = {c[i] : i \in 1..n}
    BY <1>4 DEF Range, n
  <2>3. Range(d) = {d[i] : i \in 1..(n + 1)}
    BY <1>8 DEF Range
  <2>4. \A i \in 1..(n + 1) : i \in 1..n \/ i = n + 1
    BY <1>4
  <2>5. Range(d) \subseteq mem.blockByHash \cup {b}
    BY SMTT(30), <1>8, <2>1, <2>2, <2>3, <2>4
  <2> QED  BY Zenon, <1>1, <1>2, <2>5 DEF Saving
<1>14. HeldChain'
  <2>1. \A i \in 1..(n + 1) : i \in 1..n \/ i = n + 1
    BY SMTT(30), <1>4
  <2>2. \A i \in 1..(n + 1) : Height[d[i]] = h1 + i - 1
    <3>1. Height[d[n + 1]] = h1 + (n + 1) - 1
      BY <1>4, <1>6, <1>8
    <3> QED  BY Zenon, <1>5, <1>8, <2>1, <3>1
  <2>3. ASSUME NEW i \in 1..((n + 1) - 1) PROVE Prev[d[i + 1]] = d[i]
    <3>1. CASE i = n
      <4>1. n \in 1..n
        BY SMTT(30), <1>4
      <4> QED  BY Zenon, <1>6, <1>8, <3>1, <4>1
    <3>2. CASE i # n
      <4>1. i \in 1..n /\ i \in 1..(n - 1) /\ i + 1 \in 1..n
        BY SMTT(30), <1>4, <3>2
      <4> QED  BY Zenon, <1>5, <1>8, <4>1
    <3> QED  BY Zenon, <3>1, <3>2
  <2>4. Height[DbTip] \in h1..Height[b] /\ ~(Height[b] <= Height[DbTip])
    BY SMTT(30), <1>4, <1>5, <1>6
  <2>5. ASSUME NEW i \in 1..(n + 1), Height[d[i]] <= Height[DbTip]
        PROVE  d[i] = DbAt(Height[d[i]])
    BY Zenon, <1>5, <1>8, <2>1, <2>4, <2>5
  <2> QED  BY SMTT(30), <1>1, <1>3, <1>5, <1>7, <1>8, <1>9, <2>2, <2>3, <2>4, <2>5 DEF HeldChain, h1
<1>15. SavedLog' = SavedLog
  BY Zenon, <1>7 DEF SavedLog
<1>16. Log = [i \in 1..(h1 + n) |-> IF i > h1 THEN c[i - h1] ELSE DbAt(i - 1)]
  BY Zenon, <1>3, LogHolding DEF StorageInv, h1, n
<1>17. Log' = [i \in 1..(h1 + (n + 1)) |-> IF i > h1 THEN d[i - h1] ELSE DbAt(i - 1)]
  <2>1. LogForm'
    <3>1. (Shape /\ HeldChain => LogForm)'
      BY LogAlways, PTL
    <3> QED  BY Zenon, <1>10, <1>14, <3>1
  <2>2. Log' = [i \in 1..(Height[d[1]] + Len(d)) |->
                  IF i > Height[d[1]] THEN d[i - Height[d[1]]] ELSE DbAt(i - 1)']
    BY Zenon, <1>3, <2>1 DEF LogForm
  <2>3. Height[d[1]] = h1 /\ Len(d) = n + 1
    BY Zenon, <1>8, <1>9 DEF h1
  <2> QED  BY Zenon, <1>7, <2>2, <2>3
<1>18. Log \in Seq(Blocks) /\ Len(Log) = h1 + n
  <2>1. ASSUME NEW i \in 1..(h1 + n)
        PROVE  (IF i > h1 THEN c[i - h1] ELSE DbAt(i - 1)) \in Blocks
    <3>1. CASE i > h1
      <4>1. i - h1 \in 1..n
        BY <1>4, <3>1
      <4> QED  BY Zenon, <1>4, <3>1, <4>1
    <3>2. CASE ~(i > h1)
      BY Zenon, <3>2, DbFacts DEF StorageInv
    <3> QED  BY Zenon, <3>1, <3>2
  <2>2. h1 + n \in Nat
    BY <1>4
  <2> QED  BY <1>16, <2>1, <2>2
<1>19. Log[Len(Log)] = c[n]
  <2>1. h1 + n \in 1..(h1 + n) /\ h1 + n > h1 /\ (h1 + n) - h1 = n
    BY <1>4
  <2> QED  BY Zenon, <1>16, <1>18, <2>1
<1>20. Log' = Append(Log, b)
  <2> DEFINE e == Append(Log, b)
  <2>1. /\ e = [i \in 1..((h1 + n) + 1) |-> e[i]]
        /\ e[(h1 + n) + 1] = b /\ \A i \in 1..(h1 + n) : e[i] = Log[i]
    <3>1. PICK s \in Seq(Blocks) : s = Log
      BY Zenon, <1>18
    <3>2. Len(s) = h1 + n /\ e = Append(s, b)
      BY Zenon, <1>18, <3>1
    <3>3. /\ Append(s, b) \in Seq(Blocks) /\ Len(Append(s, b)) = Len(s) + 1
          /\ Append(s, b)[Len(s) + 1] = b
          /\ \A i \in 1..Len(s) : Append(s, b)[i] = s[i]
      OBVIOUS
    <3> HIDE DEF e
    <3>4. e \in Seq(Blocks) /\ Len(e) = (h1 + n) + 1
      BY Zenon, <3>2, <3>3
    <3>5. e = [i \in 1..((h1 + n) + 1) |-> e[i]]
      BY <3>4
    <3> QED  BY Zenon, <3>1, <3>2, <3>3, <3>5
  <2>2. /\ (h1 + n) + 1 = h1 + (n + 1) /\ h1 + (n + 1) > h1 /\ (h1 + (n + 1)) - h1 = n + 1
        /\ \A i \in 1..(h1 + (n + 1)) : i \in 1..(h1 + n) \/ i = h1 + (n + 1)
        /\ \A i \in 1..(h1 + n) : i > h1 => i - h1 \in 1..n
    BY <1>4
  <2> HIDE DEF e
  <2>3. ASSUME NEW i \in 1..(h1 + (n + 1))
        PROVE  e[i] = IF i > h1 THEN d[i - h1] ELSE DbAt(i - 1)
    <3>1. CASE i \in 1..(h1 + n)
      <4>1. e[i] = IF i > h1 THEN c[i - h1] ELSE DbAt(i - 1)
        BY Zenon, <1>16, <2>1, <3>1
      <4> QED  BY Zenon, <1>8, <2>2, <3>1, <4>1
    <3>2. CASE i = h1 + (n + 1)
      BY Zenon, <1>8, <2>1, <2>2, <3>2
    <3> QED  BY Zenon, <2>2, <3>1, <3>2
  <2>4. e = [i \in 1..(h1 + (n + 1)) |-> e[i]]
    BY Zenon, <2>1, <2>2
  <2>5. Log' = e
    BY Zenon, <1>17, <2>3, <2>4
  <2> QED  BY Zenon, <2>5 DEF e
<1> QED  BY Zenon, <1>1, <1>6, <1>10, <1>11, <1>12, <1>13, <1>14, <1>15, <1>19, <1>20 DEF StorageInv

(* An empty database.                                                        *)
LEMMA InitInv ==
  ASSUME Init
  PROVE  StorageInv /\ Log = <<Genesis>> /\ SavedLog = <<Genesis>> /\ crashes = 0
<1>1. /\ phase = "off" /\ mem = EmptyMem /\ db = EmptyDB /\ batch = <<>> /\ crashes = 0
  BY Zenon DEF Init
<1>2. /\ DOMAIN mem = {"chain", "blockByHash", "hashByHeight", "heightByHash", "txByHash"}
      /\ mem.chain = <<>>
      /\ DOMAIN db = {"latest", "blocks", "heights", "txs"}
      /\ db.latest = NoHash /\ db.blocks = {} /\ DOMAIN db.heights = {}
  BY Zenon, <1>1 DEF EmptyMem, EmptyDB, NoEntries
<1>3. Shape
  <2>1. mem.chain \in Seq(Blocks) /\ batch \in Seq(Blocks)
    BY <1>1, <1>2
  <2> QED  BY Zenon, <1>1, <1>2, <2>1 DEF Shape, Phases
<1>4. DbTip = Genesis /\ Height[DbTip] = 0 /\ \A h : DbAt(h) = Genesis
  BY Zenon, <1>2, StorageAssumption DEF DbTip, DbAt
<1>5. DbChain
  BY <1>2, <1>4 DEF DbChain
<1>6. Starting /\ HeldChain /\ Saving
  BY Zenon, <1>1 DEF Starting, HeldChain, Saving, Holding, Closing
<1>7. Log = SavedLog
  <2>1. phase \notin Holding
    BY Zenon, <1>1 DEF Holding, Closing
  <2> QED  BY Zenon, <1>3, <1>6, <2>1, LogNotHolding
<1>8. SavedLog = <<Genesis>>
  <2>1. SavedLog = [i \in 1..(0 + 1) |-> Genesis]
    BY Zenon, <1>4 DEF SavedLog
  <2> QED  BY <2>1
<1> QED  BY Zenon, <1>1, <1>3, <1>5, <1>6, <1>7, <1>8 DEF StorageInv

-----------------------------------------------------------------------------
(* The steps together. *)

(* The steps of the constructor, the destructor and the lookups, which do   *)
(* not change the chain.                                                    *)
Quiet ==
  \/ Start \/ PutGenesisHeight \/ PutGenesis \/ Load
  \/ Close \/ SaveBlocks \/ SaveHeights \/ SaveTxs
  \/ \E r \in Readers : ReaderStep(r)
  \/ UNCHANGED vars

(* The steps that change neither of the chains.                              *)
LEMMA QuietInv ==
  ASSUME StorageInv, Quiet
  PROVE  StorageInv' /\ Log' = Log /\ SavedLog' = SavedLog /\ UNCHANGED crashes
<1>1. CASE UNCHANGED vars
  BY Zenon, <1>1, FrameStep DEF vars
<1>2. CASE \E r \in Readers : ReaderStep(r)
  BY Zenon, <1>2, ReaderInv
<1>3. CASE Start
  BY Zenon, <1>3, StartInv
<1>4. CASE PutGenesisHeight
  BY SMTT(30), <1>4, PutGenesisHeightInv
<1>5. CASE PutGenesis
  BY Zenon, <1>5, PutGenesisInv
<1>6. CASE Load
  BY Zenon, <1>6, LoadInv
<1>7. CASE Close
  BY Zenon, <1>7, CloseInv
<1>8. CASE SaveBlocks
  BY Zenon, <1>8, SaveBlocksInv
<1>9. CASE SaveHeights
  BY Zenon, <1>9, SaveHeightsInv
<1>10. CASE SaveTxs
  BY Zenon, <1>10, SaveTxsInv
<1> QED
  BY SMTT(30), <1>1, <1>2, <1>3, <1>4, <1>5, <1>6, <1>7, <1>8, <1>9, <1>10 DEF Quiet

(* Every step of the node, as a step of Storage. *)
StoreStep ==
  \/ Quiet
  \/ SaveLatest
  \/ Die
  \/ \E b \in Blocks : PushBack(b)

(* Every step of the store keeps the invariant and is one of ChainStore.     *)
LEMMA StoreStepInv ==
  ASSUME StorageInv, StoreStep
  PROVE  StorageInv' /\ [ChainStore!Next]_(ChainStore!vars)
<1>1. CASE Quiet
  BY Zenon, <1>1, QuietInv DEF ChainStore!vars
<1>2. CASE SaveLatest
  BY Zenon, <1>2, SaveLatestInv DEF ChainStore!Next, ChainStore!Save
<1>3. CASE Die
  BY Zenon, <1>3, DieInv DEF ChainStore!Next, ChainStore!Crash
<1>4. CASE \E b \in Blocks : PushBack(b)
  <2>1. PICK b \in Blocks : PushBack(b)
    BY Zenon, <1>4
  <2>2. ChainStore!Extend(b)
    BY Zenon, <2>1, PushBackInv DEF ChainStore!Extend
  <2> QED  BY Zenon, <2>1, <2>2, PushBackInv DEF ChainStore!Next
<1> QED  BY Zenon, <1>1, <1>2, <1>3, <1>4 DEF StoreStep

(* The steps of Storage on its own are such steps.                           *)
LEMMA NextIsStoreStep ==
  ASSUME [Next]_vars PROVE StoreStep
BY Zenon DEF Next, LifeStep, Crash, StoreStep, Quiet

(* So are those of the whole node.                                           *)
LEMMA NodeNextIsStoreStep ==
  ASSUME [NodeNext]_nodeVars PROVE StoreStep
<1>1. CASE UNCHANGED nodeVars
  BY Zenon, <1>1 DEF nodeVars, StoreStep, Quiet
<1>2. CASE StartNode
  BY Zenon, <1>2 DEF StartNode, StoreStep, Quiet
<1>3. CASE \E b \in Blocks : ProcessNextBlock(b)
  BY Zenon, <1>3 DEF ProcessNextBlock, StoreStep
<1>4. CASE \E r \in Readers : Look(r)
  BY Zenon, <1>4 DEF Look, StoreStep, Quiet
<1>5. CASE Stop
  BY Zenon, <1>5 DEF Stop, StoreStep, Quiet
<1>6. CASE \E p \in Parts : SavePart(p)
  BY Zenon, <1>6 DEF SavePart, StoreStep, Quiet
<1>7. CASE SaveChain
  BY Zenon, <1>7 DEF SaveChain, StoreStep, Quiet
<1>8. CASE CrashNode
  BY Zenon, <1>8 DEF CrashNode, StoreStep
<1> QED  BY Zenon, <1>1, <1>2, <1>3, <1>4, <1>5, <1>6, <1>7, <1>8 DEF NodeNext

(* The invariant of Storage holds in a node. *)
LEMMA NodeKeepsStorageInv == NodeSpec => []StorageInv
<1>1. NodeInit => StorageInv
  BY Zenon, InitInv DEF NodeInit
<1>2. StorageInv /\ [NodeNext]_nodeVars => StorageInv'
  BY Zenon, NodeNextIsStoreStep, StoreStepInv
<1> QED  BY <1>1, <1>2, PTL DEF NodeSpec

-----------------------------------------------------------------------------
(* Theorems. *)

(* Storage::~Storage and the constructor keep the promise of ChainStore:    *)
(* a node that dies between any two database writes of its start or its     *)
(* shutdown comes back with the chain of its last complete shutdown, and    *)
(* nothing but pushBack, a completed shutdown or a crash changes either     *)
(* chain.                                                                   *)
THEOREM StoreIsDurable == NodeSpec => ImplementsChainStore
<1>1. NodeInit => ChainStore!Init
  BY Zenon, InitInv DEF NodeInit, ChainStore!Init
<1>2. StorageInv /\ [NodeNext]_nodeVars => [ChainStore!Next]_(ChainStore!vars)
  BY Zenon, NodeNextIsStoreStep, StoreStepInv
<1> QED
  BY <1>1, <1>2, NodeKeepsStorageInv, PTL DEF NodeSpec, ImplementsChainStore, ChainStore!Spec

(* The same of Storage by itself, whoever calls its constructor and its     *)
(* destructor.                                                              *)
THEOREM StorageAloneIsDurable == Spec => ImplementsChainStore
<1>1. Init => StorageInv /\ ChainStore!Init
  BY Zenon, InitInv DEF ChainStore!Init
<1>2. StorageInv /\ [Next]_vars => StorageInv' /\ [ChainStore!Next]_(ChainStore!vars)
  BY Zenon, NextIsStoreStep, StoreStepInv
<1> QED  BY <1>1, <1>2, PTL DEF Spec, ImplementsChainStore, ChainStore!Spec

(* A crash inside any later shutdown leaves a database that the constructor *)
(* of Storage loads, once initializeBlockchain has written genesis.         *)
THEOREM DatabaseStaysLoadable == NodeSpec => []InitializedLoads
<1>1. NodeInit => InitializedLoads
  BY Zenon DEF NodeInit, Init, InitializedLoads
<1>2. ASSUME StorageInv, InitializedLoads, StoreStep PROVE InitializedLoads'
  <2>1. CASE phase' # "failed"
    BY Zenon, <2>1 DEF InitializedLoads
  <2>2. CASE Load
    <3>1. phase = "ready" /\ db' = db /\ (Loadable => phase' = "on")
      BY Zenon, <2>2 DEF Load
    <3> QED  BY Zenon, <1>2, <3>1, LoadFacts DEF InitializedLoads
  <2>3. CASE UNCHANGED <<phase, db>>
    BY Zenon, <1>2, <2>3 DEF InitializedLoads
  <2>4. phase' # "failed" \/ Load \/ UNCHANGED <<phase, db>>
    BY ZenonT(30), <1>2 DEF StoreStep, Quiet, Start, PutGenesisHeight, PutGenesis, Close, SaveBlocks,
                SaveHeights, SaveTxs, SaveLatest, Die, PushBack, OnlyMem, ReaderStep, Ask,
                Enter, GetBlock, GetTx, GetTxInBlock, vars
  <2> QED  BY Zenon, <2>1, <2>2, <2>3, <2>4
<1>3. StorageInv /\ InitializedLoads /\ [NodeNext]_nodeVars => InitializedLoads'
  BY Zenon, <1>2, NodeNextIsStoreStep
<1> QED  BY <1>1, <1>3, NodeKeepsStorageInv, PTL DEF NodeSpec

(* Every block of the chain is in memory or in the database.                 *)
LEMMA BlocksAreKept ==
  ASSUME StorageInv, phase = "on", NEW i \in 1..Len(Log)
  PROVE  Log[i] \in mem.blockByHash \cup db.blocks
<1> DEFINE c == mem.chain
           n == Len(c)
           h1 == Height[c[1]]
<1>1. Held = c /\ phase \in Holding
  BY Zenon DEF Held, Holding
<1>2. Log = [k \in 1..(h1 + n) |-> IF k > h1 THEN c[k - h1] ELSE DbAt(k - 1)]
  BY Zenon, <1>1, LogHolding DEF StorageInv
<1>3. /\ n \in Nat \ {0} /\ h1 \in Nat /\ c \in Seq(Blocks) /\ Height[DbTip] \in Nat
      /\ Height[DbTip] \in h1..Height[Last(c)] /\ Genesis \in db.blocks
  BY Zenon, <1>1, HeldFacts, DbFacts DEF StorageInv, HeldChain
<1> HIDE DEF c, n, h1
<1>4. i \in 1..(h1 + n)
  <2>1. h1 + n \in Nat
    BY <1>3
  <2>2. Len(Log) = h1 + n
    BY <1>2, <2>1
  <2> QED  BY Zenon, <2>2
<1>5. CASE i > h1
  <2>1. Log[i] = c[i - h1] /\ i - h1 \in 1..n
    BY <1>2, <1>3, <1>4, <1>5
  <2>2. c[i - h1] \in Range(c)
    BY <1>3, <2>1 DEF Range, n
  <2> QED  BY Zenon, <2>1, <2>2 DEF StorageInv, Saving, c
<1>6. CASE ~(i > h1)
  <2>1. Log[i] = DbAt(i - 1) /\ i - 1 \in 0..Height[DbTip]
    BY SMTT(30), <1>2, <1>3, <1>4, <1>6
  <2> QED  BY Zenon, <1>3, <2>1 DEF StorageInv, DbChain, DbAt
<1> QED  BY Zenon, <1>5, <1>6

(* Storage::exists finds every block of the chain by its hash, the blocks   *)
(* that have left the chain in memory included.                             *)
THEOREM NoBlockIsLost == NodeSpec => []BlocksAreFound
<1>1. ASSUME StorageInv, phase = "on", NEW i \in 1..Len(Log)
      PROVE  BlockExists(Log[i]) # "NotFound"
  <2>1. Log[i] \in mem.blockByHash \cup db.blocks
    BY Zenon, <1>1, BlocksAreKept
  <2> QED  BY Zenon, <2>1 DEF BlockExists
<1>2. StorageInv => BlocksAreFound
  BY Zenon, <1>1 DEF BlocksAreFound
<1> QED  BY <1>2, NodeKeepsStorageInv, PTL


-----------------------------------------------------------------------------
(* The parts of the node. *)

(* The parts whose destructor has run in the shutdown under way. *)
Done(s) ==
  CASE s = "contracts" -> {"accounts"}
    [] s = "contractData" -> {"accounts", "contracts"}
    [] s = "chain" -> Parts
    [] OTHER -> {}

(* The destructors run one after the other on a loaded chain.  Without a    *)
(* torn shutdown a part that has been written is at the end of the chain,   *)
(* the others are where the database is.                                    *)
PartsInv ==
  /\ stage \in {"on", "accounts", "contracts", "contractData", "chain"}
  /\ stage # "on" => phase \in Holding
  /\ phase \in Closing => stage = "chain"
  /\ torn \in BOOLEAN /\ DOMAIN stored = Parts
  /\ ~torn =>
       /\ \A p \in Parts : stored[p].blocks = IF p \in Done(stage) THEN Log ELSE SavedLog
       /\ phase \in Holding => \A p \in Parts : applied[p].blocks = Log

(* The order of the destructors. *)
LEMMA AfterFacts ==
  /\ SaveOrder[1] = "accounts" /\ After("accounts") = "contracts"
  /\ After("contracts") = "contractData" /\ After("contractData") = "chain"
  /\ After("chain") = "on"
<1>1. /\ DOMAIN SaveOrder = {1, 2, 3, 4} /\ Len(SaveOrder) = 4
      /\ SaveOrder[1] = "accounts" /\ SaveOrder[2] = "contracts"
      /\ SaveOrder[3] = "contractData" /\ SaveOrder[4] = "chain"
  BY DEF SaveOrder
<1>2. ASSUME NEW p, NEW j \in {1, 2, 3, 4}, SaveOrder[j] = p,
             \A k \in {1, 2, 3, 4} : SaveOrder[k] = p => k = j
      PROVE  After(p) = IF j < 4 THEN SaveOrder[j + 1] ELSE "on"
  <2>1. (CHOOSE k \in DOMAIN SaveOrder : SaveOrder[k] = p) = j
    BY Zenon, <1>1, <1>2
  <2> DEFINE i == CHOOSE k \in DOMAIN SaveOrder : SaveOrder[k] = p
  <2>2. After(p) = IF i < Len(SaveOrder) THEN SaveOrder[i + 1] ELSE "on"
    BY Zenon DEF After
  <2>3. i = j
    BY Zenon, <2>1
  <2> HIDE DEF i
  <2> QED  BY Zenon, <1>1, <2>2, <2>3
<1>3. After("accounts") = SaveOrder[1 + 1]
  BY <1>1, <1>2
<1>4. After("contracts") = SaveOrder[2 + 1]
  BY <1>1, <1>2
<1>5. After("contractData") = SaveOrder[3 + 1]
  BY <1>1, <1>2
<1>6. After("chain") = "on"
  BY <1>1, <1>2
<1> QED  BY <1>1, <1>3, <1>4, <1>5, <1>6

(* A new node.                                                               *)
LEMMA PartsInvInit ==
  ASSUME NodeInit PROVE PartsInv
<1>1. Log = <<Genesis>> /\ SavedLog = <<Genesis>> /\ phase = "off"
  BY Zenon, InitInv DEF NodeInit, Init
<1>2. /\ stage = "on" /\ torn = FALSE /\ DOMAIN stored = Parts
      /\ \A p \in Parts : stored[p].blocks = <<Genesis>>
  BY Zenon DEF NodeInit, NoEffect
<1> QED  BY Zenon, <1>1, <1>2 DEF PartsInv, Holding, Closing

(* A step that leaves the parts and both chains alone. *)
LEMMA PartsFrame ==
  ASSUME PartsInv, UNCHANGED parts, Log' = Log, SavedLog' = SavedLog,
         phase \in Holding <=> phase' \in Holding, phase' \in Closing => stage = "chain"
  PROVE  PartsInv'
BY Zenon DEF PartsInv, parts, Done

(* Every step of the node.                                                   *)
LEMMA PartsInvStep ==
  ASSUME StorageInv, PartsInv, [NodeNext]_nodeVars
  PROVE  PartsInv'
<1> USE DEF Holding, Closing
<1>1. CASE UNCHANGED nodeVars
  <2>1. Log' = Log /\ SavedLog' = SavedLog /\ phase' = phase /\ UNCHANGED parts
    BY Zenon, <1>1, FrameStep DEF nodeVars, vars
  <2> QED  BY Zenon, <2>1, PartsFrame DEF PartsInv
<1>2. CASE (Start \/ PutGenesisHeight \/ PutGenesis) /\ stage = "on" /\ UNCHANGED parts
  <2>1. Log' = Log /\ SavedLog' = SavedLog
    BY Zenon, <1>2, StartInv, PutGenesisHeightInv, PutGenesisInv
  <2>2. phase \notin Holding /\ phase' \notin Holding
    BY Zenon, <1>2 DEF Start, PutGenesisHeight, PutGenesis
  <2> QED  BY Zenon, <1>2, <2>1, <2>2, PartsFrame
<1>3. CASE Load /\ LoadParts /\ UNCHANGED <<stage, stored, torn>>
  <2>1. /\ phase = "ready" /\ phase' \in {"on", "failed"}
        /\ applied' = stored /\ UNCHANGED <<stage, stored, torn>>
    BY Zenon, <1>3 DEF Load, LoadParts
  <2>2. stage = "on"
    BY Zenon, <2>1 DEF PartsInv
  <2>3. Log' = Log /\ SavedLog' = SavedLog /\ Log = SavedLog
    BY Zenon, <1>3, <2>1, LoadInv, LogNotHolding DEF StorageInv
  <2> QED  BY Zenon, <2>1, <2>2, <2>3 DEF PartsInv, Done
<1>4. CASE \E b \in Blocks : ProcessNextBlock(b)
  <2>1. PICK b \in Blocks : ProcessNextBlock(b)
    BY Zenon, <1>4
  <2>2. /\ stage = "on" /\ phase = "on" /\ phase' = phase /\ UNCHANGED <<stage, stored, torn>>
        /\ \A p \in Parts : applied'[p].blocks = Append(applied[p].blocks, b)
    BY Zenon, <2>1 DEF ProcessNextBlock, PushBack, OnlyMem, WithBlock
  <2>3. Log' = Append(Log, b) /\ SavedLog' = SavedLog
    BY Zenon, <2>1, PushBackInv DEF ProcessNextBlock
  <2> QED  BY Zenon, <2>2, <2>3 DEF PartsInv, Done
<1>5. CASE \E r \in Readers : Look(r)
  <2>1. PICK r \in Readers : Look(r)
    BY Zenon, <1>5
  <2>2. Log' = Log /\ SavedLog' = SavedLog /\ UNCHANGED parts
    BY Zenon, <2>1, ReaderInv DEF Look
  <2>3. phase' = phase
    BY Zenon, <2>1 DEF Look, ReaderStep, Ask, Enter, GetBlock, GetTx, GetTxInBlock
  <2> QED  BY Zenon, <2>2, <2>3, PartsFrame DEF PartsInv
<1>6. CASE Stop
  <2>1. /\ phase = "on" /\ stage = "on" /\ stage' = "accounts"
        /\ UNCHANGED <<vars, applied, stored, torn>>
    BY Zenon, <1>6, AfterFacts DEF Stop
  <2>2. Log' = Log /\ SavedLog' = SavedLog /\ phase' = phase
    BY Zenon, <2>1, FrameStep DEF vars
  <2> QED  BY Zenon, <2>1, <2>2 DEF PartsInv, Done
<1>7. CASE \E p \in Parts : SavePart(p)
  <2>1. PICK p \in Parts : SavePart(p)
    BY Zenon, <1>7
  <2>2. /\ stage = p /\ stage' = After(p) /\ stored' = [stored EXCEPT ![p] = applied[p]]
        /\ UNCHANGED <<vars, applied, torn>>
    BY Zenon, <2>1 DEF SavePart
  <2>3. Log' = Log /\ SavedLog' = SavedLog /\ phase' = phase
    BY Zenon, <2>2, FrameStep DEF vars
  <2>4. stage # "on" /\ phase \in Holding /\ phase \notin Closing
    BY Zenon, <2>1, <2>2 DEF Parts, PartsInv
  <2>5. /\ DOMAIN stored' = Parts /\ stored'[p] = applied[p]
        /\ \A q \in Parts \ {p} : stored'[q] = stored[q]
    BY Zenon, <2>2 DEF PartsInv
  <2>6. /\ stage' \in {"contracts", "contractData", "chain"}
        /\ Done(stage') = Done(p) \cup {p}
    BY Zenon, <2>1, <2>2, AfterFacts DEF Done, Parts
  <2> QED  BY Zenon, <2>2, <2>3, <2>4, <2>5, <2>6 DEF PartsInv
<1>8. CASE SaveChain
  <2>1. stage = "chain" /\ UNCHANGED <<applied, stored, torn>> /\ Done("chain") = Parts
    BY Zenon, <1>8 DEF SaveChain, Done
  <2>2. CASE (Close \/ SaveBlocks \/ SaveHeights \/ SaveTxs) /\ UNCHANGED stage
    <3>1. Log' = Log /\ SavedLog' = SavedLog
      BY Zenon, <2>2, CloseInv, SaveBlocksInv, SaveHeightsInv, SaveTxsInv
    <3>2. phase \in Holding /\ phase' \in Holding
      BY Zenon, <2>2 DEF Close, SaveBlocks, SaveHeights, SaveTxs
    <3> QED  BY Zenon, <2>1, <2>2, <3>1, <3>2, PartsFrame DEF parts
  <2>3. CASE SaveLatest /\ stage' = After("chain")
    <3>1. Log' = Log /\ SavedLog' = Log /\ stage' = "on" /\ phase' = "off" /\ phase = "latest"
      BY Zenon, <2>3, SaveLatestInv, AfterFacts DEF SaveLatest
    <3> QED  BY Zenon, <2>1, <3>1 DEF PartsInv, Done
  <2> QED  BY Zenon, <1>8, <2>2, <2>3 DEF SaveChain
<1>9. CASE CrashNode
  <2>1. /\ phase' = "off" /\ stage' = "on" /\ UNCHANGED <<applied, stored>>
        /\ torn' = (torn \/ Written) /\ SavedLog' = SavedLog
    BY Zenon, <1>9, DieInv DEF CrashNode, Die
  <2>2. ~Written => stage \in {"on", "accounts"}
    BY Zenon, AfterFacts DEF Written
  <2>3. torn' \in BOOLEAN /\ (~torn' => ~torn /\ ~Written)
    BY Zenon, <2>1 DEF PartsInv
  <2> QED  BY Zenon, <2>1, <2>2, <2>3 DEF PartsInv, Done
<1> QED
  BY SMTT(30), <1>1, <1>2, <1>3, <1>4, <1>5, <1>6, <1>7, <1>8, <1>9 DEF NodeNext, StartNode

(* After any number of shutdowns and of crashes outside the writes of one,  *)
(* the accounts and contracts that State and ContractManager work on are    *)
(* those of the block the chain ends with.                                  *)
THEOREM UntornIsCurrent == NodeSpec => []UntornStateIsCurrent
<1>1. PartsInv => UntornStateIsCurrent
  BY Zenon DEF PartsInv, UntornStateIsCurrent, StateAtCurrentBlock, Holding
<1>2. StorageInv /\ PartsInv /\ [NodeNext]_nodeVars => PartsInv'
  BY Zenon, PartsInvStep
<1>3. NodeInit => PartsInv
  BY Zenon, PartsInvInit
<1> QED  BY <1>1, <1>2, <1>3, NodeKeepsStorageInv, PTL DEF NodeSpec

(* Both chains run from height 0 to their tips, and that of the database is  *)
(* the beginning of that of the node.                                        *)
LEMMA LogIsChain ==
  ASSUME StorageInv
  PROVE  /\ Log \in Seq(Blocks) /\ Len(Log) \in Nat \ {0}
         /\ Log[Len(Log)] = Tip /\ \A i \in 1..Len(Log) : Height[Log[i]] = i - 1
         /\ SavedLog \in Seq(Blocks) /\ Len(SavedLog) = Height[DbTip] + 1
         /\ SavedLog[Len(SavedLog)] = DbTip
         /\ Len(SavedLog) <= Len(Log) /\ \A i \in 1..Len(SavedLog) : Log[i] = SavedLog[i]
<1> DEFINE m == Height[DbTip] + 1
<1>1. m \in Nat \ {0} /\ DbTip \in Blocks /\ \A h : DbAt(h) \in Blocks
  BY DbFacts DEF StorageInv
<1>2. SavedLog = [i \in 1..m |-> DbAt(i - 1)]
  BY Zenon DEF SavedLog
<1>3. DbAt(m - 1) = DbTip
  <2>1. m - 1 = Height[DbTip]
    BY DbFacts DEF StorageInv
  <2> HIDE DEF m
  <2>2. DbAt(m - 1) = DbAt(Height[DbTip])
    BY Zenon, <2>1 DEF DbAt
  <2> QED  BY Zenon, <2>2 DEF StorageInv, DbChain
<1>4. \A i \in 1..m : Height[DbAt(i - 1)] = i - 1
  <2>1. \A i \in 1..m : i - 1 \in 0..Height[DbTip]
    BY DbFacts DEF StorageInv
  <2> QED  BY Zenon, <2>1, DbHeights DEF StorageInv
<1> HIDE DEF m
<1>5. SavedLog \in Seq(Blocks) /\ Len(SavedLog) = m /\ SavedLog[m] = DbTip
  <2>1. m \in 1..m
    BY <1>1
  <2> QED  BY <1>1, <1>2, <1>3, <2>1
<1>6. CASE phase \notin Holding
  <2>1. Log = SavedLog /\ Tip = DbTip
    BY Zenon, <1>6, LogNotHolding DEF StorageInv
  <2> QED  BY <1>1, <1>2, <1>4, <1>5, <2>1 DEF m
<1>7. CASE phase \in Holding
  <2> DEFINE h1 == Height[Held[1]]
             n == Len(Held)
  <2>1. Log = [i \in 1..(h1 + n) |-> IF i > h1 THEN Held[i - h1] ELSE DbAt(i - 1)]
    BY Zenon, <1>7, LogHolding DEF StorageInv
  <2>2. /\ h1 \in Nat /\ n \in Nat \ {0} /\ \A i \in 1..n : Held[i] \in Blocks
        /\ Last(Held) = Held[n] /\ Height[Last(Held)] = h1 + n - 1 /\ Held # <<>>
    BY Zenon, <1>7, HeldFacts DEF StorageInv, HeldChain
  <2>3. /\ \A i \in 1..n : Height[Held[i]] = h1 + i - 1
        /\ Height[DbTip] \in h1..Height[Last(Held)]
        /\ \A i \in 1..n : Height[Held[i]] <= Height[DbTip] => Held[i] = DbAt(Height[Held[i]])
    BY Zenon, <1>7 DEF StorageInv, HeldChain
  <2>4. Tip = Held[n]
    BY Zenon, <2>2 DEF Tip
  <2> HIDE DEF h1, n
  <2>5. m - 1 = Height[DbTip] /\ h1 + 1 <= m /\ m <= h1 + n
    BY <1>1, <2>2, <2>3 DEF m
  <2>6. ASSUME NEW i \in 1..(h1 + n), i > h1
        PROVE  /\ i - h1 \in 1..n /\ Held[i - h1] \in Blocks /\ Height[Held[i - h1]] = i - 1
               /\ i <= m => Held[i - h1] = DbAt(i - 1)
    <3>1. i - h1 \in 1..n /\ h1 + (i - h1) - 1 = i - 1
      BY <2>2, <2>6
    <3>2. Height[Held[i - h1]] = i - 1
      BY Zenon, <2>3, <3>1
    <3>3. i <= m => i - 1 <= Height[DbTip]
      BY <1>1, <2>2, <2>5
    <3> QED  BY Zenon, <2>2, <2>3, <3>1, <3>2, <3>3
  <2>7. ASSUME NEW i \in 1..(h1 + n), ~(i > h1) PROVE i \in 1..m
    BY <1>1, <2>2, <2>5, <2>7
  <2>8. ASSUME NEW i \in 1..(h1 + n)
        PROVE  /\ Log[i] \in Blocks /\ Height[Log[i]] = i - 1
               /\ i <= m => Log[i] = DbAt(i - 1)
    BY Zenon, <1>1, <1>4, <2>1, <2>6, <2>7
  <2>9. Log \in Seq(Blocks) /\ Len(Log) = h1 + n
    <3>1. h1 + n \in Nat /\ Log = [i \in 1..(h1 + n) |-> Log[i]]
      BY <2>1, <2>2
    <3> QED  BY <2>8, <3>1
  <2>10. Log[h1 + n] = Tip
    <3>1. h1 + n \in 1..(h1 + n) /\ h1 + n > h1 /\ (h1 + n) - h1 = n
      BY <2>2
    <3> QED  BY Zenon, <2>1, <2>4, <3>1
  <2>11. \A i \in 1..m : i \in 1..(h1 + n) /\ i <= m
    BY <1>1, <2>2, <2>5
  <2>12. \A i \in 1..m : Log[i] = SavedLog[i]
    BY Zenon, <1>2, <2>8, <2>11
  <2>13. h1 + n \in Nat \ {0}
    BY <2>2
  <2> QED  BY SMTT(30), <1>5, <2>5, <2>8, <2>9, <2>10, <2>12, <2>13 DEF m
<1> QED  BY Zenon, <1>6, <1>7

(* A block that is pushed has the height that follows that of the tip.       *)
LEMMA PushBackHeight ==
  ASSUME StorageInv, NEW b \in Blocks, PushBack(b)
  PROVE  Height[b] = Len(Log) /\ Height[b] > 0
<1>1. phase = "on" /\ mem.chain # <<>>
  BY Zenon DEF PushBack, StorageInv, HeldChain, Held, Holding
<1>2. Height[b] = Height[Tip] + 1
  BY Zenon, <1>1 DEF PushBack, Tip, Held
<1>3. Height[Tip] = Len(Log) - 1 /\ Len(Log) \in Nat \ {0}
  <2>1. Len(Log) \in 1..Len(Log)
    BY LogIsChain
  <2> QED  BY Zenon, <2>1, LogIsChain
<1> QED  BY <1>2, <1>3

(* What the database holds of a part is never behind the chain of the        *)
(* database, and for a part whose destructor has run not behind that of the  *)
(* node; a part that is loaded is not behind that either.                    *)
TipNonce(l) == NonceAfter(l[Len(l)])

NonceInv ==
  /\ TipNonce(SavedLog) <= TipNonce(Log)
  /\ \A p \in Parts : /\ stored[p].nonce \in Nat
                      /\ stored[p].nonce >= TipNonce(SavedLog)
                      /\ p \in Done(stage) => stored[p].nonce >= TipNonce(Log)
  /\ phase \in Holding =>
       \A p \in Parts : applied[p].nonce \in Nat /\ applied[p].nonce >= TipNonce(Log)

(* Nonces are natural numbers.                                               *)
LEMMA TipNonceType ==
  ASSUME StorageInv PROVE TipNonce(Log) \in Nat /\ TipNonce(SavedLog) \in Nat
<1>1. Tip \in Blocks /\ DbTip \in Blocks
  <2>1. Len(Log) \in 1..Len(Log)
    BY LogIsChain
  <2> QED  BY <2>1, LogIsChain, DbFacts DEF StorageInv
<1>2. TipNonce(Log) = NonceAfter(Tip) /\ TipNonce(SavedLog) = NonceAfter(DbTip)
  BY Zenon, LogIsChain DEF TipNonce
<1> QED  BY <1>1, <1>2, ShutdownAssumption DEF NonceAfter

(* A step that leaves the parts and both chains alone.                       *)
LEMMA NonceFrame ==
  ASSUME NonceInv, UNCHANGED parts, Log' = Log, SavedLog' = SavedLog,
         phase \in Holding <=> phase' \in Holding
  PROVE  NonceInv'
BY Zenon DEF NonceInv, parts, Done, TipNonce

(* Every step of the node.                                                   *)
LEMMA NonceInvStep ==
  ASSUME StorageInv, PartsInv, NonceInv, [NodeNext]_nodeVars
  PROVE  NonceInv'
<1> USE DEF Holding, Closing
<1>1. CASE UNCHANGED nodeVars
  <2>1. Log' = Log /\ SavedLog' = SavedLog /\ phase' = phase /\ UNCHANGED parts
    BY Zenon, <1>1, FrameStep DEF nodeVars, vars
  <2> QED  BY Zenon, <2>1, NonceFrame
<1>2. CASE (Start \/ PutGenesisHeight \/ PutGenesis) /\ stage = "on" /\ UNCHANGED parts
  <2>1. Log' = Log /\ SavedLog' = SavedLog
    BY Zenon, <1>2, StartInv, PutGenesisHeightInv, PutGenesisInv
  <2>2. phase \notin Holding /\ phase' \notin Holding
    BY Zenon, <1>2 DEF Start, PutGenesisHeight, PutGenesis
  <2> QED  BY Zenon, <1>2, <2>1, <2>2, NonceFrame
<1>3. CASE Load /\ LoadParts /\ UNCHANGED <<stage, stored, torn>>
  <2>1. phase = "ready" /\ applied' = stored /\ UNCHANGED <<stage, stored>>
    BY Zenon, <1>3 DEF Load, LoadParts
  <2>2. Log' = Log /\ SavedLog' = SavedLog /\ Log = SavedLog
    BY Zenon, <1>3, <2>1, LoadInv, LogNotHolding DEF StorageInv
  <2> QED  BY Zenon, <2>1, <2>2 DEF NonceInv, Done, TipNonce
<1>4. CASE \E b \in Blocks : ProcessNextBlock(b)
  <2>1. PICK b \in Blocks : ProcessNextBlock(b)
    BY Zenon, <1>4
  <2>2. /\ stage = "on" /\ phase = "on" /\ phase' = phase /\ UNCHANGED <<stage, stored>>
        /\ \A p \in Parts : applied'[p].nonce = applied[p].nonce + Uses[b]
    BY Zenon, <2>1 DEF ProcessNextBlock, PushBack, OnlyMem, WithBlock
  <2>3. /\ Log' = Append(Log, b) /\ SavedLog' = SavedLog /\ Prev[b] = Log[Len(Log)]
        /\ Height[b] > 0
    BY Zenon, <2>1, PushBackInv, PushBackHeight DEF ProcessNextBlock
  <2>4. b # Genesis
    BY <2>3, StorageAssumption
  <2>5. FirstNonce[b] = TipNonce(Log) /\ Uses[b] \in Nat
    BY Zenon, <2>3, <2>4, ShutdownAssumption DEF TipNonce, NonceAfter
  <2>6. TipNonce(Log)' = TipNonce(Log) + Uses[b]
    <3>1. Log \in Seq(Blocks)
      BY Zenon, LogIsChain
    <3>2. Log'[Len(Log')] = b
      BY <2>3, <3>1
    <3> QED  BY Zenon, <2>5, <3>2 DEF TipNonce, NonceAfter
  <2>7. TipNonce(SavedLog)' = TipNonce(SavedLog)
    BY Zenon, <2>3 DEF TipNonce
  <2>8. TipNonce(Log) \in Nat /\ TipNonce(SavedLog) \in Nat
    BY Zenon, TipNonceType
  <2>9. Done(stage) = {} /\ Done(stage)' = {}
    BY Zenon, <2>2 DEF Done
  <2> QED  BY <2>2, <2>5, <2>6, <2>7, <2>8, <2>9 DEF NonceInv
<1>5. CASE \E r \in Readers : Look(r)
  <2>1. PICK r \in Readers : Look(r)
    BY Zenon, <1>5
  <2>2. Log' = Log /\ SavedLog' = SavedLog /\ UNCHANGED parts
    BY Zenon, <2>1, ReaderInv DEF Look
  <2>3. phase' = phase
    BY Zenon, <2>1 DEF Look, ReaderStep, Ask, Enter, GetBlock, GetTx, GetTxInBlock
  <2> QED  BY Zenon, <2>2, <2>3, NonceFrame
<1>6. CASE Stop
  <2>1. stage = "on" /\ stage' = "accounts" /\ UNCHANGED <<vars, applied, stored>>
    BY Zenon, <1>6, AfterFacts DEF Stop
  <2>2. Log' = Log /\ SavedLog' = SavedLog /\ phase' = phase
    BY Zenon, <2>1, FrameStep DEF vars
  <2> QED  BY Zenon, <2>1, <2>2 DEF NonceInv, Done, TipNonce
<1>7. CASE \E p \in Parts : SavePart(p)
  <2>1. PICK p \in Parts : SavePart(p)
    BY Zenon, <1>7
  <2>2. /\ stage = p /\ stage' = After(p) /\ stored' = [stored EXCEPT ![p] = applied[p]]
        /\ UNCHANGED <<vars, applied>>
    BY Zenon, <2>1 DEF SavePart
  <2>3. Log' = Log /\ SavedLog' = SavedLog /\ phase' = phase
    BY Zenon, <2>2, FrameStep DEF vars
  <2>4. stage # "on" /\ phase \in Holding
    BY Zenon, <2>1, <2>2 DEF Parts, PartsInv
  <2>5. /\ stored'[p] = applied[p]
        /\ \A q \in Parts \ {p} : stored'[q] = stored[q]
    BY Zenon, <2>2 DEF PartsInv
  <2>6. Done(stage)' = Done(stage) \cup {p}
    BY Zenon, <2>1, <2>2, AfterFacts DEF Done, Parts
  <2>7. TipNonce(Log)' = TipNonce(Log) /\ TipNonce(SavedLog)' = TipNonce(SavedLog)
    BY Zenon, <2>3 DEF TipNonce
  <2>8. TipNonce(Log) \in Nat /\ TipNonce(SavedLog) \in Nat
    BY Zenon, TipNonceType
  <2> QED  BY <2>2, <2>3, <2>4, <2>5, <2>6, <2>7, <2>8 DEF NonceInv
<1>8. CASE SaveChain
  <2>1. stage = "chain" /\ UNCHANGED <<applied, stored, torn>> /\ Done("chain") = Parts
    BY Zenon, <1>8 DEF SaveChain, Done
  <2>2. CASE (Close \/ SaveBlocks \/ SaveHeights \/ SaveTxs) /\ UNCHANGED stage
    <3>1. Log' = Log /\ SavedLog' = SavedLog
      BY Zenon, <2>2, CloseInv, SaveBlocksInv, SaveHeightsInv, SaveTxsInv
    <3>2. phase \in Holding /\ phase' \in Holding
      BY Zenon, <2>2 DEF Close, SaveBlocks, SaveHeights, SaveTxs
    <3> QED  BY Zenon, <2>1, <2>2, <3>1, <3>2, NonceFrame DEF parts
  <2>3. CASE SaveLatest /\ stage' = After("chain")
    <3>1. Log' = Log /\ SavedLog' = Log /\ stage' = "on" /\ phase' = "off"
      BY Zenon, <2>3, SaveLatestInv, AfterFacts DEF SaveLatest
    <3>2. TipNonce(Log) \in Nat
      BY Zenon, TipNonceType
    <3>3. Done(stage)' = {} /\ TipNonce(Log)' = TipNonce(Log) /\ TipNonce(SavedLog)' = TipNonce(Log)
      BY Zenon, <3>1 DEF Done, TipNonce
    <3> QED  BY <2>1, <3>1, <3>2, <3>3 DEF NonceInv
  <2> QED  BY Zenon, <1>8, <2>2, <2>3 DEF SaveChain
<1>9. CASE CrashNode
  <2>1. /\ phase' = "off" /\ stage' = "on" /\ UNCHANGED <<applied, stored>>
        /\ Log' = SavedLog /\ SavedLog' = SavedLog
    BY Zenon, <1>9, DieInv DEF CrashNode, Die
  <2>2. TipNonce(SavedLog) \in Nat
    BY Zenon, TipNonceType
  <2>3. /\ Done(stage)' = {} /\ TipNonce(Log)' = TipNonce(SavedLog)
        /\ TipNonce(SavedLog)' = TipNonce(SavedLog)
    BY Zenon, <2>1 DEF Done, TipNonce
  <2> QED  BY <2>1, <2>2, <2>3 DEF NonceInv
<1> QED
  BY Zenon, <1>1, <1>2, <1>3, <1>4, <1>5, <1>6, <1>7, <1>8, <1>9 DEF NodeNext, StartNode

(* The accounts and contracts of a node that runs have executed every        *)
(* transaction of its chain, wherever a shutdown was torn: State and         *)
(* ContractManager are destroyed, and written, before Storage.               *)
THEOREM StateCoversChain == NodeSpec => []StateNotBehindChain
<1>1. ASSUME NodeInit PROVE NonceInv
  <2>1. Log = <<Genesis>> /\ SavedLog = <<Genesis>> /\ phase = "off" /\ stage = "on"
    BY Zenon, <1>1, InitInv DEF NodeInit, Init
  <2>2. \A p \in Parts : stored[p].nonce = 0
    BY Zenon, <1>1 DEF NodeInit, NoEffect
  <2>3. TipNonce(Log) = 0 /\ TipNonce(SavedLog) = 0
    BY <2>1, ShutdownAssumption DEF TipNonce, NonceAfter
  <2> QED  BY <2>1, <2>2, <2>3 DEF NonceInv, Holding, Closing, Done
<1>2. StorageInv /\ NonceInv => StateNotBehindChain
  BY Zenon, LogIsChain DEF NonceInv, StateNotBehindChain, TipNonce, Holding
<1>3. StorageInv /\ PartsInv /\ NonceInv /\ [NodeNext]_nodeVars => PartsInv' /\ NonceInv'
  BY Zenon, PartsInvStep, NonceInvStep
<1>4. NodeInit => PartsInv /\ NonceInv
  BY Zenon, <1>1, PartsInvInit
<1> QED  BY <1>2, <1>3, <1>4, NodeKeepsStorageInv, PTL DEF NodeSpec

-----------------------------------------------------------------------------
(* Maps and places. *)

(* An entry after a put is a new one or an old one.                          *)
LEMMA OverEntry ==
  ASSUME NEW f, NEW g, NEW k \in DOMAIN Over(f, g)
  PROVE  \/ k \in DOMAIN f /\ Over(f, g)[k] = f[k]
         \/ k \in DOMAIN g /\ Over(f, g)[k] = g[k]
BY Zenon DEF Over

(* The places of the transactions of a block.                                *)
LEMMA TxPlacesFacts ==
  ASSUME NEW b \in Blocks
  PROVE  /\ DOMAIN TxPlaces(b) = Range(Txs[b])
         /\ \A t \in Range(Txs[b]) :
              /\ TxPlaces(b)[t].block = b /\ TxPlaces(b)[t].height = Height[b]
              /\ TxPlaces(b)[t].index + 1 \in DOMAIN Txs[b]
              /\ Txs[b][TxPlaces(b)[t].index + 1] = t
              /\ TxPlaces(b)[t] \in Place
<1>1. DOMAIN TxPlaces(b) = Range(Txs[b])
  BY Zenon DEF TxPlaces
<1>2. ASSUME NEW t \in Range(Txs[b])
      PROVE  /\ TxPlaces(b)[t].block = b /\ TxPlaces(b)[t].height = Height[b]
             /\ TxPlaces(b)[t].index + 1 \in DOMAIN Txs[b]
             /\ Txs[b][TxPlaces(b)[t].index + 1] = t
             /\ TxPlaces(b)[t] \in Place
  <2> DEFINE i == CHOOSE k \in DOMAIN Txs[b] : Txs[b][k] = t
  <2>1. \E k \in DOMAIN Txs[b] : Txs[b][k] = t
    BY Zenon DEF Range
  <2>2. i \in DOMAIN Txs[b] /\ Txs[b][i] = t
    BY Zenon, <2>1
  <2>3. TxPlaces(b)[t] = [block |-> b, index |-> i - 1, height |-> Height[b]]
    BY Zenon DEF TxPlaces
  <2>4. \A k \in DOMAIN Txs[b] : k \in Nat \ {0}
    <3>1. PICK s \in Seq(Range(Txs[b])) : s = Txs[b]
      BY Zenon, StorageAssumption
    <3>2. \A k \in DOMAIN s : k \in Nat \ {0}
      OBVIOUS
    <3> QED  BY Zenon, <3>1, <3>2
  <2> HIDE DEF i
  <2>5. i - 1 \in Nat /\ (i - 1) + 1 = i
    BY <2>2, <2>4
  <2> QED  BY <2>2, <2>3, <2>5, StorageAssumption DEF Place
<1> QED  BY Zenon, <1>1, <1>2

(* The places of the transactions of several blocks.                         *)
LEMMA AllPlacesFacts ==
  ASSUME NEW bs \in SUBSET Blocks
  PROVE  /\ \A t \in DOMAIN AllPlaces(bs) :
              \E b \in bs : t \in Range(Txs[b]) /\ AllPlaces(bs)[t] = TxPlaces(b)[t]
         /\ \A b \in bs : Range(Txs[b]) \subseteq DOMAIN AllPlaces(bs)
<1> DEFINE ts == UNION {Range(Txs[b]) : b \in bs}
<1>1. AllPlaces(bs) = [t \in ts |-> TxPlaces(CHOOSE b \in bs : t \in Range(Txs[b]))[t]]
  BY Zenon DEF AllPlaces
<1>2. ASSUME NEW t \in ts
      PROVE  \E b \in bs : t \in Range(Txs[b]) /\ AllPlaces(bs)[t] = TxPlaces(b)[t]
  <2> DEFINE c == CHOOSE b \in bs : t \in Range(Txs[b])
  <2>1. \E b \in bs : t \in Range(Txs[b])
    OBVIOUS
  <2>2. c \in bs /\ t \in Range(Txs[c])
    BY Zenon, <2>1
  <2>3. AllPlaces(bs)[t] = TxPlaces(c)[t]
    BY Zenon, <1>1
  <2> QED  BY Zenon, <2>2, <2>3
<1>3. DOMAIN AllPlaces(bs) = ts
  BY Zenon, <1>1
<1>4. \A b \in bs : Range(Txs[b]) \subseteq ts
  OBVIOUS
<1> QED  BY Zenon, <1>2, <1>3, <1>4

-----------------------------------------------------------------------------
(* Types. *)

(* What TypeOK says beyond Shape, pointwise.                                 *)
Typed ==
  /\ DOMAIN cache = {"blocks", "txs"}
  /\ mem.blockByHash \subseteq Blocks /\ cache.blocks \subseteq Blocks /\ db.blocks \subseteq Blocks
  /\ \A h \in DOMAIN mem.hashByHeight : h \in Nat /\ mem.hashByHeight[h] \in Blocks
  /\ \A t \in DOMAIN mem.txByHash : mem.txByHash[t] \in Place
  /\ \A t \in DOMAIN db.txs : db.txs[t] \in Place
  /\ crashes \in 0..MaxCrashes

(* The places of the transactions of blocks are places.                      *)
LEMMA PlacesType ==
  ASSUME NEW bs \in SUBSET Blocks
  PROVE  \A t \in DOMAIN AllPlaces(bs) : AllPlaces(bs)[t] \in Place
<1> TAKE t \in DOMAIN AllPlaces(bs)
<1>1. PICK b \in bs : t \in Range(Txs[b]) /\ AllPlaces(bs)[t] = TxPlaces(b)[t]
  BY Zenon, AllPlacesFacts
<1> QED  BY Zenon, <1>1, TxPlacesFacts

(* Every step of the store keeps the types.                                  *)
LEMMA TypedStep ==
  ASSUME StorageInv, Typed, StoreStep
  PROVE  Typed'
<1> USE DEF OnlyDB, OnlyMem
<1>1. CASE UNCHANGED vars
  BY Zenon, <1>1 DEF vars, Typed
<1>2. CASE Start \/ PutGenesisHeight \/ PutGenesis \/ SaveBlocks \/ SaveHeights \/ SaveLatest
  <2>1. /\ UNCHANGED <<mem, cache, crashes>>
        /\ db'.txs = db.txs
        /\ \/ db'.blocks = db.blocks \/ db'.blocks = db.blocks \cup {Genesis}
           \/ db'.blocks = db.blocks \cup Range(batch)
    BY Zenon, <1>2 DEF Start, PutGenesisHeight, PutGenesis, SaveBlocks, SaveHeights, SaveLatest,
                StorageInv, Shape
  <2>2. Range(batch) \subseteq Blocks /\ Genesis \in Blocks
    BY SMTT(30), StorageAssumption DEF StorageInv, Shape, Range
  <2> QED  BY Zenon, <2>1, <2>2 DEF Typed
<1>3. CASE SaveTxs
  <2>1. /\ UNCHANGED <<mem, cache, crashes>> /\ db'.blocks = db.blocks
        /\ db'.txs = Over(AllPlaces(Range(batch)), db.txs)
    BY Zenon, <1>3 DEF SaveTxs, StorageInv, Shape
  <2>2. Range(batch) \in SUBSET Blocks
    BY SMTT(30) DEF StorageInv, Shape, Range
  <2>3. \A t \in DOMAIN db'.txs : db'.txs[t] \in Place
    BY SMTT(30), <2>1, <2>2, PlacesType, OverEntry DEF Typed
  <2> QED  BY Zenon, <2>1, <2>3 DEF Typed
<1>4. CASE Load
  <2>1. /\ UNCHANGED <<cache, db, crashes>>
        /\ mem' = mem \/ (mem' = LoadedMem /\ Loadable)
    BY Zenon, <1>4 DEF Load
  <2>2. CASE mem' = mem
    BY Zenon, <2>1, <2>2 DEF Typed
  <2>3. CASE mem' = LoadedMem /\ Loadable
    <3>1. /\ mem'.blockByHash = Range(LoadedChain) /\ mem'.hashByHeight = db.heights
          /\ mem'.txByHash = AllPlaces(Range(LoadedChain))
      BY Zenon, <2>3 DEF LoadedMem
    <3>2. mem'.chain = LoadedChain /\ mem'.chain \in Seq(Blocks)
      BY Zenon, <1>4, <2>3, LoadInv DEF LoadedMem, StorageInv, Shape
    <3>3. Range(LoadedChain) \in SUBSET Blocks
      BY SMTT(30), <3>2 DEF Range
    <3>4. \A t \in DOMAIN mem'.txByHash : mem'.txByHash[t] \in Place
      BY Zenon, <3>1, <3>3, PlacesType
    <3>5. \A h \in DOMAIN mem'.hashByHeight : h \in Nat /\ mem'.hashByHeight[h] \in Blocks
      BY Zenon, <3>1 DEF StorageInv, Shape
    <3>6. mem'.blockByHash \subseteq Blocks
      BY Zenon, <3>1, <3>3
    <3> QED  BY Zenon, <2>1, <3>4, <3>5, <3>6 DEF Typed
  <2> QED  BY Zenon, <2>1, <2>2, <2>3
<1>5. CASE Close \/ Die
  <2>1. /\ mem' = EmptyMem /\ cache' = EmptyCache /\ db' = db
        /\ crashes' = crashes \/ (crashes < MaxCrashes /\ crashes' = crashes + 1)
    BY Zenon, <1>5 DEF Close, Die
  <2>2. crashes' \in 0..MaxCrashes
    BY <2>1, StorageAssumption DEF Typed
  <2> QED  BY Zenon, <2>1, <2>2 DEF Typed, EmptyMem, EmptyCache, NoEntries
<1>6. CASE \E b \in Blocks : PushBack(b)
  <2>1. PICK b \in Blocks : PushBack(b)
    BY Zenon, <1>6
  <2>2. /\ UNCHANGED <<cache, db, crashes>>
        /\ mem' = Indexed([mem EXCEPT !.chain = Append(mem.chain, b)], b)
    BY Zenon, <2>1 DEF PushBack
  <2>3. /\ mem'.blockByHash = mem.blockByHash \cup {b}
        /\ mem'.hashByHeight = Over(mem.hashByHeight, Entry(Height[b], b))
        /\ mem'.txByHash = Over(mem.txByHash, TxPlaces(b))
    BY Zenon, <2>2 DEF Indexed, HeightEntry, StorageInv, Shape
  <2>4. \A h \in DOMAIN mem'.hashByHeight : h \in Nat /\ mem'.hashByHeight[h] \in Blocks
    <3>1. \A h \in DOMAIN Entry(Height[b], b) : h \in Nat /\ Entry(Height[b], b)[h] = b
      BY Zenon, StorageAssumption DEF Entry
    <3> QED  BY <2>3, <3>1, OverEntry DEF Typed
  <2>5. \A t \in DOMAIN mem'.txByHash : mem'.txByHash[t] \in Place
    BY <2>3, TxPlacesFacts, OverEntry DEF Typed
  <2> QED  BY Zenon, <2>2, <2>3, <2>4, <2>5 DEF Typed
<1>7. CASE \E r \in Readers : ReaderStep(r)
  <2>1. PICK r \in Readers : ReaderStep(r)
    BY Zenon, <1>7
  <2>2. CASE (\E q \in Queries : Ask(r, q)) \/ Enter(r)
    BY Zenon, <2>2 DEF Ask, Enter, Typed
  <2>3. CASE GetBlock(r)
    <3>1. /\ UNCHANGED <<mem, db, crashes>>
          /\ \/ cache' = cache
             \/ \E b \in db.blocks : cache' = [cache EXCEPT !.blocks = cache.blocks \cup {b}]
      BY Zenon, <2>3 DEF GetBlock
    <3> QED  BY <3>1 DEF Typed
  <2>4. CASE GetTx(r)
    <3>1. /\ UNCHANGED <<mem, db, crashes>>
          /\ cache' = cache \/ \E x : cache' = [cache EXCEPT !.txs = x]
      BY Zenon, <2>4 DEF GetTx
    <3> QED  BY Zenon, <3>1 DEF Typed
  <2>5. CASE GetTxInBlock(r)
    <3>1. /\ UNCHANGED <<db, crashes>>
          /\ mem' = mem \/ \E x : mem' = [mem EXCEPT !.heightByHash = x]
      BY Zenon, <2>5 DEF GetTxInBlock
    <3>2. /\ mem'.blockByHash = mem.blockByHash /\ mem'.hashByHeight = mem.hashByHeight
          /\ mem'.txByHash = mem.txByHash
      BY Zenon, <3>1 DEF StorageInv, Shape
    <3>3. cache' = cache \/ \E x : cache' = [cache EXCEPT !.txs = x]
      <4>1. PICK st, x, y : cache' = CASE st = "OnCache" -> [cache EXCEPT !.txs = x]
                                      [] st = "OnDB" -> [cache EXCEPT !.txs = y]
                                      [] OTHER -> cache
        BY Zenon, <2>5 DEF GetTxInBlock
      <4> QED  BY Zenon, <4>1
    <3>4. DOMAIN cache' = {"blocks", "txs"} /\ cache'.blocks = cache.blocks
      BY Zenon, <3>3 DEF Typed
    <3> QED  BY Zenon, <3>1, <3>2, <3>4 DEF Typed
  <2> QED  BY Zenon, <2>1, <2>2, <2>3, <2>4, <2>5 DEF ReaderStep
<1> QED  BY Zenon, <1>1, <1>2, <1>3, <1>4, <1>5, <1>6, <1>7 DEF StoreStep, Quiet

(* The containers of Storage hold blocks, heights and places of              *)
(* transactions, after any sequence of starts, shutdowns, crashes, pushes    *)
(* and lookups.                                                              *)
THEOREM StorageIsTyped == NodeSpec => []TypeOK
<1>1. ASSUME NodeInit PROVE Typed
  <2>1. mem = EmptyMem /\ cache = EmptyCache /\ db = EmptyDB /\ crashes = 0
    BY Zenon, <1>1 DEF NodeInit, Init
  <2>2. crashes \in 0..MaxCrashes
    BY <2>1, StorageAssumption
  <2> QED  BY Zenon, <2>1, <2>2 DEF Typed, EmptyMem, EmptyCache, EmptyDB, NoEntries
<1>2. StorageInv /\ Typed => TypeOK
  BY DEF StorageInv, Shape, Typed, TypeOK, Range
<1>3. StorageInv /\ Typed /\ [NodeNext]_nodeVars => Typed'
  BY Zenon, NodeNextIsStoreStep, TypedStep
<1> QED  BY <1>1, <1>2, <1>3, NodeKeepsStorageInv, PTL DEF NodeSpec

-----------------------------------------------------------------------------
(* What lookups find. *)

(* Block b is in chain l; p is a place of transaction t in it.               *)
On(l, b) == b \in Blocks /\ Height[b] + 1 \in 1..Len(l) /\ l[Height[b] + 1] = b

Exact(l, t, p) ==
  /\ On(l, p.block) /\ p.height = Height[p.block]
  /\ p.index + 1 \in DOMAIN Txs[p.block] /\ Txs[p.block][p.index + 1] = t

(* The database, against the chain it is about.                              *)
Settled == IF phase \in {"heights", "txs", "latest"} THEN Log ELSE SavedLog

DbExact ==
  /\ \A b \in db.blocks : On(Settled, b)
  /\ \A h \in DOMAIN db.heights : h + 1 \in 1..Len(Settled) /\ db.heights[h] = Settled[h + 1]
  /\ \A t \in DOMAIN db.txs : Exact(Settled, t, db.txs[t])

(* The mappings in memory. *)
MemExact ==
  /\ \A b \in mem.blockByHash : On(Log, b) /\ Range(Txs[b]) \subseteq DOMAIN mem.txByHash
  /\ \A h \in DOMAIN mem.hashByHeight : h + 1 \in 1..Len(Log) /\ mem.hashByHeight[h] = Log[h + 1]
  /\ \A b \in DOMAIN mem.heightByHash : On(Log, b) /\ mem.heightByHash[b] = Height[b]
  /\ \A i \in 1..Len(Log) :
       i - 1 \in DOMAIN mem.hashByHeight /\ Log[i] \in DOMAIN mem.heightByHash
  /\ \A t \in DOMAIN mem.txByHash : Exact(Log, t, mem.txByHash[t])

CacheExact ==
  /\ DOMAIN cache = {"blocks", "txs"}
  /\ \A b \in cache.blocks : On(Log, b)
  /\ \A t \in DOMAIN cache.txs :
       cache.txs[t] # NoTx => cache.txs[t].tx = t /\ Exact(Log, t, cache.txs[t])

(* What a thread has been told of where a thing is stays true.               *)
StatusExact(q, st) ==
  IF q.by = "tx"
  THEN /\ st = "OnChain" => q.tx \in DOMAIN mem.txByHash
       /\ st = "OnCache" => q.tx \in DOMAIN cache.txs
       /\ st = "OnDB" => q.tx \in DOMAIN db.txs
  ELSE /\ st # "NotFound" /\ q.by = "height" => q.height \in DOMAIN mem.hashByHeight
       /\ st = "OnChain" => HashIn(q) \in mem.blockByHash
       /\ st = "OnCache" => HashIn(q) \in cache.blocks
       /\ st = "OnDB" => HashIn(q) \in db.blocks

AnswerExact(l, q, res) ==
  IF q.op = "block"
  THEN res # NoHash => On(l, res) /\ (q.by = "height" => q.height = Height[res])
  ELSE res # NoTx => Exact(l, res.tx, res) /\ (q.by = "tx" => res.tx = q.tx)

ReaderExact(r) ==
  \/ reader[r] = Idle
  \/ /\ DOMAIN reader[r] = {"at", "q", "status"}
     /\ reader[r].at \in {"asked", "inside"} /\ reader[r].q \in Queries
     /\ reader[r].status \in {"NotFound", "OnChain", "OnCache", "OnDB"}
     /\ StatusExact(reader[r].q, reader[r].status)
  \/ /\ reader[r].at = "done"
     /\ AnswerExact(Log, reader[r].q, reader[r].result)

LookupsExact ==
  /\ DbExact
  /\ phase # "on" => cache = EmptyCache /\ reader = [r \in Readers |-> Idle]
  /\ phase = "on" => MemExact /\ CacheExact
  /\ DOMAIN reader = Readers /\ \A r \in Readers : ReaderExact(r)

LookupInv == ~torn => LookupsExact

-----------------------------------------------------------------------------
(* A longer chain.                                                           *)
Extends(l, m) ==
  /\ Len(l) \in Nat /\ Len(m) \in Nat /\ Len(l) <= Len(m)
  /\ \A i \in 1..Len(l) : m[i] = l[i]

(* What is exact for a chain is exact for a longer one.                      *)
LEMMA OnExtends ==
  ASSUME NEW l, NEW m, Extends(l, m)
  PROVE  /\ \A b : On(l, b) => On(m, b)
         /\ \A t, p : Exact(l, t, p) => Exact(m, t, p)
         /\ \A q, res : AnswerExact(l, q, res) => AnswerExact(m, q, res)
<1>1. \A i \in 1..Len(l) : i \in 1..Len(m) /\ m[i] = l[i]
  BY DEF Extends
<1>2. \A b : On(l, b) => On(m, b)
  BY Zenon, <1>1 DEF On
<1>3. \A t, p : Exact(l, t, p) => Exact(m, t, p)
  BY Zenon, <1>2 DEF Exact
<1> QED  BY Zenon, <1>2, <1>3 DEF AnswerExact

(* The blocks of the chain are in it, with their transactions.               *)
LEMMA LogOn ==
  ASSUME StorageInv
  PROVE  /\ \A i \in 1..Len(Log) : On(Log, Log[i])
         /\ \A i \in 1..Len(SavedLog) : On(SavedLog, SavedLog[i])
         /\ Extends(SavedLog, Log)
<1>1. ASSUME NEW i \in 1..Len(Log) PROVE On(Log, Log[i])
  <2>1. Height[Log[i]] = i - 1 /\ Log[i] \in Blocks /\ (i - 1) + 1 = i
    BY LogIsChain
  <2> QED  BY Zenon, <2>1 DEF On
<1>2. Extends(SavedLog, Log)
  <2>1. Len(SavedLog) \in Nat
    BY LogIsChain, DbFacts DEF StorageInv
  <2> QED  BY Zenon, <2>1, LogIsChain DEF Extends
<1>3. ASSUME NEW i \in 1..Len(SavedLog) PROVE On(SavedLog, SavedLog[i])
  <2>1. i \in 1..Len(Log) /\ Log[i] = SavedLog[i]
    BY <1>2 DEF Extends
  <2>2. Height[SavedLog[i]] = i - 1 /\ SavedLog[i] \in Blocks /\ (i - 1) + 1 = i
    BY <2>1, LogIsChain
  <2> QED  BY Zenon, <2>2 DEF On
<1> QED  BY Zenon, <1>1, <1>2, <1>3

(* The places of the transactions of blocks of a chain are exact.            *)
LEMMA PlacesExact ==
  ASSUME NEW l, NEW bs, \A b \in bs : On(l, b)
  PROVE  /\ \A t \in DOMAIN AllPlaces(bs) : Exact(l, t, AllPlaces(bs)[t])
         /\ \A b \in bs : \A t \in Range(Txs[b]) : Exact(l, t, TxPlaces(b)[t])
<1>1. bs \in SUBSET Blocks
  BY Zenon DEF On
<1>2. ASSUME NEW b \in bs, NEW t \in Range(Txs[b]) PROVE Exact(l, t, TxPlaces(b)[t])
  <2>1. b \in Blocks /\ On(l, b)
    BY Zenon, <1>1
  <2> QED  BY <2>1, TxPlacesFacts DEF Exact
<1>3. ASSUME NEW t \in DOMAIN AllPlaces(bs) PROVE Exact(l, t, AllPlaces(bs)[t])
  <2>1. PICK b \in bs : t \in Range(Txs[b]) /\ AllPlaces(bs)[t] = TxPlaces(b)[t]
    BY <1>1, AllPlacesFacts
  <2> QED  BY Zenon, <1>2, <2>1
<1> QED  BY Zenon, <1>2, <1>3

(* The chain in memory, or being saved, is the end of the chain.             *)
LEMMA HeldOn ==
  ASSUME StorageInv, phase \in Holding
  PROVE  \A b \in Range(Held) : On(Log, b)
<1> DEFINE h1 == Height[Held[1]]
           n == Len(Held)
<1>1. Log = [i \in 1..(h1 + n) |-> IF i > h1 THEN Held[i - h1] ELSE DbAt(i - 1)]
  BY Zenon, LogHolding DEF StorageInv
<1>2. h1 \in Nat /\ n \in Nat \ {0} /\ Held \in Seq(Blocks)
  BY Zenon, HeldFacts DEF StorageInv
<1> HIDE DEF h1, n
<1>3. Len(Log) = h1 + n
  <2>1. h1 + n \in Nat
    BY <1>2
  <2> QED  BY <1>1, <2>1
<1>4. ASSUME NEW i \in 1..n PROVE On(Log, Held[i])
  <2>1. h1 + i \in 1..(h1 + n) /\ h1 + i > h1 /\ (h1 + i) - h1 = i
    BY <1>2
  <2>2. Log[h1 + i] = Held[i]
    BY Zenon, <1>1, <2>1
  <2> QED  BY Zenon, <1>3, <2>1, <2>2, LogOn
<1>5. Range(Held) = {Held[i] : i \in 1..n}
  BY <1>2 DEF Range, n
<1> QED  BY Zenon, <1>4, <1>5

(* A step that leaves the database alone.                                    *)
LEMMA DbExactFrame ==
  ASSUME DbExact, Settled' = Settled,
         db'.blocks = db.blocks, db'.heights = db.heights, db'.txs = db.txs
  PROVE  DbExact'
BY Zenon DEF DbExact

(* A step of the constructor or the destructor.                              *)
LEMMA OffFrame ==
  ASSUME LookupsExact, phase # "on", phase' # "on", UNCHANGED <<cache, reader>>, DbExact'
  PROVE  LookupsExact'
<1>1. /\ cache' = EmptyCache /\ reader' = [r \in Readers |-> Idle]
      /\ DOMAIN reader' = Readers /\ \A r \in Readers : reader'[r] = Idle
  BY Zenon DEF LookupsExact
<1>2. \A r \in Readers : ReaderExact(r)'
  BY Zenon, <1>1 DEF ReaderExact
<1> QED  BY Zenon, <1>1, <1>2 DEF LookupsExact

(* The constructor, before it loads.                                         *)
LEMMA StartLookups ==
  ASSUME StorageInv, LookupsExact, Start \/ PutGenesisHeight \/ PutGenesis
  PROVE  LookupsExact'
<1>1. /\ phase \in {"off", "new", "mapped"} /\ phase' \in {"new", "mapped", "ready"}
      /\ UNCHANGED <<cache, reader>>
  BY Zenon DEF Start, PutGenesisHeight, PutGenesis, OnlyDB
<1>2. Log' = Log /\ SavedLog' = SavedLog
  BY Zenon, StartInv, PutGenesisHeightInv, PutGenesisInv
<1>3. Settled = SavedLog /\ Settled' = SavedLog
  BY Zenon, <1>1, <1>2 DEF Settled
<1>4. Len(SavedLog) \in Nat \ {0} /\ SavedLog[1] = Genesis
  <2>1. Len(SavedLog) \in Nat \ {0}
    BY LogIsChain, DbFacts DEF StorageInv
  <2>2. 1 \in 1..(Height[DbTip] + 1) /\ 1 - 1 = 0
    BY <2>1, LogIsChain
  <2>3. SavedLog[1] = DbAt(0)
    BY Zenon, <2>2 DEF SavedLog
  <2> QED  BY Zenon, <2>1, <2>3 DEF StorageInv, DbChain
<1>5. DbExact
  BY Zenon DEF LookupsExact
<1>6. DbExact'
  <2>1. CASE Start
    <3>1. db'.blocks = db.blocks /\ db'.heights = db.heights /\ db'.txs = db.txs
      BY <2>1 DEF Start, StorageInv, Shape
    <3> QED  BY <1>3, <1>5, <3>1, DbExactFrame
  <2>2. CASE PutGenesisHeight
    <3>1. /\ db'.blocks = db.blocks /\ db'.txs = db.txs
          /\ db'.heights = Over(Entry(0, Genesis), db.heights)
      BY Zenon, <2>2 DEF PutGenesisHeight, StorageInv, Shape
    <3>2. \A h \in DOMAIN db'.heights :
            \/ h = 0 /\ db'.heights[h] = Genesis
            \/ h \in DOMAIN db.heights /\ db'.heights[h] = db.heights[h]
      BY Zenon, <3>1 DEF Over, Entry
    <3>3. \A h \in DOMAIN db'.heights :
            h + 1 \in 1..Len(SavedLog) /\ db'.heights[h] = SavedLog[h + 1]
      BY SMTT(30), <1>3, <1>4, <1>5, <3>2 DEF DbExact
    <3> QED  BY <1>3, <1>5, <3>1, <3>3 DEF DbExact
  <2>3. CASE PutGenesis
    <3>1. /\ db'.blocks = db.blocks \cup {Genesis} /\ db'.txs = db.txs
          /\ db'.heights = db.heights
      BY Zenon, <2>3 DEF PutGenesis, StorageInv, Shape
    <3>2. On(SavedLog, Genesis)
      BY <1>4, StorageAssumption DEF On
    <3> QED  BY Zenon, <1>3, <1>5, <3>1, <3>2 DEF DbExact
  <2> QED  BY <2>1, <2>2, <2>3
<1> QED  BY Zenon, <1>1, <1>6, OffFrame

(* The destructor.                                                           *)
LEMMA SaveLookups ==
  ASSUME StorageInv, LookupsExact, SaveBlocks \/ SaveHeights \/ SaveTxs \/ SaveLatest
  PROVE  LookupsExact'
<1>1. /\ phase \in Closing /\ phase' \in {"heights", "txs", "latest", "off"}
      /\ UNCHANGED <<cache, reader>>
  BY Zenon DEF SaveBlocks, SaveHeights, SaveTxs, SaveLatest, OnlyDB, Closing
<1>2. phase \in Holding /\ phase # "on" /\ Held = batch
  BY Zenon, <1>1 DEF Holding, Closing, Held
<1>3. \A b \in Range(batch) : On(Log, b)
  BY Zenon, <1>2, HeldOn
<1>4. Settled' = Log
  BY SMTT(30), SaveBlocksInv, SaveHeightsInv, SaveTxsInv, SaveLatestInv
     DEF Settled, SaveBlocks, SaveHeights, SaveTxs, SaveLatest
<1>5. /\ \A b \in db.blocks : On(Log, b)
      /\ \A h \in DOMAIN db.heights : h + 1 \in 1..Len(Log) /\ db.heights[h] = Log[h + 1]
      /\ \A t \in DOMAIN db.txs : Exact(Log, t, db.txs[t])
  <2>1. CASE phase = "blocks"
    <3>1. Settled = SavedLog /\ Extends(SavedLog, Log)
      BY Zenon, <2>1, LogOn DEF Settled
    <3>2. \A i \in 1..Len(SavedLog) : i \in 1..Len(Log) /\ Log[i] = SavedLog[i]
      BY <3>1 DEF Extends
    <3> QED  BY <3>1, <3>2, OnExtends DEF LookupsExact, DbExact
  <2>2. CASE phase # "blocks"
    BY Zenon, <1>1, <2>2 DEF LookupsExact, DbExact, Settled, Closing
  <2> QED  BY Zenon, <2>1, <2>2
<1>6. DbExact'
  <2>1. CASE SaveBlocks
    <3>1. /\ db'.blocks = db.blocks \cup Range(batch) /\ db'.txs = db.txs
          /\ db'.heights = db.heights
      BY Zenon, <2>1 DEF SaveBlocks, StorageInv, Shape
    <3> QED  BY <1>3, <1>4, <1>5, <3>1 DEF DbExact
  <2>2. CASE SaveHeights
    <3> DEFINE new == [h \in {Height[b] : b \in Range(batch)} |->
                         CHOOSE b \in Range(batch) : Height[b] = h]
    <3>1. /\ db'.blocks = db.blocks /\ db'.txs = db.txs
          /\ db'.heights = Over(new, db.heights)
      <4>1. db' = [db EXCEPT !.heights = Over(new, db.heights)]
        BY Zenon, <2>2 DEF SaveHeights
      <4> HIDE DEF new
      <4> QED  BY Zenon, <4>1 DEF StorageInv, Shape
    <3>2. ASSUME NEW h \in DOMAIN new
          PROVE  h + 1 \in 1..Len(Log) /\ new[h] = Log[h + 1]
      <4>1. \E b \in Range(batch) : Height[b] = h
        OBVIOUS
      <4>2. new[h] \in Range(batch) /\ Height[new[h]] = h
        BY Zenon, <4>1
      <4> QED  BY <1>3, <4>2 DEF On
    <3> HIDE DEF new
    <3>3. \A h \in DOMAIN db'.heights :
            h + 1 \in 1..Len(Log) /\ db'.heights[h] = Log[h + 1]
      <4> TAKE h \in DOMAIN db'.heights
      <4>1. \/ h \in DOMAIN new /\ db'.heights[h] = new[h]
            \/ h \in DOMAIN db.heights /\ db'.heights[h] = db.heights[h]
        BY <3>1, OverEntry
      <4> QED  BY <1>5, <3>2, <4>1
    <3> QED  BY <1>4, <1>5, <3>1, <3>3 DEF DbExact
  <2>3. CASE SaveTxs
    <3>1. /\ db'.blocks = db.blocks /\ db'.heights = db.heights
          /\ db'.txs = Over(AllPlaces(Range(batch)), db.txs)
      BY Zenon, <2>3 DEF SaveTxs, StorageInv, Shape
    <3>2. \A t \in DOMAIN AllPlaces(Range(batch)) : Exact(Log, t, AllPlaces(Range(batch))[t])
      BY Zenon, <1>3, PlacesExact
    <3>3. \A t \in DOMAIN db'.txs : Exact(Log, t, db'.txs[t])
      <4> DEFINE new == AllPlaces(Range(batch))
      <4> TAKE t \in DOMAIN db'.txs
      <4>1. \/ t \in DOMAIN new /\ db'.txs[t] = new[t]
            \/ t \in DOMAIN db.txs /\ db'.txs[t] = db.txs[t]
        BY <3>1, OverEntry
      <4> QED  BY Zenon, <1>5, <3>2, <4>1
    <3> QED  BY Zenon, <1>4, <1>5, <3>1, <3>3 DEF DbExact
  <2>4. CASE SaveLatest
    <3>1. db'.blocks = db.blocks /\ db'.heights = db.heights /\ db'.txs = db.txs
      BY Zenon, <2>4 DEF SaveLatest, StorageInv, Shape
    <3> QED  BY Zenon, <1>4, <1>5, <3>1 DEF DbExact
  <2> QED  BY <2>1, <2>2, <2>3, <2>4
<1> QED  BY Zenon, <1>1, <1>2, <1>6, OffFrame

(* The end of the process, by the destructor or otherwise.                   *)
LEMMA EndLookups ==
  ASSUME StorageInv, LookupsExact, Close \/ (Die /\ phase \notin Closing)
  PROVE  LookupsExact'
<1>1. /\ phase' \in {"blocks", "off"} /\ db' = db /\ cache' = EmptyCache
      /\ reader' = [r \in Readers |-> Idle] /\ phase \notin Closing
  BY Zenon DEF Close, Die, Closing
<1>2. SavedLog' = SavedLog
  BY Zenon, CloseInv, DieInv
<1>3. Settled = SavedLog /\ Settled' = SavedLog
  BY Zenon, <1>1, <1>2 DEF Settled, Closing
<1>4. DbExact'
  BY Zenon, <1>1, <1>3, DbExactFrame DEF LookupsExact
<1>5. DOMAIN reader' = Readers /\ \A r \in Readers : reader'[r] = Idle
  BY Zenon, <1>1
<1>6. \A r \in Readers : ReaderExact(r)'
  BY Zenon, <1>5 DEF ReaderExact
<1> QED  BY Zenon, <1>1, <1>4, <1>5, <1>6 DEF LookupsExact

=============================================================================
