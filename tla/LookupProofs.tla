---------------------------- MODULE LookupProofs ----------------------------
(***************************************************************************)
(* The lookups of Storage.tla in the whole node, for every set of blocks,  *)
(* of threads and of queries: as long as no shutdown was torn, what they   *)
(* answer is exact.                                                        *)
(***************************************************************************)
EXTENDS StorageProofs

(* The constructor builds the mappings from the database.                    *)
LEMMA LoadLookups ==
  ASSUME StorageInv, LookupsExact, Load
  PROVE  LookupsExact'
<1>1. phase = "ready" /\ UNCHANGED <<cache, db, reader>> /\ phase' \in {"on", "failed"}
  BY Zenon DEF Load
<1>2. Log' = SavedLog /\ SavedLog' = SavedLog
  <2>1. phase \notin Holding
    BY Zenon, <1>1 DEF Holding, Closing
  <2> QED  BY Zenon, <2>1, LoadInv, LogNotHolding DEF StorageInv
<1>3. Settled = SavedLog /\ Settled' = SavedLog
  BY Zenon, <1>1, <1>2 DEF Settled
<1>4. DbExact /\ DbExact'
  BY Zenon, <1>1, <1>3, DbExactFrame DEF LookupsExact
<1>5. /\ cache = EmptyCache /\ DOMAIN reader = Readers
      /\ \A r \in Readers : reader[r] = Idle
  BY Zenon, <1>1 DEF LookupsExact
<1>6. \A r \in Readers : ReaderExact(r)'
  BY Zenon, <1>1, <1>5 DEF ReaderExact
<1>7. CASE phase' # "on"
  BY SMTT(30), <1>1, <1>4, <1>7, OffFrame
<1>8. CASE phase' = "on"
  <2>1. mem' = LoadedMem /\ Loadable
    BY Zenon, <1>8 DEF Load
  <2>2. /\ Height[DbTip] \in Nat /\ db.latest = DbTip /\ Lowest \in 0..Height[DbTip]
        /\ Genesis \in db.blocks /\ \A h \in Recent : db.heights[h] = DbAt(h)
    BY Zenon, <1>1, <2>1, LoadFacts
  <2>3. Len(SavedLog) = Height[DbTip] + 1
    BY Zenon, LogIsChain
  <2>4. ASSUME NEW h \in DOMAIN db.heights
        PROVE  h + 1 \in 1..Len(SavedLog) /\ db.heights[h] = SavedLog[h + 1]
    BY Zenon, <1>3, <1>4 DEF DbExact
  <2>5. \A i \in 1..Len(SavedLog) : i - 1 \in DOMAIN db.heights
    <3>1. \A i \in 1..Len(SavedLog) : i - 1 \in 0..Height[DbTip]
      BY <2>2, <2>3
    <3> QED  BY Zenon, <2>2, <3>1 DEF StorageInv, DbChain
  <2>6. \A b \in Range(LoadedChain) : On(SavedLog, b)
    <3>1. \A b \in Range(LoadedChain) : \E h \in Recent : b = db.heights[h]
      <4>1. \A i \in 1..(Height[db.latest] - Lowest + 1) : Lowest + i - 1 \in Recent
        BY <2>2 DEF Recent
      <4>2. /\ DOMAIN LoadedChain = 1..(Height[db.latest] - Lowest + 1)
            /\ \A i \in DOMAIN LoadedChain : LoadedChain[i] = db.heights[Lowest + i - 1]
        BY Zenon DEF LoadedChain
      <4> QED  BY Zenon, <4>1, <4>2 DEF Range
    <3>2. \A h \in Recent : h \in DOMAIN db.heights
      BY Zenon, <2>1 DEF Loadable
    <3> QED  BY SMTT(30), <2>4, <3>1, <3>2, LogOn
  <2>7. /\ mem'.blockByHash = Range(LoadedChain) /\ mem'.hashByHeight = db.heights
        /\ mem'.txByHash = AllPlaces(Range(LoadedChain))
        /\ mem'.heightByHash = [b \in Range(db.heights) |->
                                  CHOOSE h \in DOMAIN db.heights : db.heights[h] = b]
    BY Zenon, <2>1 DEF LoadedMem
  <2>8. ASSUME NEW i \in 1..Len(SavedLog)
        PROVE  /\ SavedLog[i] \in DOMAIN mem'.heightByHash
               /\ mem'.heightByHash[SavedLog[i]] = i - 1
    <3>1. i - 1 \in DOMAIN db.heights /\ (i - 1) + 1 = i
      BY <2>5
    <3>2. db.heights[i - 1] = SavedLog[i]
      BY Zenon, <2>4, <3>1
    <3>3. SavedLog[i] \in Range(db.heights)
      BY Zenon, <3>1, <3>2 DEF Range
    <3> DEFINE h == CHOOSE k \in DOMAIN db.heights : db.heights[k] = SavedLog[i]
    <3>4. h \in DOMAIN db.heights /\ db.heights[h] = SavedLog[i]
      BY Zenon, <3>1, <3>2
    <3> HIDE DEF h
    <3>5. /\ On(SavedLog, SavedLog[h + 1]) /\ h + 1 \in 1..Len(SavedLog)
          /\ SavedLog[h + 1] = SavedLog[i]
      BY Zenon, <2>4, <3>4, LogOn
    <3>6. \A k \in 1..Len(SavedLog) : Height[SavedLog[k]] = k - 1
      <4>1. \A k \in 1..Len(SavedLog) : k \in 1..Len(Log) /\ Log[k] = SavedLog[k]
        BY LogOn DEF Extends
      <4> QED  BY Zenon, <4>1, LogIsChain
    <3>7. h \in Nat
      BY Zenon, <3>4 DEF StorageInv, Shape
    <3>8. h = i - 1
      BY SMTT(30), <3>5, <3>6, <3>7
    <3> QED  BY <2>7, <3>3, <3>8 DEF h
  <2>9. Range(LoadedChain) \in SUBSET Blocks
    BY Zenon, <2>6 DEF On
  <2>10. /\ \A t \in DOMAIN mem'.txByHash : Exact(SavedLog, t, mem'.txByHash[t])
         /\ \A b \in mem'.blockByHash : Range(Txs[b]) \subseteq DOMAIN mem'.txByHash
    BY SMTT(30), <2>6, <2>7, <2>9, PlacesExact, AllPlacesFacts
  <2>11. MemExact'
    <3>1. /\ \A h \in DOMAIN mem'.hashByHeight :
               h + 1 \in 1..Len(SavedLog) /\ mem'.hashByHeight[h] = SavedLog[h + 1]
          /\ \A i \in 1..Len(SavedLog) : i - 1 \in DOMAIN mem'.hashByHeight
      BY Zenon, <2>4, <2>5, <2>7
    <3>2. \A b \in mem'.blockByHash :
            On(SavedLog, b) /\ Range(Txs[b]) \subseteq DOMAIN mem'.txByHash
      <4>1. \A b \in mem'.blockByHash : On(SavedLog, b)
        BY Zenon, <2>6, <2>7
      <4> QED  BY Zenon, <2>10, <4>1
    <3>3. ASSUME NEW b \in DOMAIN mem'.heightByHash
          PROVE  On(SavedLog, b) /\ mem'.heightByHash[b] = Height[b]
      <4>1. \E h \in DOMAIN db.heights : b = db.heights[h]
        BY Zenon, <2>7 DEF Range
      <4>2. PICK i \in 1..Len(SavedLog) : b = SavedLog[i]
        BY Zenon, <2>4, <4>1
      <4>3. mem'.heightByHash[b] = i - 1 /\ On(SavedLog, b)
        BY Zenon, <2>8, <4>2, LogOn
      <4>4. i \in 1..Len(Log) /\ Log[i] = SavedLog[i]
        BY LogOn DEF Extends
      <4> QED  BY SMTT(30), <4>2, <4>3, <4>4, LogIsChain
    <3> QED  BY Zenon, <1>2, <2>8, <2>10, <3>1, <3>2, <3>3 DEF MemExact
  <2>12. CacheExact'
    BY Zenon, <1>1, <1>5 DEF CacheExact, EmptyCache, NoEntries
  <2> QED  BY SMTT(30), <1>1, <1>4, <1>5, <1>6, <1>8, <2>11, <2>12 DEF LookupsExact
<1> QED  BY Zenon, <1>7, <1>8

(* What only grows while the node runs.                                      *)
Grows ==
  /\ mem.blockByHash \subseteq mem'.blockByHash
  /\ DOMAIN mem.txByHash \subseteq DOMAIN mem'.txByHash
  /\ \A h \in DOMAIN mem.hashByHeight :
       h \in DOMAIN mem'.hashByHeight /\ mem'.hashByHeight[h] = mem.hashByHeight[h]
  /\ cache.blocks \subseteq cache'.blocks /\ DOMAIN cache.txs \subseteq DOMAIN cache'.txs
  /\ db' = db

(* What a thread knows stays true.                                           *)
LEMMA StatusStable ==
  ASSUME Grows, NEW q \in Queries, NEW st, StatusExact(q, st)
  PROVE  StatusExact(q, st)' /\ (st # "NotFound" /\ q.by = "height" => HashIn(q)' = HashIn(q))
<1>1. CASE q.by = "tx"
  BY Zenon, <1>1 DEF StatusExact, Grows
<1>2. CASE q.by # "tx" /\ st = "NotFound"
  BY Zenon, <1>2 DEF StatusExact
<1>3. CASE q.by # "tx" /\ st # "NotFound"
  <2>1. HashIn(q)' = HashIn(q)
    BY Zenon, <1>3 DEF HashIn, Grows, StatusExact
  <2> QED  BY Zenon, <1>3, <2>1 DEF StatusExact, Grows
<1> QED  BY Zenon, <1>1, <1>2, <1>3

(* So does what it has been answered.                                        *)
LEMMA ReaderStable ==
  ASSUME Grows, Extends(Log, Log'), NEW r \in Readers, ReaderExact(r), reader'[r] = reader[r]
  PROVE  ReaderExact(r)'
<1>1. CASE reader[r] = Idle
  BY Zenon, <1>1 DEF ReaderExact
<1>2. CASE /\ DOMAIN reader[r] = {"at", "q", "status"}
           /\ reader[r].at \in {"asked", "inside"} /\ reader[r].q \in Queries
           /\ reader[r].status \in {"NotFound", "OnChain", "OnCache", "OnDB"}
           /\ StatusExact(reader[r].q, reader[r].status)
  <2>1. PICK q, st : q \in Queries /\ q = reader[r].q /\ st = reader[r].status
    BY SMTT(30), <1>2
  <2>2. StatusExact(q, st)'
    BY SMTT(30), <1>2, <2>1, StatusStable
  <2> QED  BY Zenon, <1>2, <2>1, <2>2 DEF ReaderExact
<1>3. CASE reader[r].at = "done" /\ AnswerExact(Log, reader[r].q, reader[r].result)
  BY Zenon, <1>3, OnExtends DEF ReaderExact
<1> QED  BY Zenon, <1>1, <1>2, <1>3 DEF ReaderExact

(* A block is pushed.                                                        *)
LEMMA PushBackLookups ==
  ASSUME StorageInv, LookupsExact, NEW b \in Blocks, PushBack(b)
  PROVE  LookupsExact'
<1> DEFINE n == Len(Log)
<1>1. phase = "on" /\ phase' = "on" /\ UNCHANGED <<cache, db, reader>>
  BY Zenon DEF PushBack, OnlyMem
<1>2. /\ mem'.blockByHash = mem.blockByHash \cup {b}
      /\ mem'.hashByHeight = Over(mem.hashByHeight, Entry(Height[b], b))
      /\ mem'.heightByHash = Over(mem.heightByHash, Entry(b, Height[b]))
      /\ mem'.txByHash = Over(mem.txByHash, TxPlaces(b))
  <2>1. mem' = Indexed([mem EXCEPT !.chain = Append(mem.chain, b)], b)
    BY Zenon DEF PushBack
  <2> QED  BY Zenon, <2>1 DEF Indexed, HeightEntry, Insert, StorageInv, Shape
<1>3. Log' = Append(Log, b) /\ SavedLog' = SavedLog
  BY Zenon, PushBackInv
<1>4. n \in Nat /\ Height[b] = n /\ Log \in Seq(Blocks)
  BY Zenon, LogIsChain, PushBackHeight
<1>5. Len(Log') = n + 1 /\ Log'[n + 1] = b /\ \A i \in 1..n : Log'[i] = Log[i]
  BY <1>3, <1>4
<1>6. Extends(Log, Log')
  BY <1>4, <1>5 DEF Extends
<1> HIDE DEF n
<1>7. On(Log', b)
  BY <1>4, <1>5 DEF On
<1>8. MemExact
  BY Zenon, <1>1 DEF LookupsExact
<1>9. MemExact'
  <2>1. DOMAIN TxPlaces(b) = Range(Txs[b])
    BY Zenon, TxPlacesFacts
  <2>2. ASSUME NEW c \in mem'.blockByHash
        PROVE  On(Log', c) /\ Range(Txs[c]) \subseteq DOMAIN mem'.txByHash
    <3>1. DOMAIN mem'.txByHash = DOMAIN mem.txByHash \cup Range(Txs[b])
      BY Zenon, <1>2, <2>1 DEF Over
    <3>2. CASE c = b
      BY SMTT(30), <1>7, <3>1, <3>2
    <3>3. CASE c \in mem.blockByHash
      BY SMTT(30), <1>6, <1>8, <3>1, <3>3, OnExtends DEF MemExact
    <3> QED  BY Zenon, <1>2, <3>2, <3>3
  <2>3. ASSUME NEW h \in DOMAIN mem'.hashByHeight
        PROVE  h + 1 \in 1..Len(Log') /\ mem'.hashByHeight[h] = Log'[h + 1]
    <3>1. \/ h \in DOMAIN mem.hashByHeight /\ mem'.hashByHeight[h] = mem.hashByHeight[h]
          \/ h = n /\ mem'.hashByHeight[h] = b
      BY SMTT(30), <1>2, <1>4 DEF Over, Entry
    <3>2. \A i \in 1..n : i \in 1..(n + 1)
      BY <1>4
    <3>3. n + 1 \in 1..(n + 1)
      BY SMTT(30), <1>4
    <3> QED  BY SMTT(30), <1>5, <1>8, <3>1, <3>2, <3>3 DEF MemExact, n
  <2>4. ASSUME NEW c \in DOMAIN mem'.heightByHash
        PROVE  On(Log', c) /\ mem'.heightByHash[c] = Height[c]
    <3>1. \/ c \in DOMAIN mem.heightByHash /\ mem'.heightByHash[c] = mem.heightByHash[c]
          \/ c = b /\ mem'.heightByHash[c] = Height[b]
      BY SMTT(30), <1>2 DEF Over, Entry
    <3> QED  BY Zenon, <1>6, <1>7, <1>8, <3>1, OnExtends DEF MemExact
  <2>5. ASSUME NEW i \in 1..Len(Log')
        PROVE  i - 1 \in DOMAIN mem'.hashByHeight /\ Log'[i] \in DOMAIN mem'.heightByHash
    <3>1. i \in 1..n \/ (i = n + 1 /\ i - 1 = n)
      BY SMTT(30), <1>4, <1>5
    <3>2. /\ DOMAIN mem'.hashByHeight = DOMAIN mem.hashByHeight \cup {n}
          /\ DOMAIN mem'.heightByHash = DOMAIN mem.heightByHash \cup {b}
      BY Zenon, <1>2, <1>4 DEF Over, Entry
    <3> QED  BY Zenon, <1>5, <1>8, <3>1, <3>2 DEF MemExact, n
  <2>6. ASSUME NEW t \in DOMAIN mem'.txByHash
        PROVE  Exact(Log', t, mem'.txByHash[t])
    <3>1. \/ t \in DOMAIN mem.txByHash /\ mem'.txByHash[t] = mem.txByHash[t]
          \/ t \in Range(Txs[b]) /\ mem'.txByHash[t] = TxPlaces(b)[t]
      BY SMTT(30), <1>2, <2>1, OverEntry
    <3>2. \A u \in Range(Txs[b]) : Exact(Log', u, TxPlaces(b)[u])
      BY SMTT(30), <1>7, TxPlacesFacts DEF Exact
    <3> QED  BY SMTT(30), <1>6, <1>8, <3>1, <3>2, OnExtends DEF MemExact
  <2> QED  BY Zenon, <2>2, <2>3, <2>4, <2>5, <2>6 DEF MemExact
<1>10. CacheExact'
  BY Zenon, <1>1, <1>6, OnExtends DEF LookupsExact, CacheExact
<1>11. Grows
  <2>1. /\ DOMAIN mem.txByHash \subseteq DOMAIN mem'.txByHash
        /\ \A h \in DOMAIN mem.hashByHeight :
             h \in DOMAIN mem'.hashByHeight /\ mem'.hashByHeight[h] = mem.hashByHeight[h]
    BY Zenon, <1>2 DEF Over
  <2> QED  BY Zenon, <1>1, <1>2, <2>1 DEF Grows
<1>12. \A r \in Readers : ReaderExact(r)'
  BY SMTT(30), <1>1, <1>6, <1>11, ReaderStable DEF LookupsExact
<1>13. DbExact'
  BY Zenon, <1>1, <1>3, DbExactFrame DEF LookupsExact, Settled
<1> QED  BY SMTT(30), <1>1, <1>9, <1>10, <1>12, <1>13 DEF LookupsExact

(* A thread asks where a thing is.                                           *)
LEMMA AskLookups ==
  ASSUME StorageInv, LookupsExact, NEW r \in Readers, NEW q \in Queries, Ask(r, q)
  PROVE  LookupsExact'
<1>0. PICK st : st = StatusOf(q)
  OBVIOUS
<1>1. /\ phase = "on" /\ UNCHANGED <<phase, mem, cache, db>>
      /\ reader' = [reader EXCEPT ![r] = [at |-> "asked", q |-> q, status |-> st]]
  BY Zenon, <1>0 DEF Ask
<1>2. Log' = Log /\ SavedLog' = SavedLog
  BY Zenon, ReaderInv DEF ReaderStep
<1>3. st \in {"NotFound", "OnChain", "OnCache", "OnDB"} /\ StatusExact(q, st)
  <2>1. CASE q.by = "hash"
    <3>1. st = BlockExists(q.hash) /\ HashIn(q) = q.hash
      BY Zenon, <1>0, <2>1 DEF StatusOf, HashIn
    <3> QED  BY Zenon, <2>1, <3>1 DEF BlockExists, StatusExact
  <2>2. CASE q.by = "tx"
    <3>1. st = TxExists(q.tx)
      BY Zenon, <1>0, <2>2 DEF StatusOf
    <3> QED  BY Zenon, <2>2, <3>1 DEF TxExists, StatusExact
  <2>3. CASE q.by = "height"
    <3>1. st = BlockExistsAt(q.height) /\ HashIn(q) = mem.hashByHeight[q.height]
      BY Zenon, <1>0, <2>3 DEF StatusOf, HashIn
    <3>2. CASE q.height \notin DOMAIN mem.hashByHeight
      BY Zenon, <2>3, <3>1, <3>2 DEF BlockExistsAt, StatusExact
    <3>3. CASE q.height \in DOMAIN mem.hashByHeight
      <4>1. HashIn(q) \in mem.blockByHash \cup db.blocks
        BY SMTT(30), <1>1, <3>1, <3>3, BlocksAreKept DEF LookupsExact, MemExact
      <4>2. st = CASE HashIn(q) \in mem.blockByHash -> "OnChain"
                   [] HashIn(q) \notin mem.blockByHash /\ HashIn(q) \in cache.blocks -> "OnCache"
                   [] OTHER -> "OnDB"
        BY Zenon, <3>1, <3>3 DEF BlockExistsAt
      <4> QED  BY ZenonT(30), <2>3, <3>3, <4>1, <4>2 DEF StatusExact
    <3> QED  BY Zenon, <3>2, <3>3
  <2> QED  BY SMTT(30), <2>1, <2>2, <2>3, QueriesAssumption
<1>4. Grows /\ Extends(Log, Log')
  BY <1>1, <1>2, LogIsChain DEF Grows, Extends
<1>5. ASSUME NEW s \in Readers PROVE ReaderExact(s)'
  <2>1. CASE s # r
    <3>1. reader'[s] = reader[s] /\ ReaderExact(s)
      BY Zenon, <1>1, <2>1 DEF LookupsExact
    <3> QED  BY <1>4, <3>1, ReaderStable
  <2>2. CASE s = r
    <3>1. reader'[r] = [at |-> "asked", q |-> q, status |-> st]
      BY Zenon, <1>1 DEF LookupsExact
    <3>2. /\ DOMAIN reader'[r] = {"at", "q", "status"} /\ reader'[r].at = "asked"
          /\ reader'[r].q = q /\ reader'[r].status = st
      BY <3>1
    <3>3. StatusExact(q, st)'
      BY Zenon, <1>3, <1>4, StatusStable
    <3> QED  BY Zenon, <1>3, <2>2, <3>2, <3>3 DEF ReaderExact
  <2> QED  BY Zenon, <2>1, <2>2
<1>6. MemExact' /\ CacheExact'
  BY Zenon, <1>1, <1>2 DEF LookupsExact, MemExact, CacheExact
<1>7. DbExact'
  BY Zenon, <1>1, <1>2, DbExactFrame DEF LookupsExact, Settled
<1>8. DOMAIN reader' = Readers
  BY Zenon, <1>1 DEF LookupsExact
<1> QED  BY SMTT(30), <1>1, <1>5, <1>6, <1>7, <1>8 DEF LookupsExact

(* A thread that is in a lookup.                                             *)
LEMMA InLookup ==
  ASSUME LookupsExact, NEW r \in Readers, reader[r].at \in {"asked", "inside"}
  PROVE  /\ phase = "on" /\ DOMAIN reader[r] = {"at", "q", "status"} /\ reader[r].q \in Queries
         /\ reader[r].status \in {"NotFound", "OnChain", "OnCache", "OnDB"}
         /\ StatusExact(reader[r].q, reader[r].status)
<1>1. reader[r] # Idle
  BY DEF Idle
<1>2. phase = "on"
  BY Zenon, <1>1 DEF LookupsExact
<1> QED  BY Zenon, <1>1, <1>2 DEF LookupsExact, ReaderExact

(* It goes on.                                                               *)
LEMMA EnterLookups ==
  ASSUME StorageInv, LookupsExact, NEW r \in Readers, Enter(r)
  PROVE  LookupsExact'
<1>1. /\ reader[r].at = "asked" /\ UNCHANGED <<phase, mem, cache, db>>
      /\ reader' = [reader EXCEPT ![r] = [reader[r] EXCEPT !.at = "inside"]]
  BY Zenon DEF Enter
<1>2. Log' = Log /\ SavedLog' = SavedLog
  BY Zenon, ReaderInv DEF ReaderStep
<1>3. /\ phase = "on" /\ DOMAIN reader[r] = {"at", "q", "status"} /\ reader[r].q \in Queries
      /\ reader[r].status \in {"NotFound", "OnChain", "OnCache", "OnDB"}
      /\ StatusExact(reader[r].q, reader[r].status)
  BY <1>1, InLookup
<1>4. Grows /\ Extends(Log, Log')
  BY <1>1, <1>2, LogIsChain DEF Grows, Extends
<1>5. ASSUME NEW s \in Readers PROVE ReaderExact(s)'
  <2>1. CASE s # r
    <3>1. reader'[s] = reader[s] /\ ReaderExact(s)
      BY Zenon, <1>1, <2>1 DEF LookupsExact
    <3> QED  BY Zenon, <1>4, <3>1, ReaderStable
  <2>2. CASE s = r
    <3>1. reader'[r] = [reader[r] EXCEPT !.at = "inside"]
      BY Zenon, <1>1 DEF LookupsExact
    <3>2. /\ DOMAIN reader'[r] = {"at", "q", "status"} /\ reader'[r].at = "inside"
          /\ reader'[r].q = reader[r].q /\ reader'[r].status = reader[r].status
      BY Zenon, <1>3, <3>1
    <3>3. PICK q, st : q \in Queries /\ q = reader[r].q /\ st = reader[r].status
      BY Zenon, <1>3
    <3>4. StatusExact(q, st)'
      BY Zenon, <1>3, <1>4, <3>3, StatusStable
    <3> QED  BY Zenon, <1>3, <2>2, <3>2, <3>3, <3>4 DEF ReaderExact
  <2> QED  BY Zenon, <2>1, <2>2
<1>6. MemExact' /\ CacheExact'
  BY Zenon, <1>1, <1>2, <1>3 DEF LookupsExact, MemExact, CacheExact
<1>7. DbExact'
  BY Zenon, <1>1, <1>2, DbExactFrame DEF LookupsExact, Settled
<1>8. DOMAIN reader' = Readers
  BY Zenon, <1>1 DEF LookupsExact
<1> QED  BY SMTT(30), <1>1, <1>3, <1>5, <1>6, <1>7, <1>8 DEF LookupsExact

(* What is in the database of a running node is in its chain.                *)
LEMMA DbInLog ==
  ASSUME StorageInv, LookupsExact, phase = "on"
  PROVE  /\ \A b \in db.blocks : On(Log, b)
         /\ \A t \in DOMAIN db.txs : Exact(Log, t, db.txs[t])
<1>1. Settled = SavedLog /\ Extends(SavedLog, Log)
  BY Zenon, LogOn DEF Settled
<1> QED  BY <1>1, OnExtends DEF LookupsExact, DbExact

(* The block a lookup is about, once it has been found.                      *)
LEMMA HashInOn ==
  ASSUME StorageInv, LookupsExact, phase = "on", NEW q \in Queries, q.by # "tx",
         NEW st \in {"OnChain", "OnCache", "OnDB"}, StatusExact(q, st)
  PROVE  On(Log, HashIn(q)) /\ (q.by = "height" => q.height = Height[HashIn(q)])
<1>1. On(Log, HashIn(q))
  <2>1. HashIn(q) \in mem.blockByHash \cup cache.blocks \cup db.blocks
    BY Zenon DEF StatusExact
  <2> QED  BY Zenon, <2>1, DbInLog DEF LookupsExact, MemExact, CacheExact
<1>2. ASSUME q.by = "height" PROVE q.height = Height[HashIn(q)]
  <2>1. q.height \in DOMAIN mem.hashByHeight /\ HashIn(q) = mem.hashByHeight[q.height]
    BY SMTT(30), <1>2 DEF StatusExact, HashIn
  <2>2. q.height + 1 \in 1..Len(Log) /\ HashIn(q) = Log[q.height + 1]
    BY Zenon, <2>1 DEF LookupsExact, MemExact
  <2>3. q.height \in Nat
    BY Zenon, <1>2, QueriesAssumption
  <2>4. Height[HashIn(q)] = (q.height + 1) - 1
    BY Zenon, <2>2, LogIsChain
  <2> QED  BY SMTT(30), <2>3, <2>4
<1> QED  BY Zenon, <1>1, <1>2

(* The transaction at an index of it.                                        *)
LEMMA TxInBlock ==
  ASSUME StorageInv, LookupsExact, phase = "on", NEW q \in Queries, q.op = "tx", q.by # "tx",
         NEW st \in {"OnChain", "OnCache", "OnDB"}, StatusExact(q, st)
  PROVE  /\ HashIn(q) \in Blocks /\ q.index \in Nat
         /\ q.index + 1 \in DOMAIN Txs[HashIn(q)]
         /\ Txs[HashIn(q)][q.index + 1] \in Range(Txs[HashIn(q)])
<1>1. HashIn(q) \in Blocks /\ (q.by = "height" => q.height = Height[HashIn(q)])
  BY HashInOn DEF On
<1>2. q.by = "hash" => HashIn(q) = q.hash
  BY Zenon DEF HashIn
<1>3. q.index \in Nat /\ q.index + 1 \in DOMAIN Txs[HashIn(q)]
  BY SMTT(30), <1>1, <1>2, QueriesAssumption
<1> QED  BY Zenon, <1>1, <1>3 DEF Range

(* A transaction and its place as a result.                                  *)
LEMMA FoundExact ==
  ASSUME NEW l, NEW t, NEW p, Exact(l, t, p)
  PROVE  Found(t, p).tx = t /\ Exact(l, t, Found(t, p))
<1>1. /\ Found(t, p).tx = t /\ Found(t, p).block = p.block
      /\ Found(t, p).index = p.index /\ Found(t, p).height = p.height
  BY Zenon DEF Found
<1> QED  BY Zenon, <1>1 DEF Exact

(* An insertion into the cache of transactions.                              *)
CacheEntry(t, x) == x # NoTx => x.tx = t /\ Exact(Log, t, x)

LEMMA CacheInsert ==
  ASSUME CacheExact, NEW t, NEW x, CacheEntry(t, x)
  PROVE  LET txs == Insert(cache.txs, t, x)
         IN  /\ t \in DOMAIN txs /\ DOMAIN cache.txs \subseteq DOMAIN txs
             /\ \A k \in DOMAIN txs : CacheEntry(k, txs[k])
<1> DEFINE txs == Insert(cache.txs, t, x)
<1>1. DOMAIN txs = DOMAIN cache.txs \cup {t}
  BY Zenon DEF Insert, Over, Entry
<1>2. ASSUME NEW k \in DOMAIN txs PROVE CacheEntry(k, txs[k])
  <2>1. (k \in DOMAIN cache.txs /\ txs[k] = cache.txs[k]) \/ (k = t /\ txs[k] = x)
    BY Zenon DEF Insert, Over, Entry
  <2>2. \A j \in DOMAIN cache.txs : CacheEntry(j, cache.txs[j])
    BY Zenon DEF CacheExact, CacheEntry
  <2> HIDE DEF txs
  <2> QED  BY Zenon, <2>1, <2>2
<1> HIDE DEF txs
<1>3. /\ t \in DOMAIN txs /\ DOMAIN cache.txs \subseteq DOMAIN txs
      /\ \A k \in DOMAIN txs : CacheEntry(k, txs[k])
  BY SMTT(30), <1>1, <1>2
<1> QED  BY <1>3 DEF txs

(* The end of a lookup that answers res and has the cache and heightByHash   *)
(* exact.                                                                    *)
LEMMA AnswerLookups ==
  ASSUME StorageInv, LookupsExact, NEW r \in Readers, ReaderStep(r), NEW res,
         phase = "on", UNCHANGED <<phase, db>>, Grows, MemExact', CacheExact',
         Answer(r, res), AnswerExact(Log, reader[r].q, res)
  PROVE  LookupsExact'
<1>1. Log' = Log /\ SavedLog' = SavedLog
  BY Zenon, ReaderInv
<1>2. Extends(Log, Log')
  BY <1>1, LogIsChain DEF Extends
<1>3. ASSUME NEW s \in Readers PROVE ReaderExact(s)'
  <2>1. CASE s # r
    <3>1. reader'[s] = reader[s] /\ ReaderExact(s)
      BY Zenon, <2>1 DEF LookupsExact, Answer
    <3> QED  BY Zenon, <1>2, <3>1, ReaderStable
  <2>2. CASE s = r
    <3>1. reader'[r] = [at |-> "done", q |-> reader[r].q, status |-> reader[r].status,
                        result |-> res]
      BY Zenon DEF LookupsExact, Answer
    <3>2. reader'[r].at = "done" /\ reader'[r].q = reader[r].q /\ reader'[r].result = res
      BY <3>1
    <3> QED  BY Zenon, <1>1, <2>2, <3>2 DEF ReaderExact
  <2> QED  BY Zenon, <2>1, <2>2
<1>4. DbExact'
  BY Zenon, <1>1, DbExactFrame DEF LookupsExact, Settled
<1>5. DOMAIN reader' = Readers
  BY Zenon DEF LookupsExact, Answer
<1> QED  BY SMTT(30), <1>3, <1>4, <1>5 DEF LookupsExact

(* Storage::getBlock.                                                        *)
LEMMA GetBlockLookups ==
  ASSUME StorageInv, LookupsExact, NEW r \in Readers, GetBlock(r)
  PROVE  LookupsExact'
<1> DEFINE q == reader[r].q
           st == reader[r].status
           res == CASE st = "NotFound" -> NoHash
                    [] st = "OnDB" /\ HashIn(q) \notin db.blocks -> "throws"
                    [] OTHER -> HashIn(q)
<1>1. /\ reader[r].at = "inside" /\ q.op = "block" /\ Answer(r, res)
      /\ cache' = IF st = "OnDB" /\ HashIn(q) \in db.blocks
                  THEN [cache EXCEPT !.blocks = cache.blocks \cup {HashIn(q)}] ELSE cache
      /\ UNCHANGED <<phase, mem, db>>
  BY Zenon DEF GetBlock, Inside
<1>2. /\ phase = "on" /\ q \in Queries /\ StatusExact(q, st)
      /\ st \in {"NotFound", "OnChain", "OnCache", "OnDB"}
  BY Zenon, <1>1, InLookup
<1>3. q.by # "tx"
  BY SMTT(30), <1>1, <1>2, QueriesAssumption
<1>4. st # "NotFound" => On(Log, HashIn(q)) /\ (q.by = "height" => q.height = Height[HashIn(q)])
  <2> HIDE DEF q, st
  <2> QED  BY SMTT(30), <1>2, <1>3, HashInOn
<1>5. MemExact /\ CacheExact /\ Log' = Log
  BY SMTT(30), <1>2, ReaderInv DEF LookupsExact, ReaderStep
<1>6. MemExact'
  BY SMTT(30), <1>1, <1>5 DEF MemExact
<1> HIDE DEF q, st
<1>7. /\ CacheExact' /\ cache.blocks \subseteq cache'.blocks
      /\ cache'.txs = cache.txs
  BY SMTT(30), <1>1, <1>4, <1>5 DEF CacheExact
<1>8. Grows
  BY SMTT(30), <1>1, <1>7 DEF Grows
<1>9. st = "OnDB" => HashIn(q) \in db.blocks
  BY <1>3, <1>2 DEF StatusExact
<1>10. AnswerExact(Log, q, res)
  <2>1. (st = "NotFound" /\ res = NoHash) \/ (st # "NotFound" /\ res = HashIn(q))
    BY <1>9
  <2> HIDE DEF res
  <2> QED  BY <1>1, <1>4, <2>1 DEF AnswerExact
<1>11. ReaderStep(r)
  BY Zenon DEF ReaderStep
<1> HIDE DEF res
<1> QED  BY SMTT(30), <1>1, <1>2, <1>6, <1>7, <1>8, <1>10, <1>11, AnswerLookups DEF q

(* A lookup that inserts into the cache of transactions what is exact.       *)
LEMMA TxCacheGrows ==
  ASSUME CacheExact, Log' = Log, NEW t, NEW x, CacheEntry(t, x),
         cache' = [cache EXCEPT !.txs = Insert(cache.txs, t, x)]
  PROVE  /\ CacheExact' /\ cache.blocks \subseteq cache'.blocks
         /\ DOMAIN cache.txs \subseteq DOMAIN cache'.txs
<1>1. PICK txs : txs = Insert(cache.txs, t, x)
  OBVIOUS
<1>2. DOMAIN cache.txs \subseteq DOMAIN txs /\ \A k \in DOMAIN txs : CacheEntry(k, txs[k])
  BY <1>1, CacheInsert
<1>3. cache' = [cache EXCEPT !.txs = txs] /\ DOMAIN cache = {"blocks", "txs"}
  BY <1>1 DEF CacheExact
<1>4. cache'.txs = txs /\ cache'.blocks = cache.blocks /\ DOMAIN cache' = {"blocks", "txs"}
  BY Zenon, <1>3
<1> QED  BY <1>2, <1>4 DEF CacheExact, CacheEntry

(* Storage::getTx.                                                           *)
LEMMA GetTxLookups ==
  ASSUME StorageInv, LookupsExact, NEW r \in Readers, GetTx(r)
  PROVE  LookupsExact'
<1> DEFINE q == reader[r].q
           st == reader[r].status
           x == Found(TxAt(db.txs[q.tx]), db.txs[q.tx])
           txs == Insert(cache.txs, q.tx, x)
           res == CASE st = "NotFound" -> NoTx
                    [] st = "OnChain" -> Found(q.tx, mem.txByHash[q.tx])
                    [] st = "OnCache" -> cache.txs[q.tx]
                    [] st = "OnDB" -> txs[q.tx]
<1>1. /\ reader[r].at = "inside" /\ q.by = "tx" /\ Answer(r, res)
      /\ cache' = IF st = "OnDB" THEN [cache EXCEPT !.txs = txs] ELSE cache
      /\ UNCHANGED <<phase, mem, db>>
  BY Zenon DEF GetTx, Inside
<1>2. /\ phase = "on" /\ q \in Queries /\ StatusExact(q, st)
      /\ st \in {"NotFound", "OnChain", "OnCache", "OnDB"}
  BY Zenon, <1>1, InLookup
<1> HIDE DEF q, st
<1>3. q.op = "tx"
  BY SMTT(30), <1>1, <1>2, QueriesAssumption
<1>4. MemExact /\ CacheExact /\ Log' = Log
  BY <1>2, ReaderInv DEF LookupsExact, ReaderStep
<1>5. MemExact'
  BY Zenon, <1>1, <1>4 DEF MemExact
<1>6. ASSUME st = "OnDB" PROVE CacheEntry(q.tx, x)
  <2>1. Exact(Log, q.tx, db.txs[q.tx])
    BY Zenon, <1>1, <1>2, <1>6, DbInLog DEF StatusExact
  <2>2. TxAt(db.txs[q.tx]) = q.tx
    BY Zenon, <2>1 DEF TxAt, Exact
  <2> QED  BY SMTT(30), <2>1, <2>2, FoundExact DEF CacheEntry
<1> HIDE DEF x
<1>7. CacheEntry(q.tx, res)
  <2>1. CASE st = "NotFound"
    BY Zenon, <2>1 DEF CacheEntry
  <2>2. CASE st = "OnChain"
    <3>1. Exact(Log, q.tx, mem.txByHash[q.tx])
      BY SMTT(30), <1>1, <1>2, <1>4, <2>2 DEF StatusExact, MemExact
    <3>2. res = Found(q.tx, mem.txByHash[q.tx])
      BY Zenon, <2>2
    <3> HIDE DEF res
    <3> QED  BY SMTT(30), <3>1, <3>2, FoundExact DEF CacheEntry
  <2>3. CASE st = "OnCache"
    <3>1. q.tx \in DOMAIN cache.txs /\ res = cache.txs[q.tx]
      BY <1>1, <1>2, <2>3 DEF StatusExact
    <3> QED  BY Zenon, <1>4, <3>1 DEF CacheExact, CacheEntry
  <2>4. CASE st = "OnDB"
    <3>1. res = txs[q.tx]
      BY Zenon, <2>4
    <3> QED  BY SMTT(30), <1>4, <1>6, <2>4, <3>1, CacheInsert
  <2> QED  BY Zenon, <1>2, <2>1, <2>2, <2>3, <2>4
<1>8. /\ CacheExact' /\ cache.blocks \subseteq cache'.blocks
      /\ DOMAIN cache.txs \subseteq DOMAIN cache'.txs
  <2>1. CASE st = "OnDB"
    BY SMTT(30), <1>1, <1>4, <1>6, <2>1, TxCacheGrows
  <2>2. CASE st # "OnDB"
    BY SMTT(30), <1>1, <1>4, <2>2 DEF CacheExact
  <2> QED  BY <2>1, <2>2
<1> HIDE DEF txs, res
<1>9. AnswerExact(Log, q, res)
  BY Zenon, <1>3, <1>7 DEF CacheEntry, AnswerExact
<1>10. Grows /\ ReaderStep(r)
  BY Zenon, <1>1, <1>8 DEF Grows, ReaderStep
<1> QED  BY SMTT(30), <1>1, <1>2, <1>5, <1>8, <1>9, <1>10, AnswerLookups DEF q

(* Storage::getTxByBlockHashAndIndex and getTxByBlockNumberAndIndex: the     *)
(* entry of blockHeightByHash they read, or insert, is there.                *)
LEMMA GetTxInBlockLookups ==
  ASSUME StorageInv, LookupsExact, NEW r \in Readers, GetTxInBlock(r)
  PROVE  LookupsExact'
<1> DEFINE q == reader[r].q
           st == reader[r].status
           b == HashIn(q)
           t == Txs[b][q.index + 1]
           mismatch == /\ st = "OnChain" /\ q.by = "hash"
                       /\ \/ mem.txByHash[t].block # b
                          \/ mem.txByHash[t].index # q.index
           heights == Insert(mem.heightByHash, b, 0)
           fromCache == Insert(cache.txs, t, NoTx)
           place == [block |-> b, index |-> q.index, height |-> heights[b]]
           x == Found(t, place)
           fromDB == Insert(cache.txs, t, x)
           res == CASE st = "NotFound" \/ mismatch -> NoTx
                    [] st = "OnChain" /\ ~mismatch -> Found(t, mem.txByHash[t])
                    [] st = "OnCache" -> fromCache[t]
                    [] st = "OnDB" -> fromDB[t]
<1>1. /\ reader[r].at = "inside" /\ q.op = "tx" /\ q.by # "tx" /\ Answer(r, res)
      /\ cache' = CASE st = "OnCache" -> [cache EXCEPT !.txs = fromCache]
                    [] st = "OnDB" -> [cache EXCEPT !.txs = fromDB]
                    [] OTHER -> cache
      /\ mem' = IF st = "OnDB" THEN [mem EXCEPT !.heightByHash = heights] ELSE mem
      /\ UNCHANGED <<phase, db>>
  BY Zenon DEF GetTxInBlock, Inside
<1>2. /\ phase = "on" /\ q \in Queries /\ StatusExact(q, st)
      /\ st \in {"NotFound", "OnChain", "OnCache", "OnDB"}
  BY Zenon, <1>1, InLookup
<1> HIDE DEF q, st
<1>3. MemExact /\ CacheExact /\ Log' = Log
  BY <1>2, ReaderInv DEF LookupsExact, ReaderStep
<1>4. st # "NotFound" => On(Log, b) /\ q.index + 1 \in DOMAIN Txs[b] /\ t \in Range(Txs[b])
  BY Zenon, <1>1, <1>2, HashInOn, TxInBlock
<1> HIDE DEF b
<1>5. ASSUME st = "OnDB"
      PROVE  /\ DOMAIN heights = DOMAIN mem.heightByHash
             /\ \A c \in DOMAIN mem.heightByHash : heights[c] = mem.heightByHash[c]
             /\ heights[b] = Height[b]
  <2>1. b \in DOMAIN mem.heightByHash
    <3>1. On(Log, b)
      BY Zenon, <1>4, <1>5
    <3> QED  BY SMTT(30), <1>3, <3>1 DEF On, MemExact
  <2>2. mem.heightByHash[b] = Height[b]
    BY Zenon, <1>3, <2>1 DEF MemExact
  <2> QED  BY ZenonT(30), <2>1, <2>2 DEF Insert, Over, Entry
<1> HIDE DEF heights
<1>6. /\ MemExact' /\ mem'.blockByHash = mem.blockByHash /\ mem'.txByHash = mem.txByHash
      /\ mem'.hashByHeight = mem.hashByHeight
  <2>1. CASE st # "OnDB"
    BY Zenon, <1>1, <1>3, <2>1 DEF MemExact
  <2>2. CASE st = "OnDB"
    <3>1. mem' = [mem EXCEPT !.heightByHash = heights]
      BY Zenon, <1>1, <2>2
    <3>2. /\ mem'.blockByHash = mem.blockByHash /\ mem'.txByHash = mem.txByHash
          /\ mem'.hashByHeight = mem.hashByHeight /\ mem'.heightByHash = heights
      BY Zenon, <3>1 DEF StorageInv, Shape
    <3> QED  BY SMTT(30), <1>3, <1>5, <2>2, <3>2 DEF MemExact
  <2> QED  BY Zenon, <2>1, <2>2
<1>7. ASSUME st = "OnDB" PROVE CacheEntry(t, x)
  <2>1. place.block = b /\ place.index = q.index /\ place.height = heights[b]
    BY Zenon
  <2>2. On(Log, b) /\ q.index + 1 \in DOMAIN Txs[b] /\ heights[b] = Height[b]
    BY SMTT(30), <1>4, <1>5, <1>7
  <2>3. Txs[b][q.index + 1] = t
    OBVIOUS
  <2> HIDE DEF place, t
  <2>4. Exact(Log, t, place)
    BY Zenon, <2>1, <2>2, <2>3 DEF Exact
  <2> QED  BY <2>4, FoundExact DEF CacheEntry
<1>8. CacheEntry(t, NoTx)
  BY Zenon DEF CacheEntry
<1> HIDE DEF t, x
<1>9. CacheEntry(t, res)
  <2>1. CASE st = "NotFound" \/ mismatch
    BY Zenon, <1>8, <2>1
  <2>2. CASE st = "OnChain" /\ ~mismatch
    <3>1. HashIn(q) \in mem.blockByHash
      BY SMTT(30), <1>1, <1>2, <2>2 DEF StatusExact
    <3>2. t \in DOMAIN mem.txByHash
      BY SMTT(30), <1>3, <1>4, <2>2, <3>1 DEF MemExact, b
    <3>3. Exact(Log, t, mem.txByHash[t])
      BY Zenon, <1>3, <3>2 DEF MemExact
    <3>4. res = Found(t, mem.txByHash[t])
      BY Zenon, <2>2
    <3> HIDE DEF res
    <3> QED  BY SMTT(30), <3>3, <3>4, FoundExact DEF CacheEntry
  <2>3. CASE st = "OnCache"
    <3>1. res = fromCache[t]
      BY Zenon, <2>3
    <3> QED  BY Zenon, <1>3, <1>8, <3>1, CacheInsert
  <2>4. CASE st = "OnDB"
    <3>1. res = fromDB[t]
      BY Zenon, <2>4
    <3> QED  BY SMTT(30), <1>3, <1>7, <2>4, <3>1, CacheInsert
  <2> QED  BY SMTT(30), <1>2, <2>1, <2>2, <2>3, <2>4
<1>10. /\ CacheExact' /\ cache.blocks \subseteq cache'.blocks
       /\ DOMAIN cache.txs \subseteq DOMAIN cache'.txs
  <2>1. CASE st = "OnCache"
    BY SMTT(30), <1>1, <1>3, <1>8, <2>1, TxCacheGrows
  <2>2. CASE st = "OnDB"
    BY SMTT(30), <1>1, <1>3, <1>7, <2>2, TxCacheGrows
  <2>3. CASE st \notin {"OnCache", "OnDB"}
    BY <1>1, <1>3, <2>3 DEF CacheExact
  <2> QED  BY SMTT(30), <2>1, <2>2, <2>3
<1> HIDE DEF mismatch, fromCache, fromDB, res
<1>11. AnswerExact(Log, q, res)
  <2>1. res # NoTx => Exact(Log, res.tx, res)
    BY Zenon, <1>9 DEF CacheEntry
  <2> QED  BY <1>1, <2>1 DEF AnswerExact
<1>12. Grows /\ ReaderStep(r)
  BY SMTT(30), <1>1, <1>6, <1>10 DEF Grows, ReaderStep
<1> QED  BY SMTT(30), <1>1, <1>2, <1>6, <1>10, <1>11, <1>12, AnswerLookups DEF q

-----------------------------------------------------------------------------
(* Every step of a node whose shutdowns have not been torn.                  *)
LEMMA LookupInvStep ==
  ASSUME StorageInv, PartsInv, LookupInv, [NodeNext]_nodeVars
  PROVE  LookupInv'
<1> SUFFICES ASSUME ~torn' PROVE LookupsExact'
  BY Zenon DEF LookupInv
<1>1. torn' = torn \/ CrashNode
  BY Zenon DEF NodeNext, StartNode, ProcessNextBlock, Look, Stop, SavePart, SaveChain, nodeVars, parts
<1>2. LookupsExact
  BY Zenon, <1>1 DEF LookupInv, CrashNode
<1>3. ASSUME UNCHANGED vars PROVE LookupsExact'
  <2>1. Log' = Log /\ SavedLog' = SavedLog /\ UNCHANGED <<phase, mem, cache, db, reader>>
    BY Zenon, <1>3, FrameStep DEF vars
  <2>2. DbExact'
    BY SMTT(30), <1>2, <2>1, DbExactFrame DEF LookupsExact, Settled
  <2>3. phase = "on" => MemExact' /\ CacheExact'
    BY Zenon, <1>2, <2>1 DEF LookupsExact, MemExact, CacheExact
  <2>4. Grows /\ Extends(Log, Log')
    <3>1. Grows
      BY Zenon, <2>1 DEF Grows
    <3>2. Len(Log) \in Nat
      BY Zenon, LogIsChain
    <3> QED  BY <2>1, <3>1, <3>2 DEF Extends
  <2>5. \A r \in Readers : ReaderExact(r)'
    BY SMTT(30), <1>2, <2>1, <2>4, ReaderStable DEF LookupsExact
  <2> QED  BY SMTT(30), <1>2, <2>1, <2>2, <2>3, <2>5 DEF LookupsExact
<1>4. CASE StartNode
  BY SMTT(30), <1>2, <1>4, StartLookups, LoadLookups DEF StartNode
<1>5. CASE \E b \in Blocks : ProcessNextBlock(b)
  BY SMTT(30), <1>2, <1>5, PushBackLookups DEF ProcessNextBlock
<1>6. CASE \E r \in Readers : Look(r)
  BY SMTT(30), <1>2, <1>6, AskLookups, EnterLookups, GetBlockLookups, GetTxLookups,
     GetTxInBlockLookups DEF Look, ReaderStep
<1>7. CASE Stop \/ (\E p \in Parts : SavePart(p)) \/ UNCHANGED nodeVars
  BY Zenon, <1>3, <1>7 DEF Stop, SavePart, nodeVars
<1>8. CASE SaveChain
  BY <1>2, <1>8, EndLookups, SaveLookups DEF SaveChain
<1>9. CASE CrashNode
  <2>1. Die /\ ~Written
    BY Zenon, <1>9 DEF CrashNode
  <2>2. phase \notin Closing
    <3>1. stage # "chain" /\ phase \notin Closing \ {"blocks"}
      BY Zenon, <2>1 DEF Written, SaveOrder
    <3> QED  BY Zenon, <3>1 DEF PartsInv, Closing
  <2> QED  BY <1>2, <2>1, <2>2, EndLookups
<1> QED  BY SMTT(30), <1>4, <1>5, <1>6, <1>7, <1>8, <1>9 DEF NodeNext

(* The lookups by hash, by height and by transaction, of threads that ask    *)
(* in one step and read in another, answer from the chain of the node and    *)
(* with the place there, after any restart that found a complete shutdown:   *)
(* the mappings in memory, the caches and the database agree with it.        *)
THEOREM LookupsAreExact == NodeSpec => []UntornLookupsAreExact
<1>1. ASSUME NodeInit PROVE LookupInv
  <2>1. /\ phase = "off" /\ cache = EmptyCache /\ db = EmptyDB
        /\ reader = [r \in Readers |-> Idle]
    BY Zenon, <1>1 DEF NodeInit, Init
  <2>2. DbExact
    BY Zenon, <2>1 DEF DbExact, EmptyDB, NoEntries
  <2> QED  BY Zenon, <2>1, <2>2 DEF LookupInv, LookupsExact, ReaderExact
<1>2. ASSUME StorageInv, LookupInv PROVE UntornLookupsAreExact
  <2> SUFFICES ASSUME ~torn PROVE HeightsIndexChain /\ AnswersAreFromChain
    BY Zenon DEF UntornLookupsAreExact
  <2>1. LookupsExact
    BY Zenon, <1>2 DEF LookupInv
  <2>2. HeightsIndexChain
    <3>1. ASSUME phase = "on", NEW i \in 1..Len(Log)
          PROVE  i - 1 \in DOMAIN mem.hashByHeight /\ mem.hashByHeight[i - 1] = Log[i]
      <4>1. MemExact
        BY Zenon, <2>1, <3>1 DEF LookupsExact
      <4>2. i - 1 \in DOMAIN mem.hashByHeight /\ (i - 1) + 1 = i
        BY <4>1 DEF MemExact
      <4> QED  BY Zenon, <4>1, <4>2 DEF MemExact
    <3> QED  BY Zenon, <3>1 DEF HeightsIndexChain
  <2>3. AnswersAreFromChain
    <3> SUFFICES ASSUME NEW r \in Readers, reader[r].at = "done"
                 PROVE  LET q == reader[r].q
                            res == reader[r].result
                        IN IF q.op = "block"
                           THEN res # NoHash => /\ \E i \in 1..Len(Log) : Log[i] = res
                                                /\ q.by = "height" => Log[q.height + 1] = res
                           ELSE res # NoTx => /\ res.height + 1 \in 1..Len(Log)
                                              /\ Log[res.height + 1] = res.block
                                              /\ Txs[res.block][res.index + 1] = res.tx
                                              /\ q.by = "tx" => res.tx = q.tx
      BY Zenon DEF AnswersAreFromChain
    <3>1. AnswerExact(Log, reader[r].q, reader[r].result)
      BY <2>1 DEF LookupsExact, ReaderExact, Idle
    <3>2. PICK q, res : q = reader[r].q /\ res = reader[r].result
      OBVIOUS
    <3>3. \A b : On(Log, b) => \E i \in 1..Len(Log) : Log[i] = b
      BY Zenon DEF On
    <3>4. AnswerExact(Log, q, res)
      BY Zenon, <3>1, <3>2
    <3>5. ASSUME q.op = "block", res # NoHash
          PROVE  On(Log, res) /\ (q.by = "height" => Log[q.height + 1] = res)
      BY <3>4, <3>5 DEF AnswerExact, On
    <3>6. ASSUME q.op # "block", res # NoTx
          PROVE  /\ res.height + 1 \in 1..Len(Log) /\ Log[res.height + 1] = res.block
                 /\ Txs[res.block][res.index + 1] = res.tx
                 /\ q.by = "tx" => res.tx = q.tx
      BY <3>4, <3>6 DEF AnswerExact, On, Exact
    <3> QED  BY Zenon, <3>2, <3>3, <3>5, <3>6
  <2> QED  BY Zenon, <2>2, <2>3
<1>3. StorageInv /\ PartsInv /\ LookupInv /\ [NodeNext]_nodeVars => PartsInv' /\ LookupInv'
  BY PartsInvStep, LookupInvStep
<1>4. NodeInit => PartsInv
  BY Zenon, PartsInvInit
<1> QED  BY <1>1, <1>2, <1>3, <1>4, NodeKeepsStorageInv, PTL DEF NodeSpec

=============================================================================
