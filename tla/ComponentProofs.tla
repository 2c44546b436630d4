-------------------------- MODULE ComponentProofs --------------------------
(***************************************************************************)
(* Components that stand alone.  Variables, for any number of scalars,     *)
(* keys and values: the plain variables of a contract are transactional,   *)
(* whatever is done to its other variables.  P2P sessions, for any set of  *)
(* peers, any finite set of session objects and any limit: what sessions_  *)
(* holds is open, and what makes clientSessionsCount fall behind.  HTTP    *)
(* sessions, for every limit of the queue and every number of requests: at *)
(* most one read and one write are pending, the queue keeps its limit, and *)
(* responses leave in the order of the requests.                           *)
(***************************************************************************)
EXTENDS SafeVars, Sessions, HttpSession, FiniteSetTheorems, TLAPS

-----------------------------------------------------------------------------
(* The variables of a contract. *)

Names == Scalars \union Keys

SafeVarsTypeOK ==
  /\ phase \in {"idle", "call"}
  /\ value \in [Scalars -> Values]
  /\ valuePtr \in [Scalars -> Values \union {Null}]
  /\ map \in [Keys -> Values \union {Absent}]
  /\ mapPtr \in [Keys -> Values \union {Absent}]
  /\ committed \in [Names -> Values \union {Absent}]
  /\ working \in [Names -> Values \union {Absent}]
  /\ registered \subseteq Scalars \union {TheMap}

(* The inductive invariant: no plain key is ever marked as erased, what is   *)
(* registered is listed, and what is not listed has not been written.        *)
NotErased == \A k \in PlainKeys : k \notin erasedKeys

UnusedIsUnwritten ==
  /\ \A v \in PlainScalars : v \notin usedVariables => working[v] = committed[v]
  /\ TheMap \notin usedVariables => \A k \in PlainKeys : working[k] = committed[k]

ValueIsCommitted == \A v \in PlainScalars : value[v] = committed[v]

IInv ==
  /\ SafeVarsTypeOK
  /\ NotErased
  /\ RegisteredIsUsed
  /\ UnusedIsUnwritten
  /\ ValueIsCommitted
  /\ MapIsCommitted
  /\ ReadsAreTransactional

(* Plain variables are variables.                                            *)
LEMMA PlainAreNames == PlainScalars \subseteq Scalars \ Addresses /\ PlainKeys \subseteq Keys
BY Zenon DEF PlainScalars, PlainKeys

(* After the constructors.                                                   *)
LEMMA InitIInv == ASSUME SafeVarsInit PROVE IInv
<1>1. SafeVarsTypeOK
  BY Zenon, SafeVarsAssumption DEF SafeVarsInit, Tx!Init, SafeVarsTypeOK, Names
<1>2. UnusedIsUnwritten /\ ValueIsCommitted
  BY Zenon, SafeVarsAssumption DEF SafeVarsInit, Tx!Init, UnusedIsUnwritten, ValueIsCommitted, PlainScalars, PlainKeys
<1>3. MapIsCommitted /\ ReadsAreTransactional
  BY Zenon, SafeVarsAssumption
    DEF SafeVarsInit, Tx!Init, MapIsCommitted, ReadsAreTransactional, Peek, Entry, PlainScalars, PlainKeys
<1> QED BY Zenon, <1>1, <1>2, <1>3 DEF IInv, SafeVarsInit, RegisteredIsUsed, NotErased

(* A write of x to a scalar, plain or not.                                   *)
LEMMA AssignKeepsIInv ==
  ASSUME IInv, NEW v \in Scalars, NEW x \in Values, Assign(v, x) PROVE IInv'
<1> USE SafeVarsAssumption, PlainAreNames DEF IInv, Assign, Tx!Write, MarkAsUsed, RegisteredIsUsed
<1>1. SafeVarsTypeOK'
  BY DEF SafeVarsTypeOK, Names
<1>2. UnusedIsUnwritten'
  BY DEF UnusedIsUnwritten, SafeVarsTypeOK, Names
<1>3. ValueIsCommitted' /\ MapIsCommitted' /\ NotErased'
  BY Zenon DEF ValueIsCommitted, MapIsCommitted, NotErased
<1>4. ReadsAreTransactional'
  BY DEF ReadsAreTransactional, Peek, Entry, SafeVarsTypeOK, Names
<1>5. RegisteredIsUsed'
  OBVIOUS
<1> QED BY SMTT(30), <1>1, <1>2, <1>3, <1>4, <1>5

(* A write to an entry of the map: y is a value, or Absent when a key that   *)
(* is not plain is erased.                                                   *)
LEMMA EntryWriteKeepsIInv ==
  ASSUME IInv, NEW k \in Keys, NEW y \in Values \union {Absent}, NEW z \in Values \union {Absent},
         NEW op, Modify(op, k), mapPtr' = [mapPtr EXCEPT ![k] = y], Tx!Write(k, z),
         erasedKeys' \subseteq erasedKeys \union {k},
         k \in PlainKeys => y = z /\ y # Absent /\ erasedKeys' = erasedKeys
  PROVE  IInv'
<1> USE SafeVarsAssumption, PlainAreNames DEF IInv, Modify, Tx!Write, MarkAsUsed, RegisteredIsUsed
<1>1. SafeVarsTypeOK'
  BY DEF SafeVarsTypeOK, Names
<1>2. UnusedIsUnwritten'
  BY DEF UnusedIsUnwritten, SafeVarsTypeOK, Names
<1>3. ValueIsCommitted' /\ MapIsCommitted'
  BY Zenon DEF ValueIsCommitted, MapIsCommitted
<1>4. NotErased'
  BY Zenon DEF NotErased
<1>5. \A v \in PlainScalars : Peek(v)' = working'[v]
  BY DEF ReadsAreTransactional, Peek, SafeVarsTypeOK, Names
<1>6. \A l \in PlainKeys : Entry(l)' = working'[l]
  <2> SUFFICES ASSUME NEW l \in PlainKeys PROVE Entry(l)' = working'[l]
    OBVIOUS
  <2>1. l \notin erasedKeys /\ l \notin erasedKeys'
    BY Zenon, <1>4 DEF NotErased
  <2>2. CASE l = k
    BY Zenon, <2>1, <2>2 DEF Entry, SafeVarsTypeOK, Names
  <2>3. CASE l # k
    BY <2>1, <2>3 DEF ReadsAreTransactional, Entry, SafeVarsTypeOK, Names
  <2> QED BY Zenon, <2>2, <2>3
<1>7. RegisteredIsUsed'
  OBVIOUS
<1> QED BY ZenonT(30), <1>1, <1>2, <1>3, <1>4, <1>5, <1>6, <1>7 DEF ReadsAreTransactional

(* A read may copy a value, and changes none.                                *)
LEMMA ReadKeepsIInv ==
  ASSUME IInv, \/ \E v \in Scalars : Get(v)
               \/ \E k \in Keys : Find(k)
               \/ Begin
  PROVE  IInv'
<1> USE SafeVarsAssumption, PlainAreNames
<1>1. ASSUME NEW v \in Scalars, Get(v) PROVE IInv'
  <2> USE <1>1 DEF IInv, Get
  <2>1. SafeVarsTypeOK'
    BY Zenon DEF SafeVarsTypeOK, Names, Peek
  <2>2. ReadsAreTransactional'
    BY DEF ReadsAreTransactional, Peek, Entry, SafeVarsTypeOK
  <2> QED
    BY <2>1, <2>2
      DEF UnusedIsUnwritten, ValueIsCommitted, MapIsCommitted, RegisteredIsUsed, NotErased
<1>2. ASSUME NEW k \in Keys, Find(k) PROVE IInv'
  <2> USE <1>2 DEF IInv, Find
  <2>1. SafeVarsTypeOK'
    BY Zenon DEF SafeVarsTypeOK, Names, Entry
  <2>2. ReadsAreTransactional'
    BY DEF ReadsAreTransactional, Peek, Entry, SafeVarsTypeOK
  <2> QED
    BY Zenon, <2>1, <2>2
      DEF UnusedIsUnwritten, ValueIsCommitted, MapIsCommitted, RegisteredIsUsed, NotErased
<1>3. ASSUME Begin PROVE IInv'
  BY Zenon, <1>3
    DEF IInv, Begin, SafeVarsTypeOK, UnusedIsUnwritten, ValueIsCommitted, MapIsCommitted,
        RegisteredIsUsed, ReadsAreTransactional, Peek, Entry, NotErased
<1> QED BY SMTT(30), <1>1, <1>2, <1>3

(* commit() of every used variable.                                          *)
LEMMA CommitKeepsIInv ==
  ASSUME IInv, Commit PROVE IInv'
<1> USE SafeVarsAssumption, PlainAreNames
    DEF IInv, Commit, Unregister, NullifyUsed, CommitValues, CommitMap, Tx!Commit
<1>1. /\ \A v \in Scalars : Peek(v) \in Values
      /\ \A v \in PlainScalars : Peek(v) = working[v]
  BY Zenon DEF ReadsAreTransactional, Peek, SafeVarsTypeOK
<1>2. \A k \in PlainKeys : map'[k] = working[k]
  BY DEF ReadsAreTransactional, Entry, SafeVarsTypeOK, MapIsCommitted, UnusedIsUnwritten, NotErased
<1>3. \A v \in PlainScalars : value'[v] = working[v]
  BY Zenon, <1>1 DEF UnusedIsUnwritten, ValueIsCommitted, SafeVarsTypeOK
<1>4. SafeVarsTypeOK'
  BY <1>1 DEF SafeVarsTypeOK, Names
<1>5. RegisteredIsUsed'
  BY Zenon DEF RegisteredIsUsed
<1>6. NotErased'
  BY Zenon DEF NotErased
<1>7. \A v \in PlainScalars : Peek(v)' = working'[v]
  BY Zenon, <1>1, <1>3 DEF Peek, SafeVarsTypeOK
<1>8. \A k \in PlainKeys : Entry(k)' = working'[k]
  BY <1>2 DEF ReadsAreTransactional, Entry, SafeVarsTypeOK, NotErased
<1> QED
  BY Zenon, <1>2, <1>3, <1>4, <1>5, <1>6, <1>7, <1>8
    DEF UnusedIsUnwritten, ValueIsCommitted, MapIsCommitted, ReadsAreTransactional

(* revert() of every used variable.                                          *)
LEMMA RevertKeepsIInv ==
  ASSUME IInv, Revert PROVE IInv'
<1> USE SafeVarsAssumption, PlainAreNames
    DEF IInv, Revert, Unregister, NullifyUsed, RevertMap, Tx!Revert
<1>1. SafeVarsTypeOK'
  BY DEF SafeVarsTypeOK, Names
<1>2. RegisteredIsUsed'
  BY Zenon DEF RegisteredIsUsed
<1>3. NotErased'
  BY Zenon DEF NotErased
<1>4. \A v \in PlainScalars : Peek(v)' = working'[v]
  BY Zenon DEF ReadsAreTransactional, Peek, SafeVarsTypeOK, UnusedIsUnwritten, ValueIsCommitted
<1>5. \A k \in PlainKeys : Entry(k)' = working'[k]
  BY DEF ReadsAreTransactional, Entry, SafeVarsTypeOK, UnusedIsUnwritten, MapIsCommitted, NotErased
<1> QED
  BY Zenon, <1>1, <1>2, <1>3, <1>4, <1>5
    DEF UnusedIsUnwritten, ValueIsCommitted, MapIsCommitted, ReadsAreTransactional

(* Every operation keeps the invariant.                                      *)
LEMMA NextKeepsIInv ==
  ASSUME IInv, [SafeVarsNext]_safeVars PROVE IInv'
<1>1. CASE Commit
  BY Zenon, <1>1, CommitKeepsIInv
<1>2. CASE Revert
  BY Zenon, <1>2, RevertKeepsIInv
<1>3. CASE Begin \/ (\E v \in Scalars : Get(v)) \/ (\E k \in Keys : Find(k))
  BY Zenon, <1>3, ReadKeepsIInv
<1>4. ASSUME NEW v \in Scalars, NEW x \in Values, Assign(v, x) PROVE IInv'
  BY Zenon, <1>4, AssignKeepsIInv
<1>5. ASSUME NEW k \in Keys, NEW x \in Values, Index(k, x) \/ At(k, x) \/ InsertOrAssign(k, x)
      PROVE IInv'
  <2>1. PICK op : /\ Modify(op, k) /\ mapPtr' = [mapPtr EXCEPT ![k] = x]
                  /\ UNCHANGED erasedKeys /\ Tx!Write(k, x)
    BY Zenon, <1>5 DEF Index, At, InsertOrAssign
  <2> QED BY Zenon, <2>1, EntryWriteKeepsIInv, SafeVarsAssumption
<1>6. ASSUME NEW k \in Keys, Erase(k) PROVE IInv'
  <2>1. k \notin PlainKeys
    BY Zenon, <1>6 DEF Erase, Modify, PlainKeys
  <2> QED BY Zenon, <2>1, <1>6, EntryWriteKeepsIInv DEF Erase
<1>7. ASSUME NEW k \in Keys, NEW x \in Values, Insert(k, x) PROVE IInv'
  <2> DEFINE y == IF mapPtr[k] = Absent THEN x ELSE mapPtr[k]
             z == IF working[k] = Absent THEN x ELSE working[k]
  <2>1. k \notin PlainKeys
    BY Zenon, <1>7 DEF Insert, Modify, PlainKeys
  <2>2. y \in Values \union {Absent} /\ z \in Values \union {Absent}
    BY Zenon DEF IInv, SafeVarsTypeOK, Names
  <2>3. /\ Modify("insert", k) /\ mapPtr' = [mapPtr EXCEPT ![k] = y]
        /\ erasedKeys' = erasedKeys /\ Tx!Write(k, z)
    BY Zenon, <1>7 DEF Insert
  <2> HIDE DEF y, z
  <2> QED BY Zenon, <2>1, <2>2, <2>3, EntryWriteKeepsIInv
<1>8. CASE UNCHANGED safeVars
  BY Zenon, <1>8
    DEF safeVars, conc, IInv, SafeVarsTypeOK, UnusedIsUnwritten, ValueIsCommitted, MapIsCommitted,
        RegisteredIsUsed, ReadsAreTransactional, Peek, Entry, NotErased
<1> QED BY Zenon, <1>1, <1>2, <1>3, <1>4, <1>5, <1>6, <1>7, <1>8 DEF SafeVarsNext

(* Every read of a plain variable, in a call or between calls, gives what a  *)
(* transactional variable would give (SafeBase::commit, revert and the       *)
(* lookups); all variables of the contracts of the repository are plain.     *)
THEOREM VariablesAreTransactional ==
  SafeVarsSpec => []ReadsAreTransactional
<1>1. SafeVarsInit => IInv
  BY Zenon, InitIInv
<1>2. IInv /\ [SafeVarsNext]_safeVars => IInv'
  BY Zenon, NextKeepsIInv
<1>3. IInv => ReadsAreTransactional
  BY SMTT(30) DEF IInv
<1> QED BY <1>1, <1>2, <1>3, PTL DEF SafeVarsSpec

(* And iteration over the map, which is how it is saved, sees exactly the    *)
(* committed entries of plain keys.                                          *)
THEOREM MapHoldsCommitted ==
  SafeVarsSpec => []MapIsCommitted
<1>1. SafeVarsInit => IInv
  BY Zenon, InitIInv
<1>2. IInv /\ [SafeVarsNext]_safeVars => IInv'
  BY Zenon, NextKeepsIInv
<1>3. IInv => MapIsCommitted
  BY Zenon DEF IInv
<1> QED BY <1>1, <1>2, <1>3, PTL DEF SafeVarsSpec
-----------------------------------------------------------------------------
(* What a read finds in a map that no call under way has used, whatever was  *)
(* erased or inserted by earlier calls.                                      *)
UnusedMapIsClean ==
  TheMap \notin usedVariables => \A k \in Keys : Entry(k) = map[k]

(* A map no call has used has no pending change.                             *)
LEMMA CleanInductive ==
  ASSUME IInv, UnusedMapIsClean, [SafeVarsNext]_safeVars PROVE UnusedMapIsClean'
<1>0. /\ TheMap \in registered <=> TheMap \in usedVariables
      /\ DOMAIN mapPtr = Keys /\ TheMap \notin Scalars /\ TheMap \notin Addresses
  BY Zenon, SafeVarsAssumption DEF IInv, SafeVarsTypeOK, RegisteredIsUsed
<1>1. CASE UNCHANGED <<map, mapPtr, erasedKeys>> /\ usedVariables \subseteq usedVariables'
  BY Zenon, <1>1 DEF UnusedMapIsClean, Entry
<1>2. ASSUME NEW v \in Scalars, (\E x \in Values : Assign(v, x)) \/ Get(v) PROVE UnusedMapIsClean'
  BY <1>1, <1>2 DEF Assign, MarkAsUsed, Get
<1>3. ASSUME NEW k \in Keys, Find(k) PROVE UnusedMapIsClean'
  <2>1. \A l \in Keys : Entry(l)' = Entry(l)
    BY Zenon, <1>0, <1>3 DEF Find, Entry
  <2> QED  BY Zenon, <1>3, <2>1 DEF Find, UnusedMapIsClean
<1>4. ASSUME NEW op, NEW k \in Keys, Modify(op, k) PROVE UnusedMapIsClean'
  BY Zenon, <1>0, <1>4 DEF Modify, MarkAsUsed, UnusedMapIsClean
<1>5. CASE Commit \/ Revert
  <2>1. CASE TheMap \in usedVariables
    BY Zenon, <1>5, <2>1 DEF Commit, Revert, CommitMap, RevertMap, UnusedMapIsClean, Entry
  <2>2. CASE TheMap \notin usedVariables
    BY Zenon, <1>5, <2>2 DEF Commit, Revert, UnusedMapIsClean, Entry
  <2> QED  BY Zenon, <2>1, <2>2
<1>6. CASE Begin \/ UNCHANGED safeVars
  BY Zenon, <1>1, <1>6 DEF Begin, safeVars, conc
<1> QED
  BY <1>2, <1>3, <1>4, <1>5, <1>6 DEF SafeVarsNext, Erase, Index, At, InsertOrAssign, Insert

(* DynamicContract::updateState after a call that failed: each plain scalar  *)
(* and every key of the map, inserted and erased ones too, reads as it was   *)
(* last committed.                                                           *)
THEOREM FailedCallsAreUndone == SafeVarsSpec => RevertRestores
<1>1. SafeVarsInit => IInv /\ UnusedMapIsClean
  <2>1. SafeVarsInit => UnusedMapIsClean
    BY Zenon DEF SafeVarsInit, UnusedMapIsClean, Entry
  <2> QED  BY Zenon, <2>1, InitIInv
<1>2. IInv /\ UnusedMapIsClean /\ [SafeVarsNext]_safeVars => (IInv /\ UnusedMapIsClean)'
  BY Zenon, NextKeepsIInv, CleanInductive
<1>3. ASSUME IInv, UnusedMapIsClean, Revert
      PROVE  /\ \A v \in PlainScalars : Peek(v)' = value[v]
             /\ \A k \in Keys : Entry(k)' = map[k]
  <2>1. ASSUME NEW v \in PlainScalars PROVE Peek(v)' = value[v]
    <3>1. v \in Scalars /\ value' = value /\ NullifyUsed
      BY Zenon, <1>3, PlainAreNames DEF Revert
    <3>2. CASE v \in usedVariables
      BY Zenon, <3>1, <3>2 DEF NullifyUsed, Peek
    <3>3. CASE v \notin usedVariables
      <4>1. Peek(v) = value[v]
        BY Zenon, <1>3, <3>3 DEF IInv, UnusedIsUnwritten, ValueIsCommitted, ReadsAreTransactional
      <4> QED  BY <3>1, <3>3, <4>1 DEF NullifyUsed, Peek
    <3> QED  BY Zenon, <3>2, <3>3
  <2>2. ASSUME NEW k \in Keys PROVE Entry(k)' = map[k]
    <3>1. map' = map /\ IF TheMap \in usedVariables THEN RevertMap ELSE UNCHANGED <<mapPtr, erasedKeys>>
      BY Zenon, <1>3 DEF Revert
    <3>2. CASE TheMap \in usedVariables
      BY Zenon, <3>1, <3>2 DEF RevertMap, Entry
    <3>3. CASE TheMap \notin usedVariables
      BY Zenon, <1>3, <3>1, <3>3 DEF UnusedMapIsClean, Entry
    <3> QED  BY Zenon, <3>2, <3>3
  <2> QED  BY Zenon, <2>1, <2>2
<1>4. IInv /\ UnusedMapIsClean /\ [SafeVarsNext]_safeVars =>
        [Revert => /\ \A v \in PlainScalars : Peek(v)' = value[v]
                   /\ \A k \in Keys : Entry(k)' = map[k]]_safeVars
  BY Zenon, <1>3
<1> QED  BY <1>1, <1>2, <1>4, PTL DEF SafeVarsSpec, RevertRestores

-----------------------------------------------------------------------------
(* P2P sessions. *)

Registered == {"reading", "ended"}

(* Only a registered session is ever closed.                                 *)
FreshAreOpen == \A s \in Slots : objs[s] # None /\ objs[s].at \notin Registered => ~objs[s].closed

Inv == TypeOK /\ EntriesAreOpen /\ FreshAreOpen

(* The session of an entry exists and is registered.                         *)
LEMMA ListedFacts ==
  ASSUME SessionsAssumption, Inv, NEW s \in Slots, Listed(s)
  PROVE  objs[s] \in Objects /\ objs[s].at \in Registered /\ ~objs[s].closed
  BY DEF SessionsAssumption, Inv, TypeOK, Listed, EntriesAreOpen, Open, IsAt, Registered

(* A step of a session that has no entry, and that gets none, leaves the     *)
(* entries of the others as they are.                                        *)
LEMMA StepOfUnlisted ==
  ASSUME SessionsAssumption, Inv, NEW s \in Slots, ~Listed(s),
         objs'[s] \in Objects \union {None}, objs' = [objs EXCEPT ![s] = objs'[s]],
         objs'[s] # None /\ objs'[s].at \notin Registered => ~objs'[s].closed,
         closed' \in BOOLEAN, UNCHANGED <<sessions, count, wrong>>
  PROVE  Inv'
<1> USE DEF SessionsAssumption, Inv, TypeOK
<1>1. \A t \in Slots : t # s => objs'[t] = objs[t]
  BY Zenon
<1>2. TypeOK'
  BY Zenon
<1>3. \A p \in Ids : sessions[p] # s
  BY Zenon DEF Listed
<1>4. EntriesAreOpen'
  BY <1>1, <1>3 DEF EntriesAreOpen, Open, IsAt
<1>5. FreshAreOpen'
  BY Zenon, <1>1 DEF FreshAreOpen
<1> QED BY Zenon, <1>2, <1>4, <1>5

(* A session that is no longer what an entry needs has no entry: the handler *)
(* of an error removes the entry of its id, or finds it removed.             *)
LEMMA InvInductive ==
  ASSUME SessionsAssumption
  PROVE  Inv /\ [Next]_vars => Inv'
<1> SUFFICES ASSUME Inv, [Next]_vars PROVE Inv'
  OBVIOUS
<1> USE DEF SessionsAssumption
<1>1. CASE UNCHANGED vars
  BY Zenon, <1>1 DEF vars, Inv, TypeOK, EntriesAreOpen, FreshAreOpen, Open, IsAt
<1>2. CASE StartServer
  BY Zenon, <1>2 DEF StartServer, Inv, TypeOK, EntriesAreOpen, FreshAreOpen, Open, IsAt
<1>3. ASSUME NEW s \in Slots, ConnectToServer(s) \/ Accept(s) PROVE Inv'
  <2>1. ~Listed(s)
    BY <1>3, ListedFacts DEF ConnectToServer, Accept
  <2>2. PICK at \in {"connecting", "opening"}, type \in {"CLIENT", "SERVER"} :
          objs' = [objs EXCEPT ![s] = [at |-> at, type |-> type, peer |-> NoId, closed |-> FALSE]]
    BY Zenon, <1>3 DEF ConnectToServer, Accept, Opened
  <2>3. objs'[s] = [at |-> at, type |-> type, peer |-> NoId, closed |-> FALSE]
    BY Zenon, <2>2 DEF Inv, TypeOK
  <2>4. objs'[s] \in Objects /\ ~objs'[s].closed
    BY <2>3 DEF Objects, Ids
  <2>5. objs' = [objs EXCEPT ![s] = objs'[s]] /\ closed' \in BOOLEAN /\ UNCHANGED <<sessions, count, wrong>>
    BY Zenon, <1>3, <2>2, <2>3 DEF ConnectToServer, Accept, Inv, TypeOK
  <2> QED BY Zenon, <2>1, <2>4, <2>5, StepOfUnlisted
<1>4. ASSUME NEW s \in Slots, Gone(s), ~Listed(s), UNCHANGED <<closed, sessions, count, wrong>>
      PROVE  Inv'
  <2>1. objs'[s] = None /\ objs' = [objs EXCEPT ![s] = objs'[s]] /\ closed' \in BOOLEAN
    BY Zenon, <1>4 DEF Gone, Inv, TypeOK
  <2> QED BY Zenon, <1>4, <2>1, StepOfUnlisted
<1>5. ASSUME NEW s \in Slots, IsAt(s, {"connecting", "opening", "accepting", "registering"})
      PROVE  ~Listed(s) /\ objs[s] \in Objects /\ ~objs[s].closed
  BY <1>5, ListedFacts DEF IsAt, Registered, Inv, TypeOK, FreshAreOpen
<1>6. ASSUME NEW s \in Slots, NEW p \in Ids, NEW at \in {"accepting", "registering"},
             IsAt(s, {"connecting", "opening", "accepting"}),
             objs' = [objs EXCEPT ![s].at = at, ![s].peer = p],
             UNCHANGED <<closed, sessions, count, wrong>>
      PROVE  Inv'
  <2>1. ~Listed(s) /\ objs[s] \in Objects /\ ~objs[s].closed
    BY Zenon, <1>5, <1>6 DEF IsAt
  <2>2. objs'[s] = [objs[s] EXCEPT !.at = at, !.peer = p]
    BY <1>6 DEF Inv, TypeOK
  <2>3. objs'[s] \in Objects /\ ~objs'[s].closed
    BY Zenon, <2>1, <2>2 DEF Objects
  <2>4. objs' = [objs EXCEPT ![s] = objs'[s]] /\ closed' \in BOOLEAN
    BY Zenon, <1>6, <2>2 DEF Inv, TypeOK
  <2> QED BY Zenon, <1>6, <2>1, <2>3, <2>4, StepOfUnlisted
<1>7. ASSUME NEW s \in Slots, NEW p \in Ids, ReadRequest(s, p) PROVE Inv'
  BY Zenon, <1>6, <1>7 DEF ReadRequest, IsAt
<1>8. ASSUME NEW s \in Slots, NEW p \in Ids, Handshake(s, p) PROVE Inv'
  BY Zenon, <1>4, <1>5, <1>6, <1>8 DEF Handshake, IsAt
<1>9. ASSUME NEW s \in Slots, BadHeaders(s) PROVE Inv'
  BY Zenon, <1>4, <1>5, <1>9 DEF BadHeaders, IsAt
<1>10. ASSUME NEW s \in Slots, OnAccept(s) PROVE Inv'
  <2>1. objs[s] \in Objects /\ objs[s].peer \in Ids /\ ~Listed(s)
    BY Zenon, <1>5, <1>10 DEF OnAccept, IsAt, Objects
  <2>2. CASE objs' = [objs EXCEPT ![s].at = "registering"]
    <3>1. objs' = [objs EXCEPT ![s].at = "registering", ![s].peer = objs[s].peer]
      BY Zenon, <2>1, <2>2 DEF Objects, Inv, TypeOK
    <3> QED BY Zenon, <1>6, <1>10, <2>1, <3>1 DEF OnAccept, IsAt
  <2> QED BY Zenon, <1>4, <1>10, <2>1, <2>2 DEF OnAccept
<1>11. ASSUME NEW s \in Slots, RegisterSession(s) PROVE Inv'
  <2> USE DEF Inv, TypeOK
  <2> DEFINE p == objs[s].peer
  <2>1. objs[s] \in Objects /\ p \in Ids /\ ~objs[s].closed /\ ~Listed(s)
    BY Zenon, <1>5, <1>11 DEF RegisterSession, IsAt, Objects
  <2>2. CASE objs' = [objs EXCEPT ![s].at = "reading"] /\ sessions' = [sessions EXCEPT ![p] = s]
             /\ count' \in {count, count + 1}
    <3>1. objs'[s] = [objs[s] EXCEPT !.at = "reading"]
      BY Zenon, <2>2
    <3>2. objs'[s] \in Objects /\ objs'[s].at = "reading" /\ objs'[s].peer = p /\ ~objs'[s].closed
      BY Zenon, <2>1, <3>1 DEF Objects
    <3>3. objs' \in [Slots -> Objects \union {None}]
      BY Zenon, <2>2, <3>2
    <3>4. sessions' \in [Ids -> Slots \union {None}] /\ count' \in Int /\ closed' \in BOOLEAN /\ wrong' \in Nat
      BY <1>11, <2>1, <2>2 DEF RegisterSession
    <3>5. \A t \in Slots : t # s => objs'[t] = objs[t]
      BY Zenon, <2>2
    <3>6. \A q \in Ids : q # p => sessions'[q] = sessions[q] /\ sessions[q] # s
      BY Zenon, <2>1, <2>2 DEF Listed
    <3>7. sessions'[p] = s
      BY Zenon, <2>1, <2>2
    <3>8. EntriesAreOpen'
      <4> SUFFICES ASSUME NEW q \in Ids, sessions'[q] # None
                   PROVE  Open(sessions[q])' /\ objs'[sessions'[q]].peer = q
        BY DEF EntriesAreOpen
      <4>1. CASE q = p
        BY <3>2, <3>7, <4>1 DEF Open, IsAt
      <4>2. CASE q # p
        <5>1. sessions'[q] = sessions[q] /\ objs'[sessions[q]] = objs[sessions[q]]
          BY Zenon, <3>5, <3>6, <4>2
        <5> QED BY Zenon, <5>1 DEF EntriesAreOpen, Open, IsAt
      <4> QED BY Zenon, <4>1, <4>2
    <3>9. FreshAreOpen'
      BY Zenon, <3>2, <3>5 DEF FreshAreOpen
    <3> QED BY Zenon, <3>3, <3>4, <3>8, <3>9
  <2> QED BY Zenon, <1>4, <1>11, <2>1, <2>2 DEF RegisterSession
<1>12. ASSUME NEW s \in Slots, OnReadClosed(s) PROVE Inv'
  <2> USE DEF Inv, TypeOK
  <2>1. CASE Listed(s)
    <3>1. objs[s] \in Objects /\ ~objs[s].closed
      BY Zenon, <2>1, ListedFacts
    <3>2. objs'[s] = [objs[s] EXCEPT !.at = "ended"] /\ \A t \in Slots : t # s => objs'[t] = objs[t]
      BY Zenon, <1>12, <2>1 DEF OnReadClosed
    <3>3. objs'[s] \in Objects /\ objs'[s].at = "ended" /\ ~objs'[s].closed /\ objs'[s].peer = objs[s].peer
      BY Zenon, <3>1, <3>2 DEF Objects
    <3>4. TypeOK'
      BY Zenon, <1>12, <2>1, <3>3 DEF OnReadClosed
    <3>5. EntriesAreOpen'
      <4> SUFFICES ASSUME NEW q \in Ids, sessions'[q] # None
                   PROVE  Open(sessions[q])' /\ objs'[sessions'[q]].peer = q
        BY DEF EntriesAreOpen
      <4>1. sessions'[q] = sessions[q] /\ sessions[q] \in Slots
        BY Zenon, <1>12 DEF OnReadClosed
      <4>2. CASE sessions[q] = s
        BY Zenon, <3>1, <3>3, <4>1, <4>2 DEF Open, IsAt, EntriesAreOpen
      <4>3. CASE sessions[q] # s
        <5>1. objs'[sessions[q]] = objs[sessions[q]]
          BY Zenon, <3>2, <4>1, <4>3
        <5>2. Open(sessions[q]) /\ objs[sessions[q]].peer = q
          BY Zenon, <4>1 DEF EntriesAreOpen
        <5> QED BY <4>1, <5>1, <5>2 DEF Open, IsAt
      <4> QED BY Zenon, <4>2, <4>3
    <3>6. FreshAreOpen'
      BY Zenon, <3>2, <3>3 DEF FreshAreOpen
    <3> QED BY Zenon, <3>4, <3>5, <3>6
  <2> QED BY Zenon, <1>4, <1>12, <2>1 DEF OnReadClosed
<1>13. ASSUME NEW s \in Slots, Destroyed(s) PROVE Inv'
  BY Zenon, <1>4, <1>13 DEF Destroyed
<1>14. ASSUME NEW s \in Slots, HandleError(s) PROVE Inv'
  <2> USE DEF Inv, TypeOK
  <2> DEFINE p == objs[s].peer
  <2>1. objs[s] \in Objects /\ p \in Ids
    BY Zenon, <1>14 DEF HandleError, IsAt, Objects
  <2>2. objs' = [objs EXCEPT ![s] = None] /\ closed' = closed
    BY Zenon, <1>14 DEF HandleError, Gone
  <2>3. \/ sessions' = sessions /\ count' = count /\ (objs[s].closed \/ sessions[p] = None)
        \/ sessions' = [sessions EXCEPT ![p] = None] /\ count' \in {count, count - 1}
    BY Zenon, <1>14 DEF HandleError, UnregisterSession
  <2>4. wrong' \in Nat
    BY <1>14 DEF HandleError
  <2>5. TypeOK'
    BY <2>1, <2>2, <2>3, <2>4
  <2>6. \A q \in Ids : sessions'[q] # None => sessions'[q] = sessions[q] /\ sessions[q] # s
    BY SMTT(30), <2>1, <2>3 DEF EntriesAreOpen, Open
  <2>7. EntriesAreOpen'
    BY <2>2, <2>6 DEF EntriesAreOpen, Open, IsAt
  <2>8. FreshAreOpen'
    BY Zenon, <2>2 DEF FreshAreOpen
  <2> QED BY Zenon, <2>5, <2>7, <2>8
<1>15. ASSUME NEW p \in Ids, DisconnectSession(p) PROVE Inv'
  <2> USE DEF Inv, TypeOK
  <2> DEFINE s == sessions[p]
  <2>1. s \in Slots /\ objs[s] \in Objects /\ objs[s].at \in Registered /\ objs[s].peer = p
    BY <1>15 DEF DisconnectSession, EntriesAreOpen, Open, IsAt, Registered
  <2>2. objs'[s] = [objs[s] EXCEPT !.closed = TRUE] /\ (\A t \in Slots : t # s => objs'[t] = objs[t])
    BY Zenon, <1>15, <2>1 DEF DisconnectSession
  <2>3. objs'[s] \in Objects /\ objs'[s].at \in Registered
    BY Zenon, <2>1, <2>2 DEF Objects
  <2>4. TypeOK'
    BY Zenon, <1>15, <2>3 DEF DisconnectSession
  <2>5. \A q \in Ids : sessions'[q] # None => sessions'[q] = sessions[q] /\ sessions[q] # s
    BY Zenon, <1>15, <2>1 DEF DisconnectSession, EntriesAreOpen
  <2>6. EntriesAreOpen'
    BY <2>2, <2>5 DEF EntriesAreOpen, Open, IsAt
  <2>7. FreshAreOpen'
    BY Zenon, <2>2, <2>3 DEF FreshAreOpen
  <2> QED BY Zenon, <2>4, <2>6, <2>7
<1>16. CASE Stop
  <2> USE DEF Inv, TypeOK
  <2>1. ASSUME NEW s \in Slots
        PROVE  /\ objs'[s] \in Objects \union {None}
               /\ objs'[s] # None /\ objs'[s].at \notin Registered => ~objs'[s].closed
    <3>1. CASE Listed(s) /\ IsAt(s, {"reading"})
      <4>1. objs[s] \in Objects /\ objs[s].at \in Registered
        BY Zenon, <3>1, ListedFacts
      <4>2. objs'[s] = [objs[s] EXCEPT !.closed = TRUE]
        BY Zenon, <1>16, <3>1 DEF Stop
      <4> QED BY Zenon, <4>1, <4>2 DEF Objects
    <3>2. CASE ~(Listed(s) /\ IsAt(s, {"reading"}))
      BY Zenon, <1>16, <3>2 DEF Stop, FreshAreOpen
    <3> QED BY Zenon, <3>1, <3>2
  <2>2. TypeOK'
    BY Zenon, <1>16, <2>1 DEF Stop
  <2> QED BY Zenon, <1>16, <2>1, <2>2 DEF Stop, EntriesAreOpen, FreshAreOpen
<1> QED
  BY Zenon, <1>1, <1>2, <1>3, <1>7, <1>8, <1>9, <1>10, <1>11, <1>12, <1>13, <1>14, <1>15, <1>16 DEF Next

(* TypeOK and EntriesAreOpen hold of every reachable state: whoever takes a  *)
(* session out of sessions_ gets one that exists and is open.                *)
THEOREM EntriesStayOpen ==
  ASSUME SessionsAssumption
  PROVE  Spec => [](TypeOK /\ EntriesAreOpen)
<1>1. Init => Inv
  BY DEF Init, Inv, TypeOK, EntriesAreOpen, FreshAreOpen
<1> QED BY <1>1, InvInductive, PTL DEF Spec, Inv

-----------------------------------------------------------------------------
ServersAccept ==
  \A s \in Slots : IsAt(s, {"opening", "accepting"}) => objs[s].type = "SERVER"

CountInv == Inv /\ ServersAccept /\ CountCoversClients

(* Steps change a session without its type, except that a new one takes the  *)
(* place of one that is gone.                                                *)
LEMMA TypesAreKept ==
  ASSUME SessionsAssumption, Inv, [Next]_vars, NEW s \in Slots, objs'[s] # None
  PROVE  \/ /\ objs[s] \in Objects /\ objs'[s].type = objs[s].type
            /\ objs'[s].at \in {objs[s].at, "registering", "reading", "ended"}
               \/ objs[s].at = "opening"
         \/ objs[s] = None /\ objs'[s].at = "opening" /\ objs'[s].type = "SERVER"
         \/ objs[s] = None /\ objs'[s].at = "connecting"
<1> DEFINE Kept ==
      \/ /\ objs[s] \in Objects /\ objs'[s].type = objs[s].type
         /\ objs'[s].at \in {objs[s].at, "registering", "reading", "ended"}
            \/ objs[s].at = "opening"
      \/ objs[s] = None /\ objs'[s].at = "opening" /\ objs'[s].type = "SERVER"
      \/ objs[s] = None /\ objs'[s].at = "connecting"
<1> SUFFICES Kept
  OBVIOUS
<1> USE DEF SessionsAssumption, Inv, TypeOK
<1>1. CASE objs'[s] = objs[s]
  BY Zenon, <1>1
<1>2. ASSUME NEW t \in Slots, ConnectToServer(t) \/ Accept(t) PROVE Kept
  BY <1>1, <1>2 DEF ConnectToServer, Accept, Opened
<1>3. ASSUME NEW t \in Slots, Gone(t) PROVE Kept
  BY Zenon, <1>1, <1>3 DEF Gone
<1>4. ASSUME NEW t \in Slots, NEW p \in Ids, ReadRequest(t, p) PROVE Kept
  BY <1>1, <1>4 DEF ReadRequest, IsAt, Objects
<1>5. ASSUME NEW t \in Slots, NEW p \in Ids, Handshake(t, p), ~Gone(t) PROVE Kept
  BY <1>1, <1>5 DEF Handshake, IsAt, Objects
<1>6. ASSUME NEW t \in Slots, NEW at \in {"registering", "reading", "ended"}, objs[t] \in Objects,
             objs' = [objs EXCEPT ![t].at = at]
      PROVE  Kept
  BY <1>1, <1>6 DEF Objects
<1>7. ASSUME NEW t \in Slots, OnAccept(t) \/ RegisterSession(t) \/ OnReadClosed(t) PROVE Kept
  BY Zenon, <1>3, <1>6, <1>7 DEF OnAccept, RegisterSession, OnReadClosed, IsAt
<1>8. ASSUME objs[s] \in Objects, objs'[s] = [objs[s] EXCEPT !.closed = TRUE] PROVE Kept
  BY Zenon, <1>8 DEF Objects
<1>9. ASSUME NEW p \in Ids, DisconnectSession(p) PROVE Kept
  <2>1. sessions[p] \in Slots /\ objs[sessions[p]] \in Objects
    BY <1>9 DEF DisconnectSession, EntriesAreOpen, Open, IsAt
  <2> QED BY Zenon, <1>1, <1>8, <1>9, <2>1 DEF DisconnectSession
<1>10. CASE Stop
  BY Zenon, <1>1, <1>8, <1>10, ListedFacts DEF Stop
<1>11. CASE StartServer \/ UNCHANGED vars
  BY Zenon, <1>1, <1>11 DEF StartServer, vars
<1>12. ASSUME NEW t \in Slots, BadHeaders(t) \/ Destroyed(t) \/ HandleError(t) PROVE Kept
  BY Zenon, <1>3, <1>12 DEF BadHeaders, Destroyed, HandleError
<1> HIDE DEF Kept
<1> QED BY Zenon, <1>2, <1>3, <1>4, <1>5, <1>7, <1>9, <1>10, <1>11, <1>12 DEF Next

(* Only the sessions of servers accept.                                      *)
LEMMA ServersAcceptInductive ==
  ASSUME SessionsAssumption
  PROVE  Inv /\ ServersAccept /\ [Next]_vars => ServersAccept'
<1> SUFFICES ASSUME Inv, ServersAccept, [Next]_vars, NEW s \in Slots, IsAt(s, {"opening", "accepting"})'
             PROVE  objs'[s].type = "SERVER"
  BY Zenon DEF ServersAccept
<1> QED BY TypesAreKept DEF IsAt, ServersAccept, SessionsAssumption

(* There are finitely many session objects.                                  *)
LEMMA OpenClientsFinite ==
  ASSUME SessionsAssumption
  PROVE  /\ IsFiniteSet(OpenClients) /\ Cardinality(OpenClients) \in Nat
         /\ IsFiniteSet(OpenClients') /\ Cardinality(OpenClients') \in Nat
<1>1. OpenClients \subseteq Slots /\ OpenClients' \subseteq Slots
  BY Zenon DEF OpenClients
<1> QED BY Zenon, <1>1, FS_Subset, FS_CardinalityType DEF SessionsAssumption

(* The counter rises with the set of open client sessions; when it falls,    *)
(* one of them is gone, or a connect failed.                                 *)
LEMMA CountInductive ==
  ASSUME SessionsAssumption
  PROVE  Inv /\ ServersAccept /\ CountCoversClients /\ [Next]_vars => CountCoversClients'
<1> SUFFICES ASSUME Inv, ServersAccept, CountCoversClients, [Next]_vars PROVE CountCoversClients'
  OBVIOUS
<1> USE DEF SessionsAssumption, Inv, TypeOK
<1>1. ASSUME OpenClients' \subseteq OpenClients, count' + wrong' = count + wrong PROVE CountCoversClients'
  <2>1. Cardinality(OpenClients') <= Cardinality(OpenClients)
    BY Zenon, <1>1, OpenClientsFinite, FS_Subset
  <2> QED BY <1>1, <2>1, OpenClientsFinite DEF CountCoversClients
<1>2. ASSUME NEW s \in Slots, ~Open(s)', UNCHANGED <<count, wrong>>,
             \A t \in Slots : t # s => objs'[t] = objs[t]
      PROVE  CountCoversClients'
  <2>1. OpenClients' \subseteq OpenClients
    BY Zenon, <1>2 DEF OpenClients, Open, IsAt
  <2> QED BY Zenon, <1>1, <1>2, <2>1
<1>3. ASSUME NEW s \in Slots, ConnectToServer(s) \/ Accept(s) PROVE CountCoversClients'
  <2>1. ~Open(s)' /\ (\A t \in Slots : t # s => objs'[t] = objs[t])
    BY <1>3 DEF ConnectToServer, Accept, Opened, Open, IsAt
  <2> QED BY Zenon, <1>2, <1>3, <2>1 DEF ConnectToServer, Accept
<1>4. ASSUME NEW s \in Slots, Gone(s), UNCHANGED <<count, wrong>> PROVE CountCoversClients'
  BY Zenon, <1>2, <1>4 DEF Gone, Open, IsAt
<1>5. ASSUME NEW s \in Slots, NEW p \in Ids, ReadRequest(s, p) \/ Handshake(s, p) PROVE CountCoversClients'
  <2>1. CASE Gone(s)
    BY Zenon, <1>4, <1>5, <2>1 DEF ReadRequest, Handshake
  <2>2. CASE ~Gone(s)
    <3>1. ~Open(s)' /\ (\A t \in Slots : t # s => objs'[t] = objs[t])
      BY <1>5, <2>2 DEF ReadRequest, Handshake, Open, IsAt, Objects
    <3> QED BY Zenon, <1>2, <1>5, <3>1 DEF ReadRequest, Handshake
  <2> QED BY Zenon, <2>1, <2>2
<1>6. ASSUME NEW s \in Slots, OnAccept(s) PROVE CountCoversClients'
  <2>1. CASE Gone(s)
    BY Zenon, <1>4, <1>6, <2>1 DEF OnAccept
  <2>2. CASE ~Gone(s)
    <3>1. ~Open(s)' /\ (\A t \in Slots : t # s => objs'[t] = objs[t])
      BY <1>6, <2>2 DEF OnAccept, Open, IsAt, Objects
    <3> QED BY Zenon, <1>2, <1>6, <3>1 DEF OnAccept
  <2> QED BY Zenon, <2>1, <2>2
<1>7. ASSUME NEW s \in Slots, RegisterSession(s) PROVE CountCoversClients'
  <2>1. objs[s] \in Objects
    BY Zenon, <1>7 DEF RegisterSession, IsAt
  <2>2. CASE objs' = [objs EXCEPT ![s].at = "reading"]
             /\ count' = IF objs[s].type = "CLIENT" THEN count + 1 ELSE count
    <3>1. objs'[s].type = objs[s].type /\ (\A t \in Slots : t # s => objs'[t] = objs[t])
      BY Zenon, <2>1, <2>2 DEF Objects
    <3>2. CASE objs[s].type = "CLIENT"
      <4>1. OpenClients' \subseteq OpenClients \union {s}
        BY Zenon, <3>1 DEF OpenClients, Open, IsAt
      <4>2. IsFiniteSet(OpenClients \union {s})
            /\ Cardinality(OpenClients \union {s}) \in {Cardinality(OpenClients), Cardinality(OpenClients) + 1}
        BY Zenon, OpenClientsFinite, FS_AddElement
      <4>3. Cardinality(OpenClients') <= Cardinality(OpenClients \union {s})
        BY Zenon, <4>1, <4>2, FS_Subset
      <4>4. count' = count + 1 /\ wrong' = wrong
        BY Zenon, <1>7, <2>2, <3>2 DEF RegisterSession
      <4> QED BY <4>2, <4>3, <4>4, OpenClientsFinite DEF CountCoversClients
    <3>3. CASE objs[s].type # "CLIENT"
      <4>1. OpenClients' \subseteq OpenClients
        BY Zenon, <3>1, <3>3 DEF OpenClients, Open, IsAt
      <4> QED BY Zenon, <1>1, <1>7, <2>2, <3>3, <4>1 DEF RegisterSession
    <3> QED BY Zenon, <3>2, <3>3
  <2> QED BY Zenon, <1>4, <1>7, <2>2 DEF RegisterSession
<1>8. ASSUME NEW s \in Slots, OnReadClosed(s) PROVE CountCoversClients'
  <2>1. CASE Listed(s)
    <3>1. objs[s] \in Objects /\ ~objs[s].closed /\ objs[s].at \in Registered
      BY Zenon, <2>1, ListedFacts
    <3>2. objs'[s].type = objs[s].type /\ (\A t \in Slots : t # s => objs'[t] = objs[t])
      BY ZenonT(40), <1>8, <2>1, <3>1 DEF OnReadClosed, Objects
    <3>3. OpenClients' \subseteq OpenClients
      BY Zenon, <3>1, <3>2 DEF OpenClients, Open, IsAt, Registered
    <3> QED BY Zenon, <1>1, <1>8, <3>3 DEF OnReadClosed
  <2> QED BY Zenon, <1>4, <1>8, <2>1 DEF OnReadClosed
<1>9. ASSUME NEW s \in Slots, BadHeaders(s) \/ Destroyed(s) PROVE CountCoversClients'
  BY Zenon, <1>4, <1>9 DEF BadHeaders, Destroyed
<1>10. ASSUME NEW s \in Slots, HandleError(s) PROVE CountCoversClients'
  <2>1. objs[s] \in Objects /\ objs' = [objs EXCEPT ![s] = None]
        /\ IsAt(s, {"connecting", "opening", "accepting", "reading", "ended"})
    BY Zenon, <1>10 DEF HandleError, Gone, IsAt
  <2>2. OpenClients' = OpenClients \ {s}
    BY Zenon, <2>1 DEF OpenClients, Open, IsAt
  <2>3. Cardinality(OpenClients') <= Cardinality(OpenClients)
    BY Zenon, <2>2, OpenClientsFinite, FS_Subset
  <2>4. wrong' \in {wrong, wrong + 1}
    BY Zenon, <1>10 DEF HandleError
  <2>5. CASE count' = count
    BY <2>3, <2>4, <2>5, OpenClientsFinite DEF CountCoversClients
  <2>6. CASE count' # count
    <3>1. count' = count - 1 /\ ~objs[s].closed /\ objs[s].type = "CLIENT" /\ sessions[objs[s].peer] # None
      BY Zenon, <1>10, <2>6 DEF HandleError, UnregisterSession
    <3>2. CASE objs[s].at = "connecting"
      <4>1. wrong' = wrong + 1
        BY Zenon, <1>10, <3>1, <3>2 DEF HandleError
      <4> QED BY <2>3, <3>1, <4>1, OpenClientsFinite DEF CountCoversClients
    <3>3. CASE objs[s].at # "connecting"
      <4>1. ~IsAt(s, {"opening", "accepting"})
        BY Zenon, <2>1, <3>1 DEF ServersAccept
      <4>2. objs[s].at \in {"reading", "ended"}
        BY Zenon, <2>1, <3>3, <4>1 DEF IsAt
      <4>3. s \in OpenClients
        BY Zenon, <2>1, <3>1, <4>2 DEF OpenClients, Open, IsAt
      <4>4. Cardinality(OpenClients') = Cardinality(OpenClients) - 1
        BY <2>2, <4>3, OpenClientsFinite, FS_RemoveElement
      <4> QED BY <2>4, <3>1, <4>4, OpenClientsFinite DEF CountCoversClients
    <3> QED BY Zenon, <3>2, <3>3
  <2> QED BY Zenon, <2>5, <2>6
<1>11. ASSUME \A t \in Slots :
                objs'[t] = objs[t] \/ (objs[t] \in Objects /\ objs'[t] = [objs[t] EXCEPT !.closed = TRUE]),
              UNCHANGED <<count, wrong>>
       PROVE  CountCoversClients'
  <2>1. OpenClients' \subseteq OpenClients
    BY ZenonT(30), <1>11 DEF OpenClients, Open, IsAt, Objects
  <2> QED BY Zenon, <1>1, <1>11, <2>1
<1>12. ASSUME NEW p \in Ids, DisconnectSession(p) PROVE CountCoversClients'
  <2>1. sessions[p] \in Slots /\ objs[sessions[p]] \in Objects
    BY <1>12 DEF DisconnectSession, EntriesAreOpen, Open, IsAt
  <2> QED BY Zenon, <1>11, <1>12, <2>1 DEF DisconnectSession
<1>13. CASE Stop
  <2>1. ASSUME NEW t \in Slots
        PROVE  objs'[t] = objs[t] \/ (objs[t] \in Objects /\ objs'[t] = [objs[t] EXCEPT !.closed = TRUE])
    BY Zenon, <1>13, ListedFacts DEF Stop
  <2> QED BY Zenon, <1>11, <1>13, <2>1 DEF Stop
<1>14. CASE StartServer \/ UNCHANGED vars
  BY Zenon, <1>11, <1>14 DEF StartServer, vars
<1> QED
  BY Zenon, <1>3, <1>5, <1>6, <1>7, <1>8, <1>9, <1>10, <1>12, <1>13, <1>14 DEF Next

(* The limit of connectToServer is compared with a number that falls behind  *)
(* the open client sessions only by the connects that failed while the map   *)
(* had a session without a valid id.                                         *)
THEOREM CounterCoversClients ==
  ASSUME SessionsAssumption
  PROVE  Spec => []CountCoversClients
<1>1. Init => CountInv
  <2>1. ASSUME Init PROVE OpenClients = {}
    BY Zenon, <2>1 DEF Init, OpenClients, Open, IsAt
  <2>2. Init => CountCoversClients
    BY <2>1, FS_EmptySet DEF Init, CountCoversClients
  <2> QED BY <2>2 DEF Init, CountInv, Inv, TypeOK, EntriesAreOpen, FreshAreOpen, ServersAccept, IsAt
<1>2. CountInv /\ [Next]_vars => CountInv'
  BY Zenon, InvInductive, ServersAcceptInductive, CountInductive DEF CountInv
<1> QED BY <1>1, <1>2, PTL DEF Spec, CountInv

-----------------------------------------------------------------------------
(* HTTP sessions. *)

\* Nothing happens before start, and a write is pending only for the response
\* at the front of the queue.
PendingInv ==
  /\ conn = "new" => reads = 0 /\ items = <<>>
  /\ writes > 0 => items # <<>>
  /\ flushed => writes > 0

\* Responses that have left the queue: the client has all of them, and the one
\* at the front as well if its write is done.
Delivered == IF flushed THEN Len(answered) - 1 ELSE Len(answered)

\* While the connection is open the queue holds, in order, the responses of
\* the requests handled that have not left it.
QueueInv ==
  conn \in {"new", "open"} =>
    /\ handled = Delivered + Len(items)
    /\ \A k \in 1..Len(items) : items[k] = Delivered + k

HttpInv == HttpTypeOK /\ OneOfEach /\ PendingInv /\ QueueInv /\ AnsweredInOrder

USE DEF HttpAssumption

\* What Append does to a sequence of requests.
(* A request joins the queue of responses.                                   *)
LEMMA AppendFacts ==
  ASSUME HttpAssumption, NEW s \in Seq(1..MaxRequests), NEW e \in 1..MaxRequests
  PROVE  /\ Append(s, e) \in Seq(1..MaxRequests)
         /\ Len(Append(s, e)) = Len(s) + 1
         /\ Append(s, e) # <<>>
         /\ \A k \in 1..Len(s) : Append(s, e)[k] = s[k]
         /\ Append(s, e)[Len(s) + 1] = e
  BY SMTT(30)

\* What removing the front of the queue does.
(* The first response leaves it.                                             *)
LEMMA TailFacts ==
  ASSUME HttpAssumption, NEW s \in Seq(1..MaxRequests), s # <<>>
  PROVE  /\ Len(s) \in Nat \ {0}
         /\ Head(s) = s[1] /\ Head(s) \in 1..MaxRequests
         /\ Tail(s) \in Seq(1..MaxRequests)
         /\ Len(Tail(s)) = Len(s) - 1
         /\ \A k \in 1..Len(Tail(s)) : Tail(s)[k] = s[k + 1]
  OBVIOUS

\* A new connection: nothing pending, nothing queued.
(* A new HTTP session.                                                       *)
LEMMA HttpInitially ==
  ASSUME HttpAssumption
  PROVE  HttpInit => HttpInv
<1> SUFFICES ASSUME HttpInit PROVE HttpInv
  OBVIOUS
<1>1. items = <<>> /\ Len(items) = 0 /\ Len(answered) = 0
  BY Zenon DEF HttpInit
<1>2. HttpTypeOK
  <2>1. items \in Seq(1..MaxRequests) /\ answered \in Seq(1..MaxRequests)
    BY DEF HttpInit
  <2>2. sent \in 0..MaxRequests /\ handled \in 0..sent /\ reads \in Nat /\ writes \in Nat
    BY DEF HttpInit
  <2>3. ended \in BOOLEAN /\ flushed \in BOOLEAN
    BY Zenon DEF HttpInit
  <2> QED BY Zenon, <2>1, <2>2, <2>3 DEF HttpInit, HttpTypeOK
<1>3. OneOfEach /\ PendingInv
  BY <1>1 DEF HttpInit, OneOfEach, PendingInv
<1>4. QueueInv /\ AnsweredInOrder
  BY SMTT(30), <1>1 DEF HttpInit, QueueInv, Delivered, AnsweredInOrder
<1> QED BY Zenon, <1>2, <1>3, <1>4 DEF HttpInv

\* Every step preserves the invariant: OnRead and QueueOnWrite are the two
\* places that start an operation.
(* Every handler of the HTTP session keeps the invariant.                    *)
LEMMA HttpStep ==
  ASSUME HttpAssumption
  PROVE  HttpInv /\ [HttpNext]_httpVars => HttpInv'
<1> SUFFICES ASSUME HttpInv, [HttpNext]_httpVars PROVE HttpInv'
  OBVIOUS
<1> USE DEF HttpInv, OneOfEach, PendingInv
<1>0. HttpTypeOK /\ Len(items) \in Nat /\ Len(answered) \in Nat
  BY DEF HttpTypeOK
<1>1. CASE Send
  BY <1>0, <1>1 DEF Send, HttpTypeOK, QueueInv, Delivered, AnsweredInOrder
<1>2. CASE HalfClose
  BY Zenon, <1>0, <1>2 DEF HalfClose, HttpTypeOK, QueueInv, Delivered, AnsweredInOrder
<1>3. CASE Break
  BY Zenon, <1>0, <1>3 DEF Break, client, HttpTypeOK, QueueInv, Delivered, AnsweredInOrder
<1>4. CASE AsyncWrite
  <2>1. items # <<>> /\ flushed' /\ ~flushed /\ conn = "open"
    BY Zenon, <1>4 DEF AsyncWrite
  <2>2. Head(items) = items[1] /\ Head(items) \in 1..MaxRequests /\ 1 \in 1..Len(items)
    BY <2>1, <1>0, TailFacts DEF HttpTypeOK
  <2>3. Head(items) = Len(answered) + 1
    BY Zenon, <2>1, <2>2, <1>0 DEF QueueInv, Delivered
  <2>4. /\ answered' \in Seq(1..MaxRequests)
        /\ Len(answered') = Len(answered) + 1
        /\ \A k \in 1..Len(answered) : answered'[k] = answered[k]
        /\ answered'[Len(answered) + 1] = Head(items)
    BY <1>4, <2>2, <1>0, AppendFacts DEF AsyncWrite, HttpTypeOK
  <2>5. AnsweredInOrder'
    BY SMTT(30), <2>3, <2>4, <1>0 DEF AnsweredInOrder
  <2>6. Delivered' = Delivered
    BY <2>1, <2>4, <1>0 DEF Delivered
  <2>7. QueueInv'
    BY Zenon, <1>4, <2>6 DEF AsyncWrite, QueueInv
  <2>8. HttpTypeOK'
    BY SMTT(30), <1>4, <2>4, <1>0 DEF AsyncWrite, client, HttpTypeOK
  <2> QED BY Zenon, <1>4, <2>5, <2>7, <2>8 DEF AsyncWrite
<1>5. CASE Start
  <2>1. Len(items) = 0 /\ reads = 0
    BY Zenon, <1>5 DEF Start
  <2> QED BY <1>0, <1>5, <2>1 DEF Start, client, HttpTypeOK, QueueInv, Delivered, AnsweredInOrder
<1>6. CASE OnRead
  <2>1. /\ items' \in Seq(1..MaxRequests)
        /\ Len(items') = Len(items) + 1
        /\ items' # <<>>
        /\ \A k \in 1..Len(items) : items'[k] = items[k]
        /\ items'[Len(items) + 1] = handled + 1
    BY SMTT(30), <1>6, <1>0, AppendFacts DEF OnRead, HttpTypeOK
  <2>2. HttpTypeOK'
    BY SMTT(30), <1>6, <1>0, <2>1 DEF OnRead, client, HttpTypeOK
  <2>3. Len(items) < Limit /\ reads = 1
    BY <1>6, <1>0 DEF OnRead, HttpTypeOK
  <2>4. OneOfEach' /\ PendingInv'
    BY SMTT(30), <1>6, <1>0, <2>1, <2>3 DEF OnRead, client, HttpTypeOK, Full
  <2>5. Delivered' = Delivered
    BY Zenon, <1>6 DEF OnRead, Delivered
  <2>6. QueueInv'
    <3> SUFFICES ASSUME conn' \in {"new", "open"}
                 PROVE  /\ handled' = Delivered + Len(items')
                        /\ \A k \in 1..Len(items') : items'[k] = Delivered + k
      BY Zenon, <2>5 DEF QueueInv
    <3>1. /\ handled = Delivered + Len(items)
          /\ \A k \in 1..Len(items) : items[k] = Delivered + k
      BY Zenon, <1>6 DEF OnRead, QueueInv
    <3>2. Delivered \in Int /\ handled \in Int /\ handled' = handled + 1
      BY <1>6, <1>0 DEF OnRead, Delivered, HttpTypeOK
    <3>3. ASSUME NEW k \in 1..Len(items') PROVE items'[k] = Delivered + k
      <4>1. CASE k \in 1..Len(items)
        BY Zenon, <4>1, <2>1, <3>1
      <4>2. CASE k = Len(items) + 1
        BY SMTT(30), <4>2, <2>1, <3>1, <3>2, <1>0
      <4> QED BY <4>1, <4>2, <2>1, <1>0
    <3> QED BY <3>1, <3>2, <3>3, <2>1, <1>0
  <2> QED BY Zenon, <1>6, <2>2, <2>4, <2>6 DEF OnRead, AnsweredInOrder
<1>7. CASE OnReadEnd
  BY SMTT(30), <1>0, <1>7 DEF OnReadEnd, client, HttpTypeOK, QueueInv, AnsweredInOrder
<1>8. CASE OnReadError
  BY <1>0, <1>8 DEF OnReadError, client, HttpTypeOK, QueueInv, AnsweredInOrder
<1>9. CASE OnWrite
  <2>1. /\ items # <<>> /\ flushed /\ flushed' = FALSE /\ writes = 1
        /\ UNCHANGED <<sent, ended, handled, answered>>
    BY <1>9, <1>0 DEF OnWrite, client, HttpTypeOK
  <2>2. CASE Head(items) \in Closing
    <3>1. /\ conn' \in {"shut", "broken"}
          /\ writes' = 0
          /\ UNCHANGED <<items, reads>>
      BY <1>0, <1>9, <2>1, <2>2 DEF OnWrite, HttpTypeOK
    <3>2. HttpTypeOK'
      BY Zenon, <1>0, <2>1, <3>1 DEF HttpTypeOK
    <3>3. OneOfEach' /\ PendingInv'
      BY <2>1, <3>1
    <3>4. QueueInv' /\ AnsweredInOrder'
      BY Zenon, <2>1, <3>1 DEF QueueInv, AnsweredInOrder
    <3> QED BY Zenon, <3>2, <3>3, <3>4
  <2>3. CASE Head(items) \notin Closing
    <3>1. QueueOnWrite /\ UNCHANGED conn
      BY Zenon, <1>9, <2>3 DEF OnWrite
    <3>2. /\ items' \in Seq(1..MaxRequests)
          /\ Len(items') = Len(items) - 1
          /\ \A k \in 1..Len(items') : items'[k] = items[k + 1]
      BY SMTT(30), <3>1, <2>1, <1>0, TailFacts DEF QueueOnWrite, HttpTypeOK
    <3>4. reads \in {0, 1} /\ (Len(items) = Limit => reads = 0)
      BY <1>0 DEF HttpTypeOK
    <3>5. reads' \in {0, 1} /\ (Len(items) # Limit => reads' = reads)
      BY SMTT(30), <3>1, <3>4, <1>0 DEF QueueOnWrite, Full
    <3>6. writes' \in {0, 1}
      BY <3>1, <2>1 DEF QueueOnWrite
    <3>7. OneOfEach'
      BY <3>2, <3>5, <3>6, <1>0
    <3>8. conn # "new"
      BY Zenon, <2>1
    <3>9. PendingInv'
      BY SMTT(30), <3>1, <3>8, <2>1 DEF QueueOnWrite
    <3>10. HttpTypeOK'
      <4>1. flushed' \in BOOLEAN
        BY <2>1, Zenon
      <4>2. reads' \in Nat /\ writes' \in Nat
        BY <3>5, <3>6
      <4> QED BY SMTT(30), <3>1, <3>2, <4>1, <4>2, <2>1, <1>0 DEF HttpTypeOK
    <3>11. Delivered' = Delivered + 1
      BY <2>1, <1>0 DEF Delivered
    <3>12. Delivered \in Int
      BY SMTT(30), <1>0 DEF Delivered
    <3>13. QueueInv'
      BY SMTT(30), <3>1, <3>2, <3>11, <3>12, <2>1, <1>0 DEF QueueInv
    <3>14. AnsweredInOrder'
      BY Zenon, <2>1 DEF AnsweredInOrder
    <3> QED BY <3>7, <3>9, <3>10, <3>13, <3>14
  <2> QED BY Zenon, <2>2, <2>3
<1>10. CASE OnWriteError
  BY <1>0, <1>10 DEF OnWriteError, client, HttpTypeOK, QueueInv, AnsweredInOrder
<1>11. CASE UNCHANGED httpVars
  BY Zenon, <1>0, <1>11 DEF httpVars, HttpTypeOK, QueueInv, Delivered, AnsweredInOrder
<1> QED
  BY SMTT(30), <1>1, <1>2, <1>3, <1>4, <1>5, <1>6, <1>7, <1>8, <1>9, <1>10, <1>11 DEF HttpNext

\* HTTPSession never has two reads or two writes pending and HTTPQueue never
\* exceeds its limit, for every limit.
THEOREM OneOperationOfEach ==
  ASSUME HttpAssumption
  PROVE  HttpSpec => []OneOfEach
<1>1. HttpInv => OneOfEach
  BY DEF HttpInv
<1> QED BY HttpInitially, HttpStep, <1>1, PTL DEF HttpSpec

\* Responses reach the client in the order of its requests, for every limit and
\* every number of requests.
THEOREM ResponsesInOrder ==
  ASSUME HttpAssumption
  PROVE  HttpSpec => []AnsweredInOrder
<1>1. HttpInv => AnsweredInOrder
  BY Zenon DEF HttpInv
<1> QED BY HttpInitially, HttpStep, <1>1, PTL DEF HttpSpec

=============================================================================
