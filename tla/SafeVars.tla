----------------------------- MODULE SafeVars -----------------------------
(* The variables of a dynamic contract (SafeBase and its children): scalars  *)
(* and one SafeUnorderedMap, over several calls of the contract.  Next to    *)
(* them runs TxVars, the reference, in which each entry of the map is a      *)
(* variable of its own.                                                      *)
EXTENDS Naturals, FiniteSets

CONSTANTS
  Scalars,       \* the scalar variables of the contract
  Keys,          \* the keys of its map
  Values,
  Default,       \* the value of a default-constructed object
  Null, Absent,  \* no object behind a pointer; no entry for a key
  TheMap,        \* the name of the map among the used variables
  Addresses,     \* the scalars that are SafeAddress
  InitialValue,  \* scalar -> the initial value its constructor is given
  MapOps         \* key -> the modifying operations of the map that calls use on it

ASSUME SafeVarsAssumption ==
  /\ Default \in Values /\ Null \notin Values /\ Absent \notin Values
  /\ Scalars \intersect Keys = {} /\ TheMap \notin Scalars
  /\ InitialValue \in [Scalars -> Values] /\ Addresses \subseteq Scalars

VARIABLES
  phase,              \* "idle", or "call" during DynamicContract::ethCall
  value, valuePtr,    \* of the scalars
  map, mapPtr,        \* of the map; a null mapPtr is one without entries
  erasedKeys,
  registered,         \* the variables whose flag registered is set
  usedVariables,      \* of the contract; the order is of no consequence
  committed, working  \* of TxVars

conc == <<phase, value, valuePtr, map, mapPtr, erasedKeys, registered, usedVariables>>
safeVars == <<conc, committed, working>>

Tx == INSTANCE TxVars WITH
  Names <- Scalars \union Keys,
  Initial <- [n \in Scalars \union Keys |-> IF n \in Scalars THEN InitialValue[n] ELSE Absent]

(* check(): what the pointer points to once it has been initialised.         *)
Peek(v) == IF valuePtr[v] = Null THEN value[v] ELSE valuePtr[v]

(* checkKeyAndCopy, checkKeyAndCreate, checkKeyAndThrow: the entry of a key. *)
Entry(k) ==
  IF mapPtr[k] # Absent THEN mapPtr[k] ELSE IF k \in erasedKeys THEN Absent ELSE map[k]

(* SafeBase::markAsUsed. *)
MarkAsUsed(v) ==
  IF v \in registered
    THEN UNCHANGED <<registered, usedVariables>>
    ELSE registered' = registered \union {v} /\ usedVariables' = usedVariables \union {v}

SafeVarsInit ==
  /\ phase = "idle"
  /\ value = [v \in Scalars |-> IF v \in Addresses THEN InitialValue[v] ELSE Default]
  /\ valuePtr = InitialValue
  /\ map = [k \in Keys |-> Absent] /\ mapPtr = map /\ erasedKeys = {}
  /\ registered = {} /\ usedVariables = {}
  /\ Tx!Init

Begin ==
  /\ phase = "idle" /\ phase' = "call"
  /\ UNCHANGED <<value, valuePtr, map, mapPtr, erasedKeys, registered, usedVariables, committed, working>>

-----------------------------------------------------------------------------
(* Scalars: operator=, and get, which a view function may call at any time.  *)
Assign(v, x) ==
  /\ phase = "call" /\ MarkAsUsed(v)
  /\ valuePtr' = [valuePtr EXCEPT ![v] = x]
  /\ Tx!Write(v, x)
  /\ UNCHANGED <<phase, value, map, mapPtr, erasedKeys>>

Get(v) ==
  /\ valuePtr' = [valuePtr EXCEPT ![v] = Peek(v)]
  /\ UNCHANGED <<phase, value, map, mapPtr, erasedKeys, registered, usedVariables, committed, working>>

-----------------------------------------------------------------------------
(* The map.  find, contains and count copy the entry.                        *)
Find(k) ==
  /\ mapPtr' = [mapPtr EXCEPT ![k] = Entry(k)]
  /\ UNCHANGED <<phase, value, valuePtr, map, erasedKeys, registered, usedVariables, committed, working>>

Modify(op, k) ==
  /\ phase = "call" /\ op \in MapOps[k] /\ MarkAsUsed(TheMap)
  /\ UNCHANGED <<phase, value, valuePtr, map>>

(* m[k] = x; an access without assignment is the case in which x is what m[k] *)
(* gives.                                                                    *)
Index(k, x) ==
  /\ Modify("index", k)
  /\ mapPtr' = [mapPtr EXCEPT ![k] = x] /\ UNCHANGED erasedKeys
  /\ Tx!Write(k, x)

(* at, and the non-const find, whose result is written through.              *)
At(k, x) ==
  /\ Entry(k) # Absent /\ Modify("at", k)
  /\ mapPtr' = [mapPtr EXCEPT ![k] = x] /\ UNCHANGED erasedKeys
  /\ Tx!Write(k, x)

InsertOrAssign(k, x) ==
  /\ Modify("insert_or_assign", k)
  /\ mapPtr' = [mapPtr EXCEPT ![k] = x] /\ UNCHANGED erasedKeys
  /\ Tx!Write(k, x)

(* insert and emplace look for the key in mapPtr only.                       *)
Insert(k, x) ==
  /\ Modify("insert", k)
  /\ mapPtr' = [mapPtr EXCEPT ![k] = IF mapPtr[k] = Absent THEN x ELSE mapPtr[k]]
  /\ UNCHANGED erasedKeys
  /\ Tx!Write(k, IF working[k] = Absent THEN x ELSE working[k])

Erase(k) ==
  /\ Modify("erase", k)
  /\ mapPtr' = [mapPtr EXCEPT ![k] = Absent]
  /\ erasedKeys' = erasedKeys \union {k}
  /\ Tx!Write(k, Absent)

-----------------------------------------------------------------------------
(* DynamicContract::updateState, the end of a call: commit() or revert() of  *)
(* every used variable.  Commit and revert of a SafeAddress leave registered *)
(* as it is; commit of the map leaves erasedKeys.                            *)
Unregister ==
  /\ registered' = registered \ (usedVariables \ Addresses)
  /\ usedVariables' = {}
  /\ phase = "call" /\ phase' = "idle"

(* Variant: the pointer of a used variable is kept.                          *)
KeepPointers == UNCHANGED valuePtr
NullifyUsed == valuePtr' = [v \in Scalars |-> IF v \in usedVariables THEN Null ELSE valuePtr[v]]

CommitValues == value' = [v \in Scalars |-> IF v \in usedVariables THEN Peek(v) ELSE value[v]]

(* Variant: only entries the map does not have yet are taken over (merge     *)
(* without the loop after it).                                               *)
MergeOnly ==
  /\ map' = [k \in Keys |-> IF k \in erasedKeys THEN Absent
                             ELSE IF map[k] # Absent THEN map[k] ELSE mapPtr[k]]
  /\ mapPtr' = [k \in Keys |-> Absent]
CommitMap ==
  /\ map' = [k \in Keys |-> IF k \in erasedKeys THEN Absent
                             ELSE IF mapPtr[k] # Absent THEN mapPtr[k] ELSE map[k]]
  /\ mapPtr' = [k \in Keys |-> Absent]

Commit ==
  /\ Unregister /\ NullifyUsed /\ CommitValues
  /\ IF TheMap \in usedVariables THEN CommitMap ELSE UNCHANGED <<map, mapPtr>>
  /\ UNCHANGED erasedKeys
  /\ Tx!Commit

(* Variant: the set of erased keys survives, as it does a commit.            *)
RevertEntries == mapPtr' = [k \in Keys |-> Absent] /\ UNCHANGED erasedKeys
RevertMap == mapPtr' = [k \in Keys |-> Absent] /\ erasedKeys' = {}

Revert ==
  /\ Unregister /\ NullifyUsed /\ UNCHANGED <<value, map>>
  /\ IF TheMap \in usedVariables THEN RevertMap ELSE UNCHANGED <<mapPtr, erasedKeys>>
  /\ Tx!Revert

SafeVarsNext ==
  \/ Begin \/ Commit \/ Revert
  \/ \E v \in Scalars : Get(v) \/ \E x \in Values : Assign(v, x)
  \/ \E k \in Keys : Find(k) \/ Erase(k)
  \/ \E k \in Keys, x \in Values : Index(k, x) \/ At(k, x) \/ InsertOrAssign(k, x) \/ Insert(k, x)

SafeVarsSpec == SafeVarsInit /\ [][SafeVarsNext]_safeVars

-----------------------------------------------------------------------------
(* The variables that are used as the contracts of the repository use all of *)
(* theirs: no SafeAddress, no initial value, neither insert nor erase.       *)
PlainScalars == {v \in Scalars \ Addresses : InitialValue[v] = Default}
PlainKeys == {k \in Keys : MapOps[k] \intersect {"insert", "erase"} = {}}

(* Reading such a variable at any moment, during a call, between calls or    *)
(* from a view function, gives what the reference gives: the call's own      *)
(* writes, otherwise what the last successful call left.  What is done to    *)
(* other variables, and to other keys of the same map, does not matter.      *)
ReadsAreTransactional ==
  /\ \A v \in PlainScalars : Peek(v) = working[v]
  /\ \A k \in PlainKeys : Entry(k) = working[k]

(* Iteration over the map (which its contract's destructor uses to save it)  *)
(* sees committed entries of such keys, all of them and no other, whatever   *)
(* calls and reads are under way.                                            *)
MapIsCommitted == \A k \in PlainKeys : map[k] = committed[k]

(* Whatever a call did to a plain scalar or to any key of the map, by        *)
(* insertions and erasures too, after its failure every read gives what had  *)
(* been committed before it.                                                 *)
RevertRestores ==
  [][Revert => /\ \A v \in PlainScalars : Peek(v)' = value[v]
               /\ \A k \in Keys : Entry(k)' = map[k]]_safeVars

(* A registered variable is in the list of its contract, without which it    *)
(* would be neither committed nor reverted.                                  *)
RegisteredIsUsed == registered \ Addresses = usedVariables \ Addresses
=============================================================================
