----------------------------- MODULE Shutdown -----------------------------
(* How a node as a whole goes down and comes back.  Nothing is written while *)
(* it runs: the destructors write, in the reverse order of the members of    *)
(* Blockchain, first the accounts (State), then the list of contracts        *)
(* (ContractManager), then what the contracts hold, then the chain (module   *)
(* Storage, in four writes).                                                 *)
EXTENDS Storage

CONSTANTS
  Uses,        \* block -> number of transactions of the account we look at
  FirstNonce   \* block -> nonce of the first of them

ASSUME ShutdownAssumption ==
  /\ Uses \in [Blocks -> Nat] /\ FirstNonce \in [Blocks -> Nat]
  /\ Uses[Genesis] = 0 /\ FirstNonce[Genesis] = 0
  /\ \A b \in Blocks \ {Genesis} :
       Prev[b] \in Blocks /\ FirstNonce[b] = FirstNonce[Prev[b]] + Uses[Prev[b]]

VARIABLES
  stage,    \* "on", or the part whose destructor comes next
  applied,  \* applied[p]: the blocks whose effect part p holds, and the nonce they lead to
  stored,   \* stored[p]: the same in the database
  torn      \* whether the process has died between two of the writes

parts == <<stage, applied, stored, torn>>
nodeVars == <<vars, parts>>

Parts == {"accounts", "contracts", "contractData"}

(* The order of destruction, and a variant of it. *)
SaveChainFirst == <<"chain", "accounts", "contracts", "contractData">>
SaveOrder == <<"accounts", "contracts", "contractData", "chain">>
After(p) ==
  LET i == CHOOSE k \in DOMAIN SaveOrder : SaveOrder[k] = p
  IN IF i < Len(SaveOrder) THEN SaveOrder[i + 1] ELSE "on"

NoEffect == [blocks |-> <<Genesis>>, nonce |-> 0]
WithBlock(part, b) == [blocks |-> Append(part.blocks, b), nonce |-> part.nonce + Uses[b]]

(* The nonce after a block and all those before it.                          *)
NonceAfter(b) == FirstNonce[b] + Uses[b]

NodeInit ==
  /\ Init
  /\ stage = "on" /\ torn = FALSE
  /\ applied = [p \in Parts |-> NoEffect]
  /\ stored = applied

(* The constructors: Storage, then each part loads its own data.  Variant:   *)
(* the parts do not.                                                         *)
LoadNothing == applied' = [p \in Parts |-> NoEffect]
LoadParts == applied' = stored

StartNode ==
  \/ (Start \/ PutGenesisHeight \/ PutGenesis) /\ stage = "on" /\ UNCHANGED parts
  \/ Load /\ LoadParts /\ UNCHANGED <<stage, stored, torn>>

(* State::processNextBlock: a block is taken when it extends the chain and   *)
(* the nonces of its transactions are those of the accounts.                 *)
ValidateNextBlock(b) == Uses[b] > 0 => FirstNonce[b] = applied["accounts"].nonce

ProcessNextBlock(b) ==
  /\ stage = "on" /\ ValidateNextBlock(b)
  /\ PushBack(b)
  /\ applied' = [p \in Parts |-> WithBlock(applied[p], b)]
  /\ UNCHANGED <<stage, stored, torn>>

Look(r) == stage = "on" /\ ReaderStep(r) /\ UNCHANGED parts

(* The servers have been stopped when the destructors run.                   *)
Stop ==
  /\ phase = "on" /\ stage = "on" /\ ReadersIdle
  /\ stage' = SaveOrder[1]
  /\ UNCHANGED <<vars, applied, stored, torn>>

(* The destructors of State, of ContractManager and of the contracts.        *)
SavePart(p) ==
  /\ stage = p /\ stage' = After(p)
  /\ stored' = [stored EXCEPT ![p] = applied[p]]
  /\ UNCHANGED <<vars, applied, torn>>

(* The destructor of Storage. *)
SaveChain ==
  /\ stage = "chain"
  /\ \/ (Close \/ SaveBlocks \/ SaveHeights \/ SaveTxs) /\ UNCHANGED stage
     \/ SaveLatest /\ stage' = After("chain")
  /\ UNCHANGED <<applied, stored, torn>>

(* Whether some destructor has written something.                            *)
Written == stage \notin {"on", SaveOrder[1]} \/ phase \in Closing \ {"blocks"}

CrashNode ==
  /\ phase \notin {"off", "failed"} \/ stage # "on"
  /\ Die
  /\ torn' = (torn \/ Written)
  /\ stage' = "on"
  /\ UNCHANGED <<applied, stored>>

NodeNext ==
  \/ StartNode
  \/ \E b \in Blocks : ProcessNextBlock(b)
  \/ \E r \in Readers : Look(r)
  \/ Stop
  \/ \E p \in Parts : SavePart(p)
  \/ SaveChain
  \/ CrashNode

NodeSpec == NodeInit /\ [][NodeNext]_nodeVars

-----------------------------------------------------------------------------
(* Refuted by TLC (README, Disagreements): state and contracts are at the    *)
(* block the chain ends with.                                                *)
StateAtCurrentBlock == phase = "on" => \A p \in Parts : applied[p].blocks = Log

(* They are, after any number of clean restarts and of crashes, as long as   *)
(* no crash fell between two writes of a shutdown.                           *)
UntornStateIsCurrent == ~torn => StateAtCurrentBlock

(* Even if one did, the accounts and contracts are never behind the chain: a *)
(* transaction of the chain is not executed a second time after a restart.   *)
StateNotBehindChain ==
  phase = "on" => \A p \in Parts : applied[p].nonce >= NonceAfter(Tip)

(* As long as no shutdown was torn, every height leads to the block of the   *)
(* chain at that height, and what a lookup returns is in the chain at the    *)
(* place it says, wherever (chain, cache, database) it was found.            *)
UntornLookupsAreExact == ~torn => HeightsIndexChain /\ AnswersAreFromChain

=============================================================================
