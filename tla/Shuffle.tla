------------------------------ MODULE Shuffle ------------------------------
(***************************************************************************)
(* RandomGen::shuffle, with which every node orders the validators of a    *)
(* round. Its lock is held from the first step to the last. Positions      *)
(* count from 0.                                                           *)
(***************************************************************************)
EXTENDS Integers

CONSTANTS
  N,          \* length of the vector
  Elements,   \* its elements, all different: rdPoS shuffles a copy of a set
  Seeds,      \* values of the seed as unsigned integers
  Sha3        \* Utils::sha3 on them

ShuffleAssumption ==
  /\ N \in Nat
  /\ Seeds \subseteq Nat
  /\ Sha3 \in [Seeds -> Seeds]

VARIABLES v, i, seed

shuffleVars == <<v, i, seed>>

\* Every element has one position.
IsOrder(w) ==
  /\ w \in [0..(N - 1) -> Elements]
  /\ \A e \in Elements : \E j \in 0..(N - 1) : w[j] = e
  /\ \A j, k \in 0..(N - 1) : w[j] = w[k] => j = k

ShuffleInit ==
  /\ v \in [0..(N - 1) -> Elements] /\ IsOrder(v)
  /\ i = 0
  /\ seed \in Seeds

Swap(w, n, m) == [w EXCEPT ![n] = w[m], ![m] = w[n]]

\* The position n the loop computes from the next seed.
Chosen(s) == i + (s % (N - i))

\* One pass of the loop: a position that is not settled yet is chosen by the
\* next seed and its element settled at i.
Pass ==
  /\ i < N
  /\ seed' = Sha3[seed]
  /\ v' = Swap(v, Chosen(seed'), i)
  /\ i' = i + 1

ShuffleSpec == ShuffleInit /\ [][Pass]_shuffleVars

\* rdPoS takes the creator and the participants of a round from the shuffled
\* list: after every pass it still holds every validator once, whatever the
\* seed, and the position chosen is inside the vector up to the last pass,
\* where one element is left.
Permuted == IsOrder(v)

\* A settled position is not touched again, so the loop has chosen every
\* position after N passes (shuffle).
SettledStays == [][\A j \in 0..(i - 1) : v'[j] = v[j]]_shuffleVars
=============================================================================
