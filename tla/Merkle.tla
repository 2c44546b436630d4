------------------------------- MODULE Merkle -------------------------------
(***************************************************************************)
(* The Merkle tree of utils/merkle.cpp. Hashes are terms, so sha3 is       *)
(* injective; std::min and std::max put the two hashes of a pair in an     *)
(* order of their own, so a pair is the set of its hashes.                 *)
(***************************************************************************)
EXTENDS Naturals, Sequences

Sha3(x) == [leaf |-> x]

Pair(a, b) == [pair |-> {a, b}]

\* What a read past the end of a layer yields: no hash of the tree.
Garbage == [garbage |-> TRUE]

\* Hash(), the root of no leaves.
EmptyHash == [empty |-> TRUE]

\* Variant: the last hash of an odd layer is paired with itself.
DoubledLayer(layer) ==
  [i \in 1..((Len(layer) + 1) \div 2) |->
     IF 2 * i <= Len(layer) THEN Pair(layer[2 * i - 1], layer[2 * i])
                            ELSE Pair(layer[2 * i - 1], layer[2 * i - 1])]

NewLayer(layer) ==
  [i \in 1..((Len(layer) + 1) \div 2) |->
     IF 2 * i <= Len(layer) THEN Pair(layer[2 * i - 1], layer[2 * i])
                            ELSE layer[2 * i - 1]]

\* tree.back().
Top(tree) == tree[Len(tree)]

\* The constructor: the hashes of the leaves, and layers while the last has
\* more than one hash, which is less often than there are leaves.
Tree(leaves) ==
  LET tree[k \in 0..Len(leaves)] ==
        IF k = 0 THEN <<[i \in DOMAIN leaves |-> Sha3(leaves[i])]>>
        ELSE LET below == tree[k - 1] IN
             IF Len(Top(below)) > 1 THEN Append(below, NewLayer(Top(below))) ELSE below
  IN  tree[Len(leaves)]

GetRoot(tree) == IF Top(tree) = <<>> THEN EmptyHash ELSE Head(Top(tree))

\* Layers getProof visits: it stops at the first with one hash, and the tree
\* of no leaves has none.
Levels(tree) == IF Len(Top(tree)) = 1 THEN Len(tree) - 1 ELSE Len(tree)

\* Variant: the left neighbour is the sibling.
LeftSibling(pos) == IF pos = 0 THEN 1 ELSE pos - 1

\* Position of the other child, counted from 0.
Sibling(pos) == IF pos % 2 = 0 THEN pos + 1 ELSE pos - 1

At(layer, pos) == IF pos < Len(layer) THEN layer[pos + 1] ELSE Garbage

\* getProof for a leaf of the tree: the sibling on every layer. The position
\* is halved from one layer to the next.
GetProof(tree, leafIndex) ==
  [k \in 1..Levels(tree) |-> At(tree[k], Sibling(leafIndex \div 2^(k - 1)))]

Verify(proof, leaf, root) ==
  LET hash[k \in 0..Len(proof)] ==
        IF k = 0 THEN leaf ELSE Pair(hash[k - 1], proof[k])
  IN  hash[Len(proof)] = root
=============================================================================
