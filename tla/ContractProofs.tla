--------------------------- MODULE ContractProofs ---------------------------
(***************************************************************************)
(* Contracts, for any finite set of users, any calls, supply and funds:    *)
(* the token keeps its supply; no transaction and no restart opens a gap   *)
(* between what the ERC20Wrapper holds and what it owes, nor a transaction *)
(* one between what the NativeWrapper holds and what it has issued; a      *)
(* transaction that succeeds makes and loses no native tokens; and tokens  *)
(* leave a user who did not sign only against an allowance.  Simulations,  *)
(* which may commit nested calls and leave balances behind, are part of    *)
(* the behaviours throughout.  First what these proofs need of sums.       *)
(***************************************************************************)
EXTENDS Contracts, Integers, FiniteSetTheorems, WellFoundedInduction, TLAPS

-----------------------------------------------------------------------------
(* Sums over finite sets.  SumFunctionOnSet is a fold: one element after the *)
(* other is taken out of the set.  What follows is by induction on the       *)
(* subsets of a finite set.                                                  *)
LEMMA MinimalSubset ==
  ASSUME NEW D, IsFiniteSet(D), NEW B, B \subseteq SUBSET D, B # {}
  PROVE  \E s \in B : \A t \in SUBSET s : t # s => t \notin B
<1>1. IsWellFoundedOn(StrictSubsetOrdering(D), SUBSET D)
  <2>1. IsWellFoundedOn(StrictSubsetOrdering(D), FiniteSubsetsOf(D))
    BY Zenon, FS_StrictSubsetOrderingWellFounded
  <2>2. FiniteSubsetsOf(D) = SUBSET D
    BY Zenon, FS_FiniteSubsetsOfFinite
  <2> QED  BY Zenon, <2>1, <2>2
<1>2. PICK s \in B : \A t \in B : ~(<<t, s>> \in StrictSubsetOrdering(D))
  BY Zenon, <1>1, WFMin
<1>3. ASSUME NEW t \in SUBSET s, t # s, t \in B PROVE FALSE
  <2>1. <<t, s>> \in (SUBSET D) \X (SUBSET D) /\ <<t, s>>[1] = t /\ <<t, s>>[2] = s
    BY Zenon, <1>2, <1>3
  <2>2. <<t, s>> \in StrictSubsetOrdering(D)
    BY Zenon, <1>3, <2>1 DEF StrictSubsetOrdering
  <2> QED  BY Zenon, <1>2, <1>3, <2>2
<1> QED  BY Zenon, <1>3

(* Induction on the subsets of a finite set.                                 *)
LEMMA SubsetInduction ==
  ASSUME NEW D, IsFiniteSet(D), NEW P,
         \A s \in SUBSET D : (\A t \in SUBSET s : t # s => t \in P) => s \in P
  PROVE  D \in P
<1> DEFINE B == {s \in SUBSET D : s \notin P}
<1> SUFFICES ASSUME B # {} PROVE FALSE
  BY Zenon, SMT
<1>1. B \subseteq SUBSET D
  BY Zenon
<1> HIDE DEF B
<1>2. PICK s \in B : \A t \in SUBSET s : t # s => t \notin B
  BY Zenon, SMT, <1>1, MinimalSubset
<1> QED  BY Zenon, SMT, <1>2 DEF B

(* iter[s] is the sum of f over s, for the subsets s of D.                   *)
First(s) == CHOOSE x \in s : TRUE
IsIter(iter, f, D) ==
  iter = [s \in SUBSET D |-> IF s = {} THEN 0 ELSE f[First(s)] + iter[s \ {First(s)}]]

(* What the sum of the library stands for.                                   *)
LEMMA SumIsIter ==
  ASSUME NEW f, NEW D, \E iter : IsIter(iter, f, D)
  PROVE  \E iter : IsIter(iter, f, D) /\ SumFunctionOnSet(f, D) = iter[D]
<1> DEFINE it == CHOOSE iter : iter =
             [s \in SUBSET D |-> IF s = {} THEN 0
                                 ELSE f[CHOOSE x \in s : TRUE] + iter[s \ {CHOOSE x \in s : TRUE}]]
<1>1. IsIter(it, f, D)
  BY Zenon DEF IsIter, First
<1>2. SumFunctionOnSet(f, D) = it[D]
  BY Zenon DEF SumFunctionOnSet, FoldFunctionOnSet, MapThenFoldSet
<1> QED  BY Zenon, <1>1, <1>2

(* The first element of a set, and the set without it.                       *)
LEMMA FirstIn ==
  ASSUME NEW s, s # {}
  PROVE  First(s) \in s /\ s \ {First(s)} \in SUBSET s /\ s \ {First(s)} # s
BY Zenon DEF First

(* One step of an iteration.                                                 *)
LEMMA IterStep ==
  ASSUME NEW f, NEW D, NEW g, IsIter(g, f, D), NEW s \in SUBSET D, s # {}
  PROVE  g[s] = f[First(s)] + g[s \ {First(s)}]
BY Zenon DEF IsIter

(* The empty sum.                                                            *)
LEMMA IterEmpty ==
  ASSUME NEW f, NEW D, NEW g, IsIter(g, f, D)
  PROVE  g[{}] = 0
BY Zenon DEF IsIter

(* The sum over a set does not depend on the set it is part of.              *)
LEMMA IterUnique ==
  ASSUME NEW f, NEW A, IsFiniteSet(A), NEW B, NEW g, IsIter(g, f, A), NEW h, IsIter(h, f, B),
         A \subseteq B
  PROVE  g[A] = h[A]
<1> DEFINE P == {s \in SUBSET A : g[s] = h[s]}
<1>1. ASSUME NEW s \in SUBSET A, \A t \in SUBSET s : t # s => t \in P
      PROVE  s \in P
  <2>1. s \in SUBSET B
    BY Zenon
  <2>2. CASE s = {}
    BY Zenon, <2>2, IterEmpty
  <2>3. CASE s # {}
    <3>1. g[s \ {First(s)}] = h[s \ {First(s)}]
      BY Zenon, <1>1, <2>3, FirstIn
    <3>2. g[s] = f[First(s)] + g[s \ {First(s)}]
      BY SMT, <2>3, IterStep
    <3>3. h[s] = f[First(s)] + h[s \ {First(s)}]
      BY Zenon, <2>1, <2>3 DEF IsIter
    <3> QED  BY Zenon, <3>1, <3>2, <3>3
  <2> QED  BY Zenon, <2>2, <2>3
<1> HIDE DEF P
<1>2. A \in P
  BY Zenon, <1>1, SubsetInduction
<1> QED  BY Zenon, <1>2 DEF P

(* The iteration exists.                                                     *)
LEMMA IterExists ==
  ASSUME NEW f, NEW D, IsFiniteSet(D)
  PROVE  \E iter : IsIter(iter, f, D)
<1> DEFINE P == {s \in SUBSET D : \E iter : IsIter(iter, f, s)}
<1>1. ASSUME NEW s \in SUBSET D, \A t \in SUBSET s : t # s => t \in P
      PROVE  s \in P
  <2> DEFINE Sum(t) == SumFunctionOnSet(f, t)
             g == [t \in SUBSET s |->
                     IF t = {} THEN 0 ELSE f[First(t)] + Sum(t \ {First(t)})]
  <2>1. ASSUME NEW t \in SUBSET s, t # s PROVE g[t] = Sum(t)
    <3>1. PICK i : IsIter(i, f, t) /\ Sum(t) = i[t]
      BY Zenon, <1>1, <2>1, SumIsIter
    <3>2. CASE t = {}
      BY Zenon, <3>1, <3>2, IterEmpty
    <3>3. CASE t # {}
      <4> DEFINE u == t \ {First(t)}
      <4>1. u \in SUBSET s /\ u # s /\ u \in SUBSET t /\ IsFiniteSet(u)
        BY Zenon, <3>3, FirstIn, FS_Subset
      <4>2. PICK j : IsIter(j, f, u) /\ Sum(u) = j[u]
        BY Zenon, <1>1, <4>1, SumIsIter
      <4>3. j[u] = i[u]
        BY SMT, <3>1, <4>1, <4>2, IterUnique
      <4>4. i[t] = f[First(t)] + i[u]
        BY SMT, <3>1, <3>3, IterStep
      <4> QED  BY Zenon, <3>1, <3>3, <4>2, <4>3, <4>4
    <3> QED  BY Zenon, <3>2, <3>3
  <2>2. ASSUME NEW t \in SUBSET s
        PROVE  g[t] = IF t = {} THEN 0 ELSE f[First(t)] + g[t \ {First(t)}]
    <3>1. t # {} => t \ {First(t)} \in SUBSET s /\ t \ {First(t)} # s
      BY Zenon, FirstIn
    <3>2. t # {} => g[t \ {First(t)}] = Sum(t \ {First(t)})
      BY Zenon, <2>1, <3>1
    <3> QED  BY Zenon, <3>2
  <2>3. IsIter(g, f, s)
    BY Zenon, <2>2 DEF IsIter
  <2> QED  BY Zenon, <2>3
<1> HIDE DEF P
<1>2. D \in P
  BY Zenon, <1>1, SubsetInduction
<1> QED  BY Zenon, <1>2 DEF P

(* The sum, one element after the other.                                     *)
LEMMA SumFirst ==
  ASSUME NEW f, NEW D, IsFiniteSet(D), D # {}
  PROVE  SumFunctionOnSet(f, D) = f[First(D)] + SumFunctionOnSet(f, D \ {First(D)})
<1> DEFINE E == D \ {First(D)}
<1>1. PICK g : IsIter(g, f, D) /\ SumFunctionOnSet(f, D) = g[D]
  BY Zenon, IterExists, SumIsIter
<1>2. E \subseteq D /\ IsFiniteSet(E)
  BY Zenon, FS_Subset
<1>3. PICK h : IsIter(h, f, E) /\ SumFunctionOnSet(f, E) = h[E]
  BY Zenon, <1>2, IterExists, SumIsIter
<1>4. h[E] = g[E]
  BY SMT, <1>1, <1>2, <1>3, IterUnique
<1>5. g[D] = f[First(D)] + g[E]
  BY Zenon, <1>1 DEF IsIter
<1> QED  BY Zenon, <1>1, <1>3, <1>4, <1>5

(* The empty sum.                                                            *)
LEMMA SumEmpty == ASSUME NEW f PROVE SumFunctionOnSet(f, {}) = 0
<1>1. IsFiniteSet({})
  BY Zenon, FS_EmptySet
<1>2. PICK g : IsIter(g, f, {}) /\ SumFunctionOnSet(f, {}) = g[{}]
  BY Zenon, <1>1, IterExists, SumIsIter
<1> QED  BY Zenon, <1>2, IterEmpty

(* A step of the inductions below: the set is empty, or its sum is that of a *)
(* smaller set and one element.                                              *)
LEMMA SumCases ==
  ASSUME NEW D, IsFiniteSet(D), NEW s \in SUBSET D, s # {}
  PROVE  /\ First(s) \in s /\ First(s) \in D
         /\ s \ {First(s)} \in SUBSET s /\ s \ {First(s)} # s
         /\ \A f : SumFunctionOnSet(f, s) = f[First(s)] + SumFunctionOnSet(f, s \ {First(s)})
<1>1. IsFiniteSet(s)
  BY Zenon, FS_Subset
<1>2. First(s) \in s /\ s \ {First(s)} \in SUBSET s /\ s \ {First(s)} # s
  BY Zenon, FirstIn
<1>3. \A f : SumFunctionOnSet(f, s) = f[First(s)] + SumFunctionOnSet(f, s \ {First(s)})
  BY Zenon, <1>1, SumFirst
<1> QED  BY Zenon, <1>2, <1>3

(* A sum of natural numbers is one.                                          *)
LEMMA SumNat ==
  ASSUME NEW f, NEW D, IsFiniteSet(D), \A x \in D : f[x] \in Nat
  PROVE  SumFunctionOnSet(f, D) \in Nat
<1> DEFINE P == {s \in SUBSET D : SumFunctionOnSet(f, s) \in Nat}
<1>1. ASSUME NEW s \in SUBSET D, \A t \in SUBSET s : t # s => t \in P
      PROVE  s \in P
  <2>1. CASE s = {}
    BY <2>1, SumEmpty
  <2>2. CASE s # {}
    <3>1. s \ {First(s)} \in P /\ f[First(s)] \in Nat
      BY Zenon, <1>1, <2>2, SumCases
    <3>2. SumFunctionOnSet(f, s) = f[First(s)] + SumFunctionOnSet(f, s \ {First(s)})
      BY Zenon, <2>2, SumCases
    <3> QED  BY <3>1, <3>2
  <2> QED  BY Zenon, <2>1, <2>2
<1> HIDE DEF P
<1>2. D \in P
  BY Zenon, <1>1, SubsetInduction
<1> QED  BY Zenon, <1>2 DEF P

(* Any element may be taken out first.                                       *)
LEMMA SumRemove ==
  ASSUME NEW f, NEW D, IsFiniteSet(D), \A x \in D : f[x] \in Nat, NEW x \in D
  PROVE  SumFunctionOnSet(f, D) = f[x] + SumFunctionOnSet(f, D \ {x})
<1> DEFINE Sum(s) == SumFunctionOnSet(f, s)
           P == {s \in SUBSET D : \A y \in s : Sum(s) = f[y] + Sum(s \ {y})}
<1>0. \A s \in SUBSET D : Sum(s) \in Nat
  BY Zenon, SumNat, FS_Subset
<1>1. ASSUME NEW s \in SUBSET D, \A t \in SUBSET s : t # s => t \in P
      PROVE  s \in P
  <2> SUFFICES ASSUME NEW y \in s PROVE Sum(s) = f[y] + Sum(s \ {y})
    BY Zenon
  <2> DEFINE p == First(s)
             rest == (s \ {p}) \ {y}
  <2>1. /\ p \in s /\ s \ {p} \in SUBSET s /\ s \ {p} # s
        /\ Sum(s) = f[p] + Sum(s \ {p})
    BY Zenon, SumCases
  <2>2. CASE y = p
    BY Zenon, <2>1, <2>2
  <2>3. CASE y # p
    <3>1. /\ y \in s \ {p} /\ p \in s \ {y} /\ s \ {y} \in SUBSET s /\ s \ {y} # s
          /\ (s \ {y}) \ {p} = rest
      BY Zenon, <2>1, <2>3
    <3>2. s \ {p} \in P /\ s \ {y} \in P
      BY Zenon, <1>1, <2>1, <3>1
    <3>3. Sum(s \ {p}) = f[y] + Sum(rest)
      BY Zenon, <3>1, <3>2
    <3>4. Sum(s \ {y}) = f[p] + Sum(rest)
      BY Zenon, <3>1, <3>2
    <3>5. f[p] \in Nat /\ f[y] \in Nat /\ Sum(rest) \in Nat
      BY Zenon, <1>0, <2>1
    <3> HIDE DEF Sum, p, rest
    <3> QED  BY <2>1, <3>3, <3>4, <3>5
  <2> QED  BY Zenon, <2>2, <2>3
<1> HIDE DEF P
<1>2. D \in P
  BY Zenon, <1>1, SubsetInduction
<1> QED  BY Zenon, <1>2 DEF P

(* Functions that are equal on a set have the same sum over it.              *)
LEMMA SumSame ==
  ASSUME NEW f, NEW g, NEW D, IsFiniteSet(D), \A x \in D : f[x] = g[x]
  PROVE  SumFunctionOnSet(f, D) = SumFunctionOnSet(g, D)
<1> DEFINE P == {s \in SUBSET D : SumFunctionOnSet(f, s) = SumFunctionOnSet(g, s)}
<1>1. ASSUME NEW s \in SUBSET D, \A t \in SUBSET s : t # s => t \in P
      PROVE  s \in P
  <2>1. CASE s = {}
    BY Zenon, <2>1, SumEmpty
  <2>2. CASE s # {}
    <3>1. s \ {First(s)} \in P /\ f[First(s)] = g[First(s)]
      BY Zenon, <1>1, <2>2, SumCases
    <3>2. /\ SumFunctionOnSet(f, s) = f[First(s)] + SumFunctionOnSet(f, s \ {First(s)})
          /\ SumFunctionOnSet(g, s) = g[First(s)] + SumFunctionOnSet(g, s \ {First(s)})
      BY Zenon, <2>2, SumCases
    <3> QED  BY Zenon, <3>1, <3>2
  <2> QED  BY Zenon, <2>1, <2>2
<1> HIDE DEF P
<1>2. D \in P
  BY Zenon, <1>1, SubsetInduction
<1> QED  BY Zenon, <1>2 DEF P

(* A function that is nowhere larger has no larger sum.                      *)
LEMMA SumMonotone ==
  ASSUME NEW f, NEW g, NEW D, IsFiniteSet(D),
         \A x \in D : f[x] \in Nat /\ g[x] \in Nat /\ f[x] <= g[x]
  PROVE  SumFunctionOnSet(f, D) <= SumFunctionOnSet(g, D)
<1> DEFINE P == {s \in SUBSET D : SumFunctionOnSet(f, s) <= SumFunctionOnSet(g, s)}
<1>0. \A s \in SUBSET D : SumFunctionOnSet(f, s) \in Nat /\ SumFunctionOnSet(g, s) \in Nat
  BY Zenon, SumNat, FS_Subset
<1>1. ASSUME NEW s \in SUBSET D, \A t \in SUBSET s : t # s => t \in P
      PROVE  s \in P
  <2>1. CASE s = {}
    BY <2>1, SumEmpty
  <2>2. CASE s # {}
    <3> DEFINE x == First(s)
               F == SumFunctionOnSet(f, s \ {x})
               G == SumFunctionOnSet(g, s \ {x})
    <3>1. s \ {x} \in P /\ x \in D
      BY Zenon, <1>1, <2>2, SumCases
    <3>2. SumFunctionOnSet(f, s) = f[x] + F /\ SumFunctionOnSet(g, s) = g[x] + G
      BY Zenon, <2>2, SumCases
    <3>3. F \in Nat /\ G \in Nat /\ F <= G
      BY Zenon, <1>0, <3>1
    <3>4. f[x] \in Nat /\ g[x] \in Nat /\ f[x] <= g[x]
      BY Zenon, <3>1
    <3> HIDE DEF x, F, G
    <3>5. f[x] + F <= g[x] + G
      BY <3>3, <3>4
    <3> QED  BY Zenon, <3>2, <3>5
  <2> QED  BY Zenon, <2>1, <2>2
<1> HIDE DEF P
<1>2. D \in P
  BY Zenon, <1>1, SubsetInduction
<1> QED  BY Zenon, <1>2 DEF P

(* What is zero adds nothing.                                                *)
LEMMA SumZeros ==
  ASSUME NEW f, NEW D, IsFiniteSet(D), \A x \in D : f[x] \in Nat,
         NEW E \in SUBSET D, \A x \in D \ E : f[x] = 0
  PROVE  SumFunctionOnSet(f, D) = SumFunctionOnSet(f, E)
<1> DEFINE Sum(s) == SumFunctionOnSet(f, s)
           P == {s \in SUBSET D : Sum(s) = Sum(s \cap E)}
<1>0. \A s \in SUBSET D : Sum(s) \in Nat
  BY Zenon, SumNat, FS_Subset
<1>1. ASSUME NEW s \in SUBSET D, \A t \in SUBSET s : t # s => t \in P
      PROVE  s \in P
  <2>1. CASE s = {}
    BY Zenon, <2>1
  <2>2. CASE s # {}
    <3> DEFINE x == First(s)
               r == (s \ {x}) \cap E
    <3>1. s \ {x} \in P /\ x \in s /\ x \in D /\ Sum(s) = f[x] + Sum(s \ {x})
      BY Zenon, <1>1, <2>2, SumCases
    <3>2. Sum(s) = f[x] + Sum(r) /\ Sum(r) \in Nat
      BY Zenon, <1>0, <3>1
    <3>3. CASE x \in E
      <4>1. x \in s \cap E /\ (s \cap E) \ {x} = r /\ s \cap E \in SUBSET D
        BY Zenon, <3>1, <3>3
      <4>2. IsFiniteSet(s \cap E) /\ \A y \in s \cap E : f[y] \in Nat
        BY Zenon, <4>1, FS_Subset
      <4>3. Sum(s \cap E) = f[x] + Sum(r)
        BY SMT, <4>1, <4>2, SumRemove
      <4> QED  BY Zenon, <3>2, <4>3
    <3>4. CASE x \notin E
      <4>1. s \cap E = r /\ f[x] = 0
        BY Zenon, <3>1, <3>4
      <4> HIDE DEF Sum, x, r
      <4>2. Sum(s) = Sum(r)
        BY <3>2, <4>1
      <4> QED  BY Zenon, <4>1, <4>2
    <3> QED  BY Zenon, <3>3, <3>4
  <2> QED  BY Zenon, <2>1, <2>2
<1> HIDE DEF P
<1>2. D \in P
  BY Zenon, <1>1, SubsetInduction
<1>3. D \cap E = E
  BY Zenon
<1> QED  BY Zenon, <1>2, <1>3 DEF P

(* A change in one place changes the sum as much.                            *)
LEMMA SumUpdate ==
  ASSUME NEW f, NEW g, NEW D, IsFiniteSet(D), \A y \in D : f[y] \in Nat /\ g[y] \in Nat,
         NEW x \in D, \A y \in D : y # x => f[y] = g[y]
  PROVE  /\ SumFunctionOnSet(g, D) + f[x] = SumFunctionOnSet(f, D) + g[x]
         /\ SumFunctionOnSet(f, D) \in Nat /\ SumFunctionOnSet(g, D) \in Nat
<1> DEFINE E == D \ {x}
           S == SumFunctionOnSet(f, E)
<1>1. IsFiniteSet(E) /\ \A y \in E : f[y] = g[y] /\ f[y] \in Nat
  BY Zenon, FS_Subset
<1>2. S = SumFunctionOnSet(g, E) /\ S \in Nat
  <2>1. S \in Nat
    BY Zenon, <1>1, SumNat
  <2>2. S = SumFunctionOnSet(g, E)
    BY SMT, <1>1, SumSame
  <2> QED  BY Zenon, <2>1, <2>2
<1>3. SumFunctionOnSet(f, D) = f[x] + S
  BY SMT, SumRemove
<1>4. SumFunctionOnSet(g, D) = g[x] + SumFunctionOnSet(g, E)
  BY SMT, SumRemove
<1>5. f[x] \in Nat /\ g[x] \in Nat
  BY Zenon
<1> HIDE DEF S, E
<1> QED  BY <1>2, <1>3, <1>4, <1>5

-----------------------------------------------------------------------------
(* Which contracts a call changes.                                           *)
BalShape(f) == f = [k \in {Token, Native} |-> f[k]]
TwoShape(f) == f = [k \in Contracts |-> f[k]]
DataShape == /\ data = [bal |-> data.bal, two |-> data.two]
             /\ BalShape(data.bal) /\ TwoShape(data.two)

(* A world, and that x differs from w in the contracts cs alone.             *)
IsWorld(w) ==
  /\ w = [bal |-> w.bal, two |-> w.two, balances |-> w.balances,
          native |-> w.native, commit |-> w.commit]
  /\ BalShape(w.bal) /\ TwoShape(w.two)
OnlyIn(cs, w, x) ==
  /\ IsWorld(x)
  /\ \A k \in {Token, Native} \ cs : x.bal[k] = w.bal[k]
  /\ \A k \in Contracts \ cs : x.two[k] = w.two[k]

(* Neither does it differ in ContractManager's own balances and flag.        *)
Beside(cs, w, x) == OnlyIn(cs, w, x) /\ x.balances = w.balances /\ x.commit = w.commit

(* An assignment to the balances, or to the maps of maps, of one contract.   *)
SetsBal(w, c, v, x) == Beside({c}, w, x) /\ x.bal[c] = v /\ x.two = w.two
SetsTwo(w, c, v, x) == Beside({c}, w, x) /\ x.two[c] = v /\ x.bal = w.bal

(* The balances.                                                             *)
LEMMA SetBal ==
  ASSUME NEW w, IsWorld(w), NEW c \in {Token, Native}, NEW v, NEW x, x = [w EXCEPT !.bal[c] = v]
  PROVE  SetsBal(w, c, v, x)
<1> DEFINE b == [w.bal EXCEPT ![c] = v]
<1>1. x = [w EXCEPT !.bal = b]
  OBVIOUS
<1>2. DOMAIN w.bal = {Token, Native}
  BY Zenon DEF IsWorld, BalShape
<1>3. BalShape(b) /\ b[c] = v /\ \A k \in {Token, Native} \ {c} : b[k] = w.bal[k]
  BY Zenon, <1>2 DEF BalShape
<1> HIDE DEF b
<1>4. /\ x.bal = b /\ x.two = w.two /\ x.native = w.native
      /\ x.balances = w.balances /\ x.commit = w.commit
      /\ x = [bal |-> x.bal, two |-> x.two, balances |-> x.balances,
              native |-> x.native, commit |-> x.commit]
  BY Zenon, <1>1 DEF IsWorld
<1>5. OnlyIn({c}, w, x)
  BY Zenon, <1>3, <1>4 DEF IsWorld, OnlyIn
<1> QED  BY Zenon, <1>3, <1>4, <1>5 DEF Beside, SetsBal

(* The same for the maps of maps.                                            *)
LEMMA SetTwo ==
  ASSUME NEW w, IsWorld(w), NEW c \in Contracts, NEW v, NEW x, x = [w EXCEPT !.two[c] = v]
  PROVE  SetsTwo(w, c, v, x)
<1> DEFINE b == [w.two EXCEPT ![c] = v]
<1>1. x = [w EXCEPT !.two = b]
  OBVIOUS
<1>2. DOMAIN w.two = Contracts
  BY Zenon DEF IsWorld, TwoShape
<1>3. TwoShape(b) /\ b[c] = v /\ \A k \in Contracts \ {c} : b[k] = w.two[k]
  BY Zenon, <1>2 DEF TwoShape
<1> HIDE DEF b
<1>4. /\ x.two = b /\ x.bal = w.bal /\ x.native = w.native
      /\ x.balances = w.balances /\ x.commit = w.commit
      /\ x = [bal |-> x.bal, two |-> x.two, balances |-> x.balances,
              native |-> x.native, commit |-> x.commit]
  BY Zenon, <1>1 DEF IsWorld
<1>5. OnlyIn({c}, w, x)
  BY Zenon, <1>3, <1>4 DEF IsWorld, OnlyIn
<1> QED  BY Zenon, <1>3, <1>4, <1>5 DEF Beside, SetsTwo

(* Two changes after each other.                                             *)
LEMMA BesideTransitive ==
  ASSUME NEW cs, NEW ds, NEW es, cs \subseteq es, ds \subseteq es,
         NEW w, NEW x, NEW y, Beside(cs, w, x), Beside(ds, x, y)
  PROVE  Beside(es, w, y)
BY Zenon DEF Beside, OnlyIn

(* A transfer between two accounts, or from one to itself.                   *)
Move(f, from, to, n) == [[f EXCEPT ![from] = @ - n] EXCEPT ![to] = @ + n]

(* x is w after a transfer, after another entry in a map of maps, and after  *)
(* a transferFrom.                                                           *)
Moves(w, c, from, to, n, x) ==
  SetsBal(w, c, Move(w.bal[c], from, to, n), x) /\ ~(w.bal[c][from] < n)
WithEntry(w, c, a, b, n) == [w EXCEPT !.two[c][a][b] = n]
Enters(w, c, a, b, n, x) == SetsTwo(w, c, [w.two[c] EXCEPT ![a][b] = n], x)
Spends(w, c, caller, from, to, n, x) ==
  /\ Beside({c}, w, x)
  /\ ~(Amount(w.two[c][from][caller]) < n) /\ ~(w.bal[c][from] < n)
  /\ x.bal[c] = Move(w.bal[c], from, to, n)
  /\ x.two[c] = [w.two[c] EXCEPT ![from][caller] = Amount(w.two[c][from][caller]) - n]

(* transfer.                                                                 *)
LEMMA MoveTokensIs ==
  ASSUME NEW w, IsWorld(w), NEW c \in {Token, Native}, NEW from, NEW to, NEW n,
         NEW x \in MoveTokens(w, c, from, to, n)
  PROVE  Moves(w, c, from, to, n, x)
<1>1. ~(w.bal[c][from] < n) /\ x = [w EXCEPT !.bal[c] = Move(w.bal[c], from, to, n)]
  BY Zenon DEF MoveTokens, Throw, Move
<1>2. SetsBal(w, c, Move(w.bal[c], from, to, n), x)
  BY Zenon, <1>1, SetBal
<1> QED  BY Zenon, <1>1, <1>2 DEF Moves

(* Another entry.                                                            *)
LEMMA WithEntryIs ==
  ASSUME NEW w, IsWorld(w), NEW c \in Contracts, NEW a, NEW b, NEW n, NEW x, x = WithEntry(w, c, a, b, n)
  PROVE  Enters(w, c, a, b, n, x)
<1>1. x = [w EXCEPT !.two[c] = [w.two[c] EXCEPT ![a][b] = n]]
  BY Zenon DEF WithEntry
<1> QED  BY Zenon, <1>1, SetTwo DEF Enters

(* transferFrom: the allowance, then the balances.                           *)
LEMMA TransferFromIs ==
  ASSUME NEW w, IsWorld(w), NEW c \in {Token, Native}, NEW caller, NEW from, NEW to, NEW n,
         NEW x \in TransferFrom(w, c, caller, from, to, n)
  PROVE  Spends(w, c, caller, from, to, n, x)
<1> DEFINE left == Amount(w.two[c][from][caller]) - n
           y == WithEntry(w, c, from, caller, left)
<1>1. ~(Amount(w.two[c][from][caller]) < n) /\ x \in MoveTokens(y, c, from, to, n)
  BY Zenon DEF TransferFrom, Throw, WithEntry
<1>2. y = WithEntry(w, c, from, caller, left) /\ c \in Contracts
  BY Zenon DEF Contracts
<1> HIDE DEF y
<1>3. Enters(w, c, from, caller, left, y)
  BY Zenon, <1>2, WithEntryIs
<1> HIDE DEF left
<1>4. IsWorld(y) /\ Beside({c}, w, y) /\ y.bal = w.bal /\ y.two[c] = [w.two[c] EXCEPT ![from][caller] = left]
  BY Zenon, <1>3 DEF Beside, OnlyIn, Enters, SetsTwo
<1>5. Moves(y, c, from, to, n, x)
  BY Zenon, <1>1, <1>4, MoveTokensIs
<1>6. /\ Beside({c}, y, x) /\ x.two = y.two
      /\ ~(y.bal[c][from] < n) /\ x.bal[c] = Move(y.bal[c], from, to, n)
  BY Zenon, <1>5 DEF Moves, SetsBal
<1>7. Beside({c}, w, x)
  BY Zenon, <1>4, <1>6, BesideTransitive
<1> QED  BY Zenon, <1>1, <1>4, <1>6, <1>7 DEF Spends, left

(* withdraw: the balance, then the native tokens.                            *)
LEMMA NativeWithdrawLocal ==
  ASSUME NEW w, IsWorld(w), NEW caller, NEW n, NEW x \in NativeWithdraw(w, caller, n)
  PROVE  OnlyIn({Native}, w, x)
<1> DEFINE y == [w EXCEPT !.bal[Native][caller] = @ - n]
<1>1. x \in SendTokens(y, Native, caller, n)
  BY Zenon DEF NativeWithdraw, Throw
<1>2. y = [w EXCEPT !.bal[Native] = [w.bal[Native] EXCEPT ![caller] = @ - n]]
  OBVIOUS
<1> HIDE DEF y
<1>3. OnlyIn({Native}, w, y)
  <2>1. SetsBal(w, Native, [w.bal[Native] EXCEPT ![caller] = @ - n], y)
    BY Zenon, <1>2, SetBal
  <2> QED  BY Zenon, <2>1 DEF SetsBal, Beside
<1>4. PICK b : x = [y EXCEPT !.balances = b]
  BY Zenon, <1>1 DEF SendTokens, Throw
<1>5. x.bal = y.bal /\ x.two = y.two /\ IsWorld(x)
  BY Zenon, <1>3, <1>4 DEF OnlyIn, IsWorld
<1> QED  BY Zenon, <1>3, <1>5 DEF OnlyIn

(* A call of the token or of the NativeWrapper changes that contract only.   *)
LEMMA RunLocal ==
  ASSUME NEW w, IsWorld(w), NEW c, c.to \in {Token, Native}, NEW x \in Run(w, c)
  PROVE  OnlyIn({c.to}, w, x) /\ (c.fn # "withdraw" => x.balances = w.balances)
<1>1. CASE c.fn = "transfer"
  <2>1. x \in MoveTokens(w, c.to, c.who, c.other, c.n)
    BY Zenon, <1>1 DEF Run, Transfer
  <2>2. Moves(w, c.to, c.who, c.other, c.n, x)
    BY Zenon, <2>1, MoveTokensIs
  <2> QED  BY Zenon, <2>2 DEF Moves, SetsBal, Beside
<1>2. CASE c.fn = "approve"
  <2>1. x = WithEntry(w, c.to, c.who, c.other, c.n) /\ c.to \in Contracts
    BY Zenon, <1>2 DEF Run, Approve, WithEntry, Contracts
  <2>2. Enters(w, c.to, c.who, c.other, c.n, x)
    BY Zenon, <2>1, WithEntryIs
  <2> QED  BY Zenon, <2>2 DEF Enters, SetsTwo, Beside
<1>3. CASE c.fn = "transferFrom"
  <2>1. x \in TransferFrom(w, c.to, c.who, c.other, c.who, c.n)
    BY Zenon, <1>3 DEF Run
  <2>2. Spends(w, c.to, c.who, c.other, c.who, c.n, x)
    BY Zenon, <2>1, TransferFromIs
  <2> QED  BY Zenon, <2>2 DEF Spends, Beside
<1>4. CASE c.to = Native /\ c.fn = "deposit"
  <2>1. x = [w EXCEPT !.bal[Native] = [w.bal[Native] EXCEPT ![c.who] = @ + c.value]]
    BY Zenon, <1>4, ContractsAssumption DEF Run, NativeDeposit
  <2>2. SetsBal(w, Native, [w.bal[Native] EXCEPT ![c.who] = @ + c.value], x)
    BY Zenon, <2>1, SetBal
  <2> QED  BY Zenon, <1>4, <2>2 DEF SetsBal, Beside
<1>5. CASE c.to = Native /\ c.fn = "withdraw"
  <2>1. x \in NativeWithdraw(w, c.who, c.n)
    BY Zenon, <1>5, ContractsAssumption DEF Run
  <2> QED  BY Zenon, <1>5, <2>1, NativeWithdrawLocal
<1>6. \/ c.fn \in {"transfer", "approve", "transferFrom"}
      \/ c.to = Native /\ c.fn \in {"deposit", "withdraw"}
  BY Zenon, ContractsAssumption DEF Run, Throw
<1> QED  BY Zenon, <1>1, <1>2, <1>3, <1>4, <1>5, <1>6

(* What the wrapper makes of the result of a call of the token: without the  *)
(* flag, nothing remains of what the call did to the token.                  *)
TokenOf(w, x) == x.bal[Token] = w.bal[Token] /\ x.two[Token] = w.two[Token]
NestedResult(w, r, x) ==
  Beside({Token}, w, x) /\ (w.commit => x \in r) /\ (~w.commit => TokenOf(w, x))

(* As CallNested does it.                                                    *)
LEMMA NestedIs ==
  ASSUME NEW w, NEW r, \A y \in r : Beside({Token}, w, y), NEW x \in Nested(w, r)
  PROVE  NestedResult(w, r, x)
<1>1. CASE w.commit
  BY Zenon, <1>1 DEF Nested, NestedResult
<1>2. CASE ~w.commit
  <2>1. PICK y \in r : x = [y EXCEPT !.bal[Token] = w.bal[Token], !.two[Token] = w.two[Token]]
    BY Zenon, <1>2 DEF Nested
  <2>y. Beside({Token}, w, y) /\ IsWorld(y)
    BY Zenon DEF Beside, OnlyIn
  <2> DEFINE z == [y EXCEPT !.bal[Token] = w.bal[Token]]
  <2>2. SetsBal(y, Token, w.bal[Token], z)
    BY Zenon, <2>y, SetBal
  <2>3. x = [z EXCEPT !.two[Token] = w.two[Token]]
    BY Zenon, <2>1, <2>y DEF IsWorld
  <2> HIDE DEF z
  <2>4. IsWorld(z) /\ Token \in Contracts /\ Beside({Token}, y, z)
    BY Zenon, <2>2 DEF SetsBal, Beside, OnlyIn, Contracts
  <2>5. SetsTwo(z, Token, w.two[Token], x)
    BY Zenon, <2>3, <2>4, SetTwo
  <2>6. Beside({Token}, w, z)
    BY Zenon, <2>4, <2>y, BesideTransitive
  <2>7. Beside({Token}, w, x)
    <3>1. Beside({Token}, z, x)
      BY Zenon, <2>5 DEF SetsTwo
    <3> QED  BY Zenon, <2>6, <3>1, BesideTransitive
  <2> QED  BY Zenon, <1>2, <2>2, <2>5, <2>7 DEF NestedResult, TokenOf, SetsBal, SetsTwo
<1> QED  BY Zenon, <1>1, <1>2

(* transferTo and withdraw of the ERC20Wrapper: d is w with the caller's     *)
(* balance lowered.                                                          *)
Lowered(w, caller, n) == WithEntry(w, Wrapper, Token, caller, w.two[Wrapper][Token][caller] - n)
PaysOut(w, d, caller, to, n, x) ==
  /\ Beside({Wrapper}, w, d) /\ d.bal = w.bal /\ Beside({Token}, d, x)
  /\ d.two[Wrapper] = [w.two[Wrapper] EXCEPT ![Token][caller] = w.two[Wrapper][Token][caller] - n]
  /\ ~(Amount(w.two[Wrapper][Token][caller]) <= n)
  /\ w.commit => x \in MoveTokens(d, Token, Wrapper, to, n)
  /\ ~w.commit => TokenOf(w, x)

(* As TransferTo does it.                                                    *)
LEMMA TransferToIs ==
  ASSUME NEW w, IsWorld(w), NEW caller, NEW to, NEW n, NEW x \in TransferTo(w, caller, to, n)
  PROVE  PaysOut(w, Lowered(w, caller, n), caller, to, n, x)
<1> DEFINE d == Lowered(w, caller, n)
           r == MoveTokens(d, Token, Wrapper, to, n)
<1>1. ~(Amount(w.two[Wrapper][Token][caller]) <= n) /\ x \in Nested(d, r)
  BY Zenon DEF TransferTo, Throw, Transfer, Lowered, WithEntry
<1>2. Wrapper \in Contracts /\ Token \in Contracts
  BY Zenon DEF Contracts
<1>3. Enters(w, Wrapper, Token, caller, w.two[Wrapper][Token][caller] - n, d)
  BY Zenon, <1>2, WithEntryIs DEF Lowered
<1> HIDE DEF d
<1>4. /\ Beside({Wrapper}, w, d) /\ d.bal = w.bal /\ IsWorld(d) /\ d.commit = w.commit
      /\ d.two[Wrapper] = [w.two[Wrapper] EXCEPT ![Token][caller] = w.two[Wrapper][Token][caller] - n]
  BY Zenon, <1>3 DEF Enters, SetsTwo, Beside, OnlyIn
<1>5. d.two[Token] = w.two[Token]
  BY Zenon, <1>2, <1>4, ContractsAssumption DEF Beside, OnlyIn
<1>6. ASSUME NEW y \in r PROVE Beside({Token}, d, y)
  <2>1. Moves(d, Token, Wrapper, to, n, y)
    BY Zenon, <1>4, <1>6, MoveTokensIs
  <2> QED  BY Zenon, <2>1 DEF Moves, SetsBal
<1> HIDE DEF r
<1>7. NestedResult(d, r, x)
  BY Zenon, <1>1, <1>6, NestedIs
<1>8. PaysOut(w, d, caller, to, n, x)
  BY Zenon, <1>1, <1>4, <1>5, <1>7 DEF PaysOut, NestedResult, TokenOf, r
<1> QED  BY Zenon, <1>8 DEF d

(* deposit of the ERC20Wrapper: y is w after the call of the token.          *)
TakesIn(w, y, caller, n, x) ==
  /\ Beside({Token}, w, y) /\ Beside({Wrapper}, y, x) /\ x.bal = y.bal
  /\ x.two[Wrapper] = [y.two[Wrapper] EXCEPT ![Token][caller] = Amount(y.two[Wrapper][Token][caller]) + n]
  /\ w.commit => y \in TransferFrom(w, Token, Wrapper, caller, Wrapper, n)
  /\ ~w.commit => TokenOf(w, y)

(* As Deposit does it.                                                       *)
LEMMA DepositIs ==
  ASSUME NEW w, IsWorld(w), NEW caller, NEW n, NEW x \in Deposit(w, caller, n)
  PROVE  \E y : TakesIn(w, y, caller, n, x)
<1> DEFINE r == TransferFrom(w, Token, Wrapper, caller, Wrapper, n)
<1>1. ASSUME NEW y \in r PROVE Beside({Token}, w, y)
  <2>1. Spends(w, Token, Wrapper, caller, Wrapper, n, y)
    BY Zenon, <1>1, TransferFromIs
  <2> QED  BY Zenon, <2>1 DEF Spends
<1>2. PICK y \in Nested(w, r) :
        x = WithEntry(y, Wrapper, Token, caller, Amount(y.two[Wrapper][Token][caller]) + n)
  BY Zenon DEF Deposit, WithEntry
<1> HIDE DEF r
<1>3. NestedResult(w, r, y)
  BY Zenon, <1>1, NestedIs
<1>4. IsWorld(y) /\ Wrapper \in Contracts
  BY Zenon, <1>3 DEF NestedResult, Beside, OnlyIn, Contracts
<1>5. Enters(y, Wrapper, Token, caller, Amount(y.two[Wrapper][Token][caller]) + n, x)
  BY Zenon, <1>2, <1>4, WithEntryIs
<1>6. TakesIn(w, y, caller, n, x)
  BY Zenon, <1>3, <1>5 DEF TakesIn, NestedResult, Enters, SetsTwo, r
<1> QED  BY Zenon, <1>6

(* A call of the ERC20Wrapper changes it and the token, and the token only   *)
(* if ContractManager's flag says so.                                        *)
LEMMA WrapperLocal ==
  ASSUME NEW w, IsWorld(w), NEW c, c.to = Wrapper, NEW x \in Run(w, c)
  PROVE  Beside({Token, Wrapper}, w, x) /\ (~w.commit => TokenOf(w, x))
<1>1. \/ x \in Deposit(w, c.who, c.n)
      \/ \E to : x \in TransferTo(w, c.who, to, c.n)
  BY Zenon, ContractsAssumption DEF Run, Throw
<1>2. CASE x \in Deposit(w, c.who, c.n)
  <2>1. PICK y : TakesIn(w, y, c.who, c.n, x)
    BY Zenon, <1>2, DepositIs
  <2>2. Beside({Token}, w, y) /\ Beside({Wrapper}, y, x)
    BY Zenon, <2>1 DEF TakesIn
  <2>3. Beside({Token, Wrapper}, w, x)
    <3>1. {Token} \subseteq {Token, Wrapper} /\ {Wrapper} \subseteq {Token, Wrapper}
      OBVIOUS
    <3> QED  BY Zenon, <2>2, <3>1, BesideTransitive
  <2>4. x.bal[Token] = y.bal[Token] /\ x.two[Token] = y.two[Token]
    BY Zenon, <2>2, ContractsAssumption DEF Beside, OnlyIn, Contracts
  <2> QED  BY Zenon, <2>1, <2>3, <2>4 DEF TakesIn, TokenOf
<1>3. ASSUME NEW to, x \in TransferTo(w, c.who, to, c.n)
      PROVE  Beside({Token, Wrapper}, w, x) /\ (~w.commit => TokenOf(w, x))
  <2> DEFINE d == Lowered(w, c.who, c.n)
  <2>1. PaysOut(w, d, c.who, to, c.n, x)
    BY Zenon, <1>3, TransferToIs
  <2> HIDE DEF d
  <2>2. Beside({Wrapper}, w, d) /\ Beside({Token}, d, x)
    BY Zenon, <2>1 DEF PaysOut
  <2>3. Beside({Token, Wrapper}, w, x)
    <3>1. {Token} \subseteq {Token, Wrapper} /\ {Wrapper} \subseteq {Token, Wrapper}
      OBVIOUS
    <3> QED  BY Zenon, <2>2, <3>1, BesideTransitive
  <2> QED  BY Zenon, <2>1, <2>3 DEF PaysOut
<1> QED  BY Zenon, <1>1, <1>2, <1>3

(* The result of any call is a world again.                                  *)
LEMMA RunWorld ==
  ASSUME NEW w, IsWorld(w), NEW c, c.to \in Contracts, NEW x \in Run(w, c)
  PROVE  IsWorld(x)
<1>1. CASE c.to \in {Token, Native}
  <2>1. OnlyIn({c.to}, w, x)
    BY <1>1, RunLocal
  <2> QED  BY Zenon, <2>1 DEF OnlyIn
<1>2. CASE c.to = Wrapper
  BY Zenon, <1>2, WrapperLocal DEF Beside, OnlyIn
<1> QED  BY Zenon, <1>1, <1>2 DEF Contracts

(* What a call sees of the contracts is what they have committed.            *)
LEMMA WorldIsWorld ==
  ASSUME DataShape, NEW n, NEW b, NEW cm
  PROVE  /\ IsWorld(World(n, b, cm)) /\ World(n, b, cm).bal = data.bal
         /\ World(n, b, cm).two = data.two /\ World(n, b, cm).commit = cm
         /\ World(n, b, cm).balances = b /\ World(n, b, cm).native = n
BY Zenon DEF World, IsWorld, DataShape

(* What a simulation leaves: of the contract called nothing, of the others   *)
(* what the call has made of them.                                           *)
LEMMA RevertedIs ==
  ASSUME DataShape, NEW c, c.to \in Contracts, NEW x, IsWorld(x), NEW d, d = Reverted(x, c)
  PROVE  /\ d = [bal |-> d.bal, two |-> d.two] /\ BalShape(d.bal) /\ TwoShape(d.two)
         /\ \A k \in {Token, Native} : d.bal[k] = IF k = c.to THEN data.bal[k] ELSE x.bal[k]
         /\ \A k \in Contracts : d.two[k] = IF k = c.to THEN data.two[k] ELSE x.two[k]
<1> DEFINE b == [k \in {Token, Native} |-> IF k = c.to THEN data.bal[k] ELSE x.bal[k]]
           t == [x.two EXCEPT ![c.to] = data.two[c.to]]
<1>1. d = [bal |-> b, two |-> t]
  BY Zenon DEF Reverted
<1>2. BalShape(b) /\ \A k \in {Token, Native} : b[k] = IF k = c.to THEN data.bal[k] ELSE x.bal[k]
  BY Zenon DEF BalShape
<1>3. TwoShape(t) /\ \A k \in Contracts : t[k] = IF k = c.to THEN data.two[k] ELSE x.two[k]
  BY Zenon DEF IsWorld, TwoShape
<1> HIDE DEF b, t
<1>4. d.bal = b /\ d.two = t
  BY <1>1
<1> QED  BY Zenon, <1>1, <1>2, <1>3, <1>4

(* Data of the right shape that agree are equal.                             *)
LEMMA DataEqual ==
  ASSUME DataShape, NEW d, d = [bal |-> d.bal, two |-> d.two], BalShape(d.bal), TwoShape(d.two),
         \A k \in {Token, Native} : d.bal[k] = data.bal[k],
         \A k \in Contracts : d.two[k] = data.two[k]
  PROVE  d = data
<1>1. d.bal = data.bal
  BY Zenon DEF DataShape, BalShape
<1>2. d.two = data.two
  BY Zenon DEF DataShape, TwoShape
<1> QED  BY Zenon, <1>1, <1>2 DEF DataShape

(* A simulated call of the token or of the NativeWrapper leaves the          *)
(* contracts as they were, because what it changes belongs to the contract   *)
(* called, which is reverted.                                                *)
LEMMA EstimateKeeps ==
  ASSUME DataShape, NEW c, c.to # Wrapper, EstimateGas(c)
  PROVE  data' = data
<1> DEFINE w == World(native, PopulatedFor(c), commit)
<1>1. c.to \in {Token, Native} /\ c.to \in Contracts
  BY Zenon DEF EstimateGas, Contracts
<1>2. ASSUME NEW x \in Run(w, c) PROVE Reverted(x, c) = data
  <2>1. IsWorld(w) /\ w.bal = data.bal /\ w.two = data.two
    BY WorldIsWorld
  <2> HIDE DEF w
  <2>2. OnlyIn({c.to}, w, x)
    BY <1>1, <1>2, <2>1, RunLocal
  <2> DEFINE d == Reverted(x, c)
  <2>3. d = Reverted(x, c) /\ IsWorld(x)
    BY Zenon, <2>2 DEF OnlyIn
  <2> HIDE DEF d
  <2>4. /\ d = [bal |-> d.bal, two |-> d.two] /\ BalShape(d.bal) /\ TwoShape(d.two)
        /\ \A k \in {Token, Native} : d.bal[k] = IF k = c.to THEN data.bal[k] ELSE x.bal[k]
        /\ \A k \in Contracts : d.two[k] = IF k = c.to THEN data.two[k] ELSE x.two[k]
    BY <1>1, <2>3, RevertedIs
  <2>5. /\ \A k \in {Token, Native} : d.bal[k] = data.bal[k]
        /\ \A k \in Contracts : d.two[k] = data.two[k]
    BY Zenon, <2>1, <2>2, <2>4 DEF OnlyIn
  <2> QED  BY Zenon, <2>3, <2>4, <2>5, DataEqual
<1> QED  BY Zenon, <1>2 DEF EstimateGas

(* The shape of what the contracts have committed.                           *)
LEMMA ShapeInductive == DataShape /\ [ContractsNext]_contractsVars => DataShape'
<1> SUFFICES ASSUME DataShape, [ContractsNext]_contractsVars PROVE DataShape'
  OBVIOUS
<1>0. ASSUME data' = data PROVE DataShape'
  BY Zenon, <1>0 DEF DataShape
<1>1. ASSUME NEW c, ProcessTransaction(c) PROVE DataShape'
  <2>1. ASSUME NEW x \in Called(c), data' = [bal |-> x.bal, two |-> x.two] PROVE DataShape'
    <3>1. IsWorld(x)
      BY Zenon, <1>1, <2>1, WorldIsWorld, RunWorld DEF ProcessTransaction, Called
    <3> QED  BY Zenon, <2>1, <3>1 DEF IsWorld, DataShape
  <2> QED  BY Zenon, <1>0, <1>1, <2>1 DEF ProcessTransaction
<1>2. ASSUME NEW c, ProcessProtocolTransaction(c) \/ EstimateProtocol(c) PROVE DataShape'
  BY Zenon, <1>0, <1>2 DEF ProcessProtocolTransaction, EstimateProtocol
<1>3. ASSUME NEW c, EstimateGas(c) PROVE DataShape'
  <2> DEFINE w == World(native, PopulatedFor(c), commit)
  <2>1. ASSUME NEW x \in Run(w, c), data' = Reverted(x, c) PROVE DataShape'
    <3>1. IsWorld(x) /\ c.to \in Contracts
      BY Zenon, <1>3, <2>1, WorldIsWorld, RunWorld DEF EstimateGas
    <3> QED  BY <2>1, <3>1, RevertedIs DEF DataShape
  <2> QED  BY Zenon, <1>0, <1>3, <2>1 DEF EstimateGas
<1>5. CASE Restart
  <2> DEFINE rows == {r \in Contracts \X Accounts : data.two[r[1]][r[2]] # NoBalances}
             kept(keep) == [k \in Contracts |-> [a \in Accounts |-> [b \in Accounts |->
                IF <<k, a>> \in rows /\ keep[<<k, a>>] = b THEN data.two[k][a][b] ELSE NoEntry]]]
             inner == {b \in Accounts : \E r \in rows : data.two[r[1]][r[2]][b] # NoEntry}
  <2>1. PICK keep \in [rows -> inner] :
          /\ \A r \in rows : data.two[r[1]][r[2]][keep[r]] # NoEntry
          /\ data' = [data EXCEPT !.two = kept(keep)]
    BY <1>5, Zenon DEF Restart
  <2>t. TwoShape(kept(keep))
    BY Zenon DEF TwoShape
  <2> HIDE DEF kept
  <2> QED  BY Zenon, <2>1, <2>t DEF DataShape
<1>6. CASE UNCHANGED contractsVars
  BY Zenon, <1>0, <1>6 DEF contractsVars
<1> QED  BY Zenon, <1>1, <1>2, <1>3, <1>5, <1>6 DEF ContractsNext

(* At the start. *)
LEMMA InitShape == ContractsInit => DataShape
BY DEF ContractsInit, DataShape, BalShape, TwoShape

-----------------------------------------------------------------------------
(* The token and its wrapper.                                                *)

(* What the wrapper owes its users.                                          *)
Owed(w) == [u \in Users |-> Amount(w.two[Wrapper][Token][u])]

(* The inductive invariant: the wrapper has allowed no one to spend its      *)
(* tokens, so that they leave it through its own functions alone.            *)
Maps == [Accounts -> [Accounts -> Nat \union {NoEntry}]]
Supplied(w) ==
  /\ w.bal[Token] \in [Accounts -> Nat]
  /\ w.two[Token] \in Maps /\ w.two[Wrapper] \in Maps
  /\ \A b \in Accounts : Amount(w.two[Token][Wrapper][b]) = 0
  /\ SumFunction(w.bal[Token]) = SumFunction(Supply)

(* With it, what the wrapper owes exceeds what it holds by gap at most (by   *)
(* less than nothing, if it holds more).  That a step keeps this for every   *)
(* gap says that it opens none.                                              *)
Tokens(w, gap) == Supplied(w) /\ SumFunction(Owed(w)) <= w.bal[Token][Wrapper] + gap

(* The accounts are finitely many.                                           *)
LEMMA AccountsFinite == IsFiniteSet(Accounts)
<1>1. IsFiniteSet({Token}) /\ IsFiniteSet({Wrapper}) /\ IsFiniteSet({Native})
      /\ IsFiniteSet({Manager}) /\ IsFiniteSet({RdPoS}) /\ IsFiniteSet(Users)
  BY Zenon, FS_Singleton, ContractsAssumption
<1>2. IsFiniteSet({Token} \union {Wrapper})
  BY Zenon, <1>1, FS_Union
<1>3. IsFiniteSet(({Token} \union {Wrapper}) \union {Native})
  BY Zenon, <1>1, <1>2, FS_Union
<1>4. IsFiniteSet({Manager} \union {RdPoS})
  BY Zenon, <1>1, FS_Union
<1>5. ({Token} \union {Wrapper}) \union {Native} = Contracts
  BY Zenon DEF Contracts
<1>6. {Manager} \union {RdPoS} = {Manager, RdPoS}
  BY Zenon
<1>7. IsFiniteSet(Users \union Contracts)
  BY Zenon, <1>1, <1>3, <1>5, FS_Union
<1>8. IsFiniteSet((Users \union Contracts) \union {Manager, RdPoS})
  BY Zenon, <1>4, <1>6, <1>7, FS_Union
<1> QED  BY Zenon, <1>8 DEF Accounts

(* Who is an account.                                                        *)
LEMMA AccountsAre ==
  /\ Token \in Accounts /\ Wrapper \in Accounts /\ Native \in Accounts
  /\ \A u \in Users : u \in Accounts /\ u # Token /\ u # Wrapper /\ u # Native
BY Zenon, ContractsAssumption DEF Accounts, Contracts

(* The sum of a map is the sum over its keys.                                *)
LEMMA SumOver ==
  ASSUME NEW D, NEW f, DOMAIN f = D
  PROVE  SumFunction(f) = SumFunctionOnSet(f, D)
BY Zenon DEF SumFunction

(* It moves n, and keeps the sum.                                            *)
LEMMA MoveKeepsSum ==
  ASSUME NEW f \in [Accounts -> Nat], NEW from \in Accounts, NEW to \in Accounts,
         NEW n \in Nat, ~(f[from] < n), NEW g, g = Move(f, from, to, n)
  PROVE  /\ g \in [Accounts -> Nat]
         /\ SumFunction(g) = SumFunction(f)
         /\ \A a \in Accounts : a # from => g[a] >= f[a]
         /\ g[from] >= f[from] - n
         /\ from # to => g[to] = f[to] + n /\ g[from] = f[from] - n
<1> DEFINE d == [f EXCEPT ![from] = @ - n]
<1>0. g = [d EXCEPT ![to] = @ + n]
  BY Zenon DEF Move
<1>1. f[from] \in Nat /\ f[from] - n \in Nat
  OBVIOUS
<1>2. d \in [Accounts -> Nat] /\ d[from] = f[from] - n
      /\ \A a \in Accounts : a # from => d[a] = f[a]
  BY Zenon, <1>1
<1> HIDE DEF d
<1>3. d[to] \in Nat /\ d[to] + n \in Nat
  BY <1>2
<1>4. g \in [Accounts -> Nat] /\ g[to] = d[to] + n
      /\ \A a \in Accounts : a # to => g[a] = d[a]
  BY Zenon, <1>0, <1>2, <1>3
<1>5. /\ \A a \in Accounts : a # from => g[a] >= f[a]
      /\ g[from] >= f[from] - n
      /\ from # to => g[to] = f[to] + n /\ g[from] = f[from] - n
  BY <1>1, <1>2, <1>4
<1>6. \A a \in Accounts : f[a] \in Nat /\ d[a] \in Nat /\ g[a] \in Nat
  BY Zenon, <1>2, <1>4
<1>7. /\ SumFunctionOnSet(d, Accounts) + f[from] = SumFunctionOnSet(f, Accounts) + d[from]
      /\ SumFunctionOnSet(d, Accounts) \in Nat /\ SumFunctionOnSet(f, Accounts) \in Nat
  <2>1. \A a \in Accounts : a # from => f[a] = d[a]
    BY Zenon, <1>2
  <2> QED  BY SMT, <1>6, <2>1, AccountsFinite, SumUpdate
<1>8. /\ SumFunctionOnSet(g, Accounts) + d[to] = SumFunctionOnSet(d, Accounts) + g[to]
      /\ SumFunctionOnSet(g, Accounts) \in Nat
  <2>1. \A a \in Accounts : a # to => d[a] = g[a]
    BY Zenon, <1>4
  <2> QED  BY SMT, <1>6, <2>1, AccountsFinite, SumUpdate
<1>9. SumFunctionOnSet(g, Accounts) = SumFunctionOnSet(f, Accounts)
  BY SMTT(30), <1>1, <1>2, <1>3, <1>4, <1>7, <1>8
<1>10. SumFunction(g) = SumFunction(f)
  BY Zenon, <1>4, <1>9, SumOver
<1> QED  BY Zenon, <1>4, <1>5, <1>10

(* Writing one entry of a map of maps.                                       *)
LEMMA SetEntry ==
  ASSUME NEW m \in Maps, NEW a \in Accounts, NEW b \in Accounts, NEW n \in Nat,
         NEW r, r = [m EXCEPT ![a][b] = n]
  PROVE  /\ r \in Maps /\ r[a][b] = n
         /\ \A k \in Accounts : k # a => r[k] = m[k]
         /\ \A k \in Accounts : k # b => r[a][k] = m[a][k]
<1> DEFINE row == [m[a] EXCEPT ![b] = n]
<1>0. r = [m EXCEPT ![a] = row]
  BY Zenon
<1>1. m[a] \in [Accounts -> Nat \union {NoEntry}]
  BY Zenon DEF Maps
<1>2. /\ row \in [Accounts -> Nat \union {NoEntry}] /\ row[b] = n
      /\ \A k \in Accounts : k # b => row[k] = m[a][k]
  BY Zenon, <1>1
<1> HIDE DEF row
<1>3. r \in Maps /\ r[a] = row /\ \A k \in Accounts : k # a => r[k] = m[k]
  BY Zenon, <1>0, <1>2 DEF Maps
<1> QED  BY Zenon, <1>2, <1>3

(* What an entry is worth.                                                   *)
LEMMA AmountNat ==
  /\ \A n \in Nat : Amount(n) = n
  /\ \A m \in Maps : \A a, b \in Accounts : Amount(m[a][b]) \in Nat
BY ContractsAssumption DEF Amount, Maps

(* What is owed adds up to a number.                                         *)
LEMMA OwedNat ==
  ASSUME NEW w, w.two[Wrapper] \in Maps
  PROVE  /\ \A u \in Users : Owed(w)[u] \in Nat
         /\ SumFunction(Owed(w)) = SumFunctionOnSet(Owed(w), Users)
         /\ SumFunctionOnSet(Owed(w), Users) \in Nat
<1>1. \A u \in Users : Owed(w)[u] \in Nat
  BY Zenon, AmountNat, AccountsAre DEF Owed
<1>2. DOMAIN Owed(w) = Users
  BY Zenon DEF Owed
<1>3. SumFunction(Owed(w)) = SumFunctionOnSet(Owed(w), Users)
  BY Zenon, <1>2, SumOver
<1>4. IsFiniteSet(Users)
  BY Zenon, ContractsAssumption
<1>5. SumFunctionOnSet(Owed(w), Users) \in Nat
  BY Zenon, <1>1, <1>4, SumNat
<1> QED  BY Zenon, <1>1, <1>3, <1>5

(* A transfer of tokens by someone other than the wrapper.                   *)
LEMMA MoveKeepsTokens ==
  ASSUME NEW w, IsWorld(w), NEW gap \in Int, Tokens(w, gap), NEW from \in Accounts, NEW to \in Accounts, NEW n \in Nat,
         from # Wrapper \/ n = 0, NEW x \in MoveTokens(w, Token, from, to, n)
  PROVE  Tokens(x, gap)
<1> DEFINE f == w.bal[Token]
           g == Move(f, from, to, n)
<1>1. ~(f[from] < n) /\ x.bal[Token] = g /\ x.two = w.two
  <2>1. Moves(w, Token, from, to, n, x)
    BY Zenon, MoveTokensIs
  <2> QED  BY Zenon, <2>1 DEF Moves, SetsBal
<1>2. f \in [Accounts -> Nat] /\ g = Move(f, from, to, n)
  BY Zenon DEF Tokens, Supplied
<1> HIDE DEF g, f
<1>3. /\ g \in [Accounts -> Nat]
      /\ SumFunction(g) = SumFunction(f)
      /\ \A a \in Accounts : a # from => g[a] >= f[a]
      /\ g[from] >= f[from] - n
  BY SMT, <1>1, <1>2, MoveKeepsSum
<1>4. g[Wrapper] >= f[Wrapper] /\ g[Wrapper] \in Nat /\ f[Wrapper] \in Nat
  BY <1>2, <1>3, AccountsAre
<1>5. SumFunction(Owed(x)) <= g[Wrapper] + gap
  <2>1. Owed(x) = Owed(w)
    BY Zenon, <1>1 DEF Owed
  <2>2. SumFunction(Owed(w)) <= f[Wrapper] + gap
    BY Zenon DEF Tokens, Supplied, f
  <2>3. SumFunction(Owed(w)) \in Nat
    BY Zenon, OwedNat DEF Tokens, Supplied
  <2> QED  BY <2>1, <2>2, <2>3, <1>4
<1>6. SumFunction(g) = SumFunction(Supply)
  BY Zenon, <1>3 DEF Tokens, Supplied, f
<1> QED  BY Zenon, <1>1, <1>3, <1>5, <1>6 DEF Tokens, Supplied

(* approve and transferFrom write an allowance.                              *)
LEMMA AllowKeepsTokens ==
  ASSUME NEW w, IsWorld(w), NEW gap \in Int, Tokens(w, gap), NEW a \in Accounts, NEW b \in Accounts, NEW n \in Nat,
         a # Wrapper \/ n = 0, NEW x, x = WithEntry(w, Token, a, b, n)
  PROVE  Tokens(x, gap) /\ IsWorld(x) /\ x.commit = w.commit /\ x.bal = w.bal
         /\ x.two[Wrapper] = w.two[Wrapper]
<1> DEFINE m == w.two[Token]
           r == [m EXCEPT ![a][b] = n]
<1>1. Enters(w, Token, a, b, n, x) /\ Token \in Contracts /\ Wrapper \in Contracts
  BY Zenon, WithEntryIs DEF Contracts
<1>2. m \in Maps
  BY Zenon DEF Tokens, Supplied
<1>3. /\ r \in Maps /\ r[a][b] = n
      /\ \A k \in Accounts : k # a => r[k] = m[k]
      /\ \A k \in Accounts : k # b => r[a][k] = m[a][k]
  BY SMTT(30), <1>2, SetEntry
<1>4. /\ IsWorld(x) /\ x.bal = w.bal /\ x.two[Token] = r /\ x.commit = w.commit
      /\ Beside({Token}, w, x)
  BY Zenon, <1>1 DEF Enters, SetsTwo, Beside, OnlyIn
<1>5. x.two[Wrapper] = w.two[Wrapper]
  BY Zenon, <1>1, <1>4, ContractsAssumption DEF Beside, OnlyIn
<1> HIDE DEF r
<1>7. \A k \in Accounts : Amount(r[Wrapper][k]) = 0
  <2> TAKE k \in Accounts
  <2>1. Amount(m[Wrapper][k]) = 0
    BY Zenon DEF Tokens, Supplied
  <2>2. CASE a = Wrapper /\ k = b
    BY Zenon, <2>2, <1>3, AmountNat
  <2>3. CASE ~(a = Wrapper /\ k = b)
    BY Zenon, <2>1, <2>3, <1>3, AccountsAre
  <2> QED  BY Zenon, <2>2, <2>3
<1>8. Owed(x) = Owed(w)
  BY Zenon, <1>5 DEF Owed
<1> QED  BY Zenon, <1>3, <1>4, <1>5, <1>7, <1>8 DEF Tokens, Supplied

(* transferFrom: from the wrapper nothing, since it has allowed nothing.     *)
LEMMA TransferFromKeepsTokens ==
  ASSUME NEW w, IsWorld(w), NEW gap \in Int, Tokens(w, gap), NEW caller \in Accounts, NEW from \in Accounts,
         NEW to \in Accounts, NEW n \in Nat,
         NEW x \in TransferFrom(w, Token, caller, from, to, n)
  PROVE  /\ Tokens(x, gap) /\ IsWorld(x) /\ x.two[Wrapper] = w.two[Wrapper]
         /\ from # to => x.bal[Token][to] = w.bal[Token][to] + n
<1> DEFINE allowance == Amount(w.two[Token][from][caller])
           y == [w EXCEPT !.two[Token][from][caller] = allowance - n]
<1>0. Spends(w, Token, caller, from, to, n, x)
  BY Zenon, TransferFromIs
<1>1. ~(allowance < n) /\ x \in MoveTokens(y, Token, from, to, n)
  BY Zenon DEF TransferFrom, Throw
<1>2. allowance \in Nat
  BY Zenon, AmountNat DEF Tokens, Supplied
<1>3. from = Wrapper => allowance = 0
  BY Zenon DEF Tokens, Supplied
<1> HIDE DEF allowance
<1>4. allowance - n \in Nat /\ (from # Wrapper \/ (n = 0 /\ allowance - n = 0))
  BY <1>1, <1>2, <1>3
<1> DEFINE left == allowance - n
<1>y. /\ y = WithEntry(w, Token, from, caller, left)
      /\ left \in Nat /\ (from # Wrapper \/ left = 0)
  BY Zenon, <1>4 DEF WithEntry
<1> HIDE DEF y, left
<1>5. Tokens(y, gap) /\ IsWorld(y) /\ y.bal = w.bal /\ y.two[Wrapper] = w.two[Wrapper]
  BY SMT, <1>y, AllowKeepsTokens
<1>6. from # Wrapper \/ n = 0
  BY Zenon, <1>4
<1>7. Tokens(x, gap)
  BY Zenon, <1>1, <1>5, <1>6, MoveKeepsTokens
<1>8. /\ ~(w.bal[Token][from] < n)
      /\ x.bal[Token] = Move(w.bal[Token], from, to, n)
  BY Zenon, <1>0 DEF Spends
<1>9. IsWorld(x) /\ x.two[Wrapper] = w.two[Wrapper]
  BY Zenon, <1>0, ContractsAssumption DEF Spends, Beside, OnlyIn, Contracts
<1>10. from # to => x.bal[Token][to] = w.bal[Token][to] + n
  <2> DEFINE f == w.bal[Token]
             g == x.bal[Token]
  <2>1. f \in [Accounts -> Nat]
    BY Zenon DEF Tokens, Supplied
  <2>2. ~(f[from] < n) /\ g = Move(f, from, to, n)
    BY Zenon, <1>8
  <2> HIDE DEF f, g
  <2>3. from # to => g[to] = f[to] + n
    BY SMT, <2>1, <2>2, MoveKeepsSum
  <2> QED  BY Zenon, <2>3 DEF f, g
<1> QED  BY Zenon, <1>7, <1>9, <1>10

(* The wrapper changes what it owes a user.                                  *)
LEMMA OweChanges ==
  ASSUME NEW w, IsWorld(w), w.two[Wrapper] \in Maps, NEW u \in Users, NEW n \in Nat,
         NEW x, x = WithEntry(w, Wrapper, Token, u, n)
  PROVE  /\ IsWorld(x) /\ x.bal = w.bal /\ x.commit = w.commit
         /\ x.two[Token] = w.two[Token] /\ x.two[Wrapper] \in Maps
         /\ x.two[Wrapper][Token][u] = n
         /\ \A k \in Accounts : k # u => x.two[Wrapper][Token][k] = w.two[Wrapper][Token][k]
<1> DEFINE m == w.two[Wrapper]
           r == [m EXCEPT ![Token][u] = n]
<1>1. Enters(w, Wrapper, Token, u, n, x) /\ Token \in Contracts /\ Wrapper \in Contracts
  BY Zenon, WithEntryIs DEF Contracts
<1>2. m \in Maps /\ Token \in Accounts /\ u \in Accounts
  BY Zenon, AccountsAre
<1>3. /\ r \in Maps /\ r[Token][u] = n
      /\ \A k \in Accounts : k # u => r[Token][k] = m[Token][k]
  BY SMTT(30), <1>2, SetEntry
<1>4. /\ IsWorld(x) /\ x.bal = w.bal /\ x.two[Wrapper] = r /\ x.commit = w.commit
      /\ Beside({Wrapper}, w, x)
  BY Zenon, <1>1 DEF Enters, SetsTwo, Beside, OnlyIn
<1>5. x.two[Token] = w.two[Token]
  BY Zenon, <1>1, <1>4, ContractsAssumption DEF Beside, OnlyIn
<1> HIDE DEF r
<1> QED  BY Zenon, <1>3, <1>4, <1>5

(* What it owes altogether changes as much.                                  *)
LEMMA OwedSum ==
  ASSUME NEW w, w.two[Wrapper] \in Maps, NEW x, x.two[Wrapper] \in Maps, NEW u \in Users,
         \A k \in Users : k # u => Owed(x)[k] = Owed(w)[k], NEW p, NEW q,
         p = SumFunction(Owed(w)), q = SumFunction(Owed(x))
  PROVE  q + Owed(w)[u] = p + Owed(x)[u] /\ p \in Nat /\ q \in Nat
<1> DEFINE f == Owed(w)
           g == Owed(x)
<1>1. /\ \A k \in Users : f[k] \in Nat
      /\ p = SumFunctionOnSet(f, Users)
  BY Zenon, OwedNat
<1>2. /\ \A k \in Users : g[k] \in Nat
      /\ q = SumFunctionOnSet(g, Users)
  BY Zenon, OwedNat
<1>3. IsFiniteSet(Users)
  BY Zenon, ContractsAssumption
<1> HIDE DEF f, g
<1>4. \A k \in Users : k # u => f[k] = g[k]
  BY Zenon DEF f, g
<1>5. SumFunctionOnSet(g, Users) + f[u] = SumFunctionOnSet(f, Users) + g[u]
      /\ SumFunctionOnSet(f, Users) \in Nat /\ SumFunctionOnSet(g, Users) \in Nat
  BY SMTT(30), <1>1, <1>2, <1>3, <1>4, SumUpdate
<1>6. q + f[u] = p + g[u] /\ p \in Nat /\ q \in Nat
  BY Zenon, <1>1, <1>2, <1>5
<1> QED  BY Zenon, <1>6 DEF f, g

(* transferTo and withdraw of the wrapper, in a transaction: it pays out     *)
(* what it no longer owes.                                                   *)
LEMMA TransferToKeepsTokens ==
  ASSUME NEW w, IsWorld(w), NEW gap \in Int, Tokens(w, gap), w.commit, NEW u \in Users, NEW to \in Accounts,
         NEW n \in Nat, NEW x \in TransferTo(w, u, to, n)
  PROVE  Tokens(x, gap)
<1> DEFINE old == w.two[Wrapper][Token][u]
           d == [w EXCEPT !.two[Wrapper][Token][u] = old - n]
           f == w.bal[Token]
           g == x.bal[Token]
<1>1. ~(Amount(old) <= n) /\ x \in Nested(d, MoveTokens(d, Token, Wrapper, to, n))
  BY Zenon DEF TransferTo, Throw, Transfer
<1>2. w.two[Wrapper] \in Maps /\ Amount(old) \in Nat
  BY Zenon, AmountNat, AccountsAre DEF Tokens, Supplied
<1>3. Amount(old) = old /\ old - n \in Nat
  BY <1>1, <1>2 DEF Amount
<1> DEFINE left == old - n
           p == SumFunction(Owed(w))
           q == SumFunction(Owed(d))
<1>d. d = WithEntry(w, Wrapper, Token, u, left) /\ left \in Nat
  BY Zenon, <1>3 DEF WithEntry
<1> HIDE DEF d, left
<1>4. /\ IsWorld(d) /\ d.bal = w.bal /\ d.commit = w.commit
      /\ d.two[Token] = w.two[Token] /\ d.two[Wrapper] \in Maps
      /\ Owed(d)[u] = left /\ \A k \in Users : k # u => Owed(d)[k] = Owed(w)[k]
  <2>0. d.commit = w.commit
    BY Zenon, <1>2, <1>d, OweChanges
  <2>1. /\ IsWorld(d) /\ d.bal = w.bal
        /\ d.two[Token] = w.two[Token] /\ d.two[Wrapper] \in Maps
    BY SMTT(30), <1>2, <1>d, OweChanges
  <2>2. d.two[Wrapper][Token][u] = left
    BY SMTT(30), <1>2, <1>d, OweChanges
  <2>3. \A k \in Accounts : k # u => d.two[Wrapper][Token][k] = w.two[Wrapper][Token][k]
    BY SMTT(30), <1>2, <1>d, OweChanges
  <2> QED  BY Zenon, <1>d, <2>0, <2>1, <2>2, <2>3, AmountNat, AccountsAre DEF Owed
<1>q. q + Owed(w)[u] = p + Owed(d)[u] /\ p \in Nat /\ q \in Nat
  <2>1. p = SumFunction(Owed(w)) /\ q = SumFunction(Owed(d))
    OBVIOUS
  <2> HIDE DEF p, q
  <2> QED  BY SMTT(30), <1>2, <1>4, <2>1, OwedSum
<1>o. Owed(w)[u] = old
  BY Zenon, <1>3 DEF Owed
<1>5. x \in MoveTokens(d, Token, Wrapper, to, n)
  BY Zenon, <1>1, <1>4 DEF Nested
<1>6. ~(f[Wrapper] < n) /\ g = Move(f, Wrapper, to, n) /\ x.two = d.two
  <2>1. Moves(d, Token, Wrapper, to, n, x)
    BY Zenon, <1>4, <1>5, MoveTokensIs
  <2> QED  BY Zenon, <1>4, <2>1 DEF Moves, SetsBal
<1>7. f \in [Accounts -> Nat] /\ Wrapper \in Accounts
  BY Zenon, AccountsAre DEF Tokens, Supplied
<1> HIDE DEF f, g
<1>8. /\ g \in [Accounts -> Nat]
      /\ SumFunction(g) = SumFunction(f)
      /\ g[Wrapper] >= f[Wrapper] - n
  BY SMT, <1>6, <1>7, MoveKeepsSum
<1>9. SumFunction(Owed(x)) <= g[Wrapper] + gap
  <2>1. Owed(x) = Owed(d)
    BY Zenon, <1>6 DEF Owed
  <2>2. p <= f[Wrapper] + gap
    BY Zenon DEF Tokens, Supplied, f
  <2>4. g[Wrapper] \in Nat /\ f[Wrapper] \in Nat /\ old \in Nat
    BY Zenon, <1>2, <1>3, <1>7, <1>8
  <2>5. q + old = p + left
    BY Zenon, <1>q, <1>o, <1>4
  <2> HIDE DEF p, q, old
  <2>6. q <= g[Wrapper] + gap
    BY SMTT(30), <1>8, <1>q, <2>2, <2>4, <2>5 DEF left
  <2> QED  BY Zenon, <2>1, <2>6 DEF q
<1> QED  BY Zenon, <1>4, <1>6, <1>8, <1>9 DEF Tokens, Supplied, f, g

(* deposit of the wrapper, in a transaction: it owes what it has received.   *)
LEMMA DepositKeepsTokens ==
  ASSUME NEW w, IsWorld(w), NEW gap \in Int, Tokens(w, gap), w.commit, NEW u \in Users, NEW n \in Nat,
         NEW x \in Deposit(w, u, n)
  PROVE  Tokens(x, gap)
<1>1. PICK y \in TransferFrom(w, Token, Wrapper, u, Wrapper, n) :
        x = [y EXCEPT !.two[Wrapper][Token][u] = Amount(y.two[Wrapper][Token][u]) + n]
  BY Zenon DEF Deposit, Nested
<1>2. u \in Accounts /\ u # Wrapper /\ Wrapper \in Accounts
  BY Zenon, AccountsAre
<1>3. /\ Tokens(y, gap) /\ IsWorld(y) /\ y.two[Wrapper] = w.two[Wrapper]
      /\ y.bal[Token][Wrapper] = w.bal[Token][Wrapper] + n
  BY SMT, <1>2, TransferFromKeepsTokens
<1> DEFINE had == Amount(y.two[Wrapper][Token][u])
<1>4. had \in Nat /\ y.two[Wrapper] \in Maps
  BY Zenon, <1>2, <1>3, AmountNat, AccountsAre DEF Tokens, Supplied
<1> DEFINE now == had + n
<1>n. now \in Nat
  BY <1>4
<1>5. now \in Nat /\ x = WithEntry(y, Wrapper, Token, u, now)
  BY Zenon, <1>1, <1>n DEF WithEntry
<1> HIDE DEF now
<1>6. /\ x.bal = y.bal /\ x.two[Token] = y.two[Token] /\ x.two[Wrapper] \in Maps
      /\ Owed(x)[u] = now /\ \A k \in Users : k # u => Owed(x)[k] = Owed(y)[k]
  <2>0. /\ IsWorld(y) /\ y.two[Wrapper] \in Maps
        /\ now \in Nat /\ x = WithEntry(y, Wrapper, Token, u, now)
    BY Zenon, <1>3, <1>4, <1>5
  <2>1. x.bal = y.bal /\ x.two[Token] = y.two[Token] /\ x.two[Wrapper] \in Maps
    BY SMTT(30), <2>0, OweChanges
  <2>2. x.two[Wrapper][Token][u] = now
    BY SMTT(30), <2>0, OweChanges
  <2>3. \A k \in Accounts : k # u => x.two[Wrapper][Token][k] = y.two[Wrapper][Token][k]
    BY SMTT(30), <2>0, OweChanges
  <2> QED  BY Zenon, <1>5, <2>1, <2>2, <2>3, AmountNat, AccountsAre DEF Owed
<1> DEFINE p == SumFunction(Owed(y))
           q == SumFunction(Owed(x))
<1>7. q + Owed(y)[u] = p + Owed(x)[u] /\ p \in Nat /\ q \in Nat
  <2>1. p = SumFunction(Owed(y)) /\ q = SumFunction(Owed(x))
    OBVIOUS
  <2> HIDE DEF p, q
  <2> QED  BY SMTT(30), <1>4, <1>6, <2>1, OwedSum
<1>8. q + had = p + now
  <2>1. Owed(y)[u] = had
    BY Zenon DEF Owed
  <2> QED  BY Zenon, <1>6, <1>7, <2>1
<1> HIDE DEF had
<1>9. q <= x.bal[Token][Wrapper] + gap
  <2>1. Owed(y) = Owed(w)
    BY Zenon, <1>3 DEF Owed
  <2>2. p <= w.bal[Token][Wrapper] + gap
    BY Zenon, <2>1 DEF Tokens, Supplied
  <2>3. w.bal[Token][Wrapper] \in Nat
    BY Zenon, <1>2 DEF Tokens, Supplied
  <2> HIDE DEF p, q
  <2>4. q <= (w.bal[Token][Wrapper] + n) + gap
    BY SMTT(30), <1>4, <1>7, <1>8, <2>2, <2>3 DEF now
  <2> QED  BY Zenon, <1>3, <1>6, <2>4
<1> QED  BY Zenon, <1>3, <1>6, <1>9 DEF Tokens, Supplied

(* Every call in a transaction keeps the tokens.                             *)
LEMMA RunKeepsTokens ==
  ASSUME NEW w, IsWorld(w), NEW gap \in Int, Tokens(w, gap), w.commit, NEW c \in TxCalls \union SimulatedCalls,
         c.to \in Contracts,
         NEW x \in Run(w, c)
  PROVE  Tokens(x, gap)
<1>0. /\ c.who \in Users /\ c.who \in Accounts /\ c.who # Wrapper
      /\ c.other \in Accounts /\ c.n \in Nat
  BY Zenon, ContractsAssumption, AccountsAre
<1>1. CASE c.to = Token
  <2>1. CASE c.fn = "transfer"
    <3>1. x \in MoveTokens(w, Token, c.who, c.other, c.n)
      BY Zenon, <1>1, <2>1 DEF Run, Transfer
    <3> QED  BY Zenon, <1>0, <3>1, MoveKeepsTokens
  <2>2. CASE c.fn = "approve"
    <3>1. x = WithEntry(w, Token, c.who, c.other, c.n)
      BY Zenon, <1>1, <2>2 DEF Run, Approve, WithEntry
    <3> QED  BY Zenon, <1>0, <3>1, AllowKeepsTokens
  <2>3. CASE c.fn = "transferFrom"
    <3>1. x \in TransferFrom(w, Token, c.who, c.other, c.who, c.n)
      BY Zenon, <1>1, <2>3 DEF Run
    <3> QED  BY Zenon, <1>0, <3>1, TransferFromKeepsTokens
  <2>4. c.fn \in {"transfer", "approve", "transferFrom"}
    BY Zenon, <1>1, ContractsAssumption DEF Run, Throw
  <2> QED  BY Zenon, <2>1, <2>2, <2>3, <2>4
<1>2. CASE c.to = Wrapper
  <2>1. \/ x \in Deposit(w, c.who, c.n)
        \/ x \in TransferTo(w, c.who, c.who, c.n)
        \/ x \in TransferTo(w, c.who, c.other, c.n)
    BY Zenon, <1>2, ContractsAssumption DEF Run, Throw
  <2>2. CASE x \in Deposit(w, c.who, c.n)
    BY Zenon, <1>0, <2>2, DepositKeepsTokens
  <2>3. CASE x \in TransferTo(w, c.who, c.who, c.n)
    BY Zenon, <1>0, <2>3, TransferToKeepsTokens
  <2>4. CASE x \in TransferTo(w, c.who, c.other, c.n)
    BY Zenon, <1>0, <2>4, TransferToKeepsTokens
  <2> QED  BY Zenon, <2>1, <2>2, <2>3, <2>4
<1>3. CASE c.to = Native
  <2>1. OnlyIn({Native}, w, x)
    BY SMT, <1>3, RunLocal
  <2>2. x.bal[Token] = w.bal[Token] /\ x.two[Token] = w.two[Token] /\ x.two[Wrapper] = w.two[Wrapper]
    BY Zenon, <2>1, ContractsAssumption DEF OnlyIn, Contracts
  <2>3. Owed(x) = Owed(w)
    BY Zenon, <2>2 DEF Owed
  <2> QED  BY Zenon, <2>2, <2>3 DEF Tokens, Supplied
<1> QED  BY Zenon, <1>1, <1>2, <1>3 DEF Contracts

(* At the start the users have the supply.                                   *)
LEMMA InitTokens == ContractsInit => Supplied(data)
<1> SUFFICES ASSUME ContractsInit PROVE Supplied(data)
  OBVIOUS
<1> DEFINE f == data.bal[Token]
<1>0. \A b \in Accounts : Amount(NoBalances[b]) = 0
  BY Zenon DEF NoBalances, Amount
<1>1. /\ f = [a \in Accounts |-> IF a \in Users THEN Supply[a] ELSE 0]
      /\ data.two[Token] = [a \in Accounts |-> NoBalances]
      /\ data.two[Wrapper] = [a \in Accounts |-> NoBalances]
  <2>1. f = [a \in Accounts |-> IF Token = Token /\ a \in Users THEN Supply[a] ELSE 0]
    BY Zenon DEF ContractsInit
  <2>2. f = [a \in Accounts |-> IF a \in Users THEN Supply[a] ELSE 0]
    BY Zenon, <2>1
  <2>3. /\ data.two[Token] = [a \in Accounts |-> NoBalances]
        /\ data.two[Wrapper] = [a \in Accounts |-> NoBalances]
    BY Zenon DEF ContractsInit, Contracts
  <2> QED  BY Zenon, <2>2, <2>3
<1>2. data.two[Token] \in Maps /\ data.two[Wrapper] \in Maps
  <2>1. NoBalances \in [Accounts -> Nat \union {NoEntry}]
    BY Zenon DEF NoBalances
  <2> QED  BY Zenon, <1>1, <2>1 DEF Maps
<1>3. f \in [Accounts -> Nat]
  BY <1>1, ContractsAssumption
<1>4. \A b \in Accounts : Amount(data.two[Token][Wrapper][b]) = 0
  BY Zenon, <1>1, <1>0, AccountsAre
<1>5. SumFunction(f) = SumFunction(Supply)
  <2>1. DOMAIN f = Accounts /\ DOMAIN Supply = Users
    BY Zenon, <1>1, ContractsAssumption
  <2>2. SumFunction(f) = SumFunctionOnSet(f, Accounts) /\ SumFunction(Supply) = SumFunctionOnSet(Supply, Users)
    BY Zenon, <2>1, SumOver
  <2>3. \A a \in Users : f[a] = Supply[a] /\ a \in Accounts
    BY Zenon, <1>1, AccountsAre
  <2>4. \A a \in Accounts \ Users : f[a] = 0
    BY Zenon, <1>1
  <2>5. \A a \in Accounts : f[a] \in Nat
    BY Zenon, <1>3
  <2>6. IsFiniteSet(Accounts) /\ Users \subseteq Accounts /\ IsFiniteSet(Users)
    BY Zenon, AccountsFinite, AccountsAre, ContractsAssumption
  <2> HIDE DEF f
  <2>7. SumFunctionOnSet(f, Accounts) = SumFunctionOnSet(f, Users)
    BY SMT, <2>4, <2>5, <2>6, SumZeros
  <2>8. SumFunctionOnSet(f, Users) = SumFunctionOnSet(Supply, Users)
    BY SMT, <2>3, <2>5, <2>6, SumSame
  <2> QED  BY Zenon, <2>2, <2>7, <2>8
<1> QED  BY Zenon, <1>2, <1>3, <1>4, <1>5 DEF Supplied

(* A restart forgets entries and changes none: the wrapper owes no more.     *)
LEMMA RestartKeepsTokens ==
  ASSUME DataShape, NEW gap \in Int, Tokens(data, gap), Restart
  PROVE  Tokens(data', gap)
<1> DEFINE rows == {r \in Contracts \X Accounts : data.two[r[1]][r[2]] # NoBalances}
           kept(keep) == [k \in Contracts |-> [a \in Accounts |-> [b \in Accounts |->
              IF <<k, a>> \in rows /\ keep[<<k, a>>] = b THEN data.two[k][a][b] ELSE NoEntry]]]
           inner == {b \in Accounts : \E r \in rows : data.two[r[1]][r[2]][b] # NoEntry}
           d == data'
<1>1. PICK keep \in [rows -> inner] : data' = [data EXCEPT !.two = kept(keep)]
  BY Zenon DEF Restart
<1>2. \A k \in Contracts :
        /\ kept(keep)[k] = [a \in Accounts |-> kept(keep)[k][a]]
        /\ \A a \in Accounts : kept(keep)[k][a] = [b \in Accounts |-> kept(keep)[k][a][b]]
  BY Zenon
<1>3. \A k \in Contracts : \A a, b \in Accounts : kept(keep)[k][a][b] \in {data.two[k][a][b], NoEntry}
  BY Zenon
<1> HIDE DEF kept, rows
<1>4. d.bal = data.bal /\ d.two = kept(keep)
  BY Zenon, <1>1 DEF DataShape
<1>5. ASSUME NEW k \in Contracts, data.two[k] \in Maps
      PROVE  d.two[k] \in Maps
  <2>0. \A a, b \in Accounts : data.two[k][a][b] \in Nat \union {NoEntry}
    BY Zenon, <1>5 DEF Maps
  <2>1. \A a, b \in Accounts : kept(keep)[k][a][b] \in Nat \union {NoEntry}
    <3> TAKE a, b \in Accounts
    <3>1. kept(keep)[k][a][b] = data.two[k][a][b] \/ kept(keep)[k][a][b] = NoEntry
      BY Zenon, <1>3
    <3>2. data.two[k][a][b] \in Nat \union {NoEntry} /\ NoEntry \in Nat \union {NoEntry}
      BY Zenon, <2>0
    <3> QED  BY Zenon, <3>1, <3>2
  <2>2. ASSUME NEW a \in Accounts PROVE kept(keep)[k][a] \in [Accounts -> Nat \union {NoEntry}]
    <3>1. kept(keep)[k][a] = [b \in Accounts |-> kept(keep)[k][a][b]]
      BY Zenon, <1>2
    <3>2. \A b \in Accounts : kept(keep)[k][a][b] \in Nat \union {NoEntry}
      BY Zenon, <2>1
    <3> QED  BY Zenon, <3>1, <3>2
  <2>3. kept(keep)[k] \in Maps
    <3>1. kept(keep)[k] = [a \in Accounts |-> kept(keep)[k][a]]
      BY Zenon, <1>2
    <3> QED  BY Zenon, <2>2, <3>1 DEF Maps
  <2> QED  BY Zenon, <1>4, <2>3
<1>6. ASSUME NEW k \in Contracts, data.two[k] \in Maps, NEW a \in Accounts, NEW b \in Accounts
      PROVE  /\ Amount(d.two[k][a][b]) \in Nat /\ Amount(data.two[k][a][b]) \in Nat
             /\ Amount(d.two[k][a][b]) <= Amount(data.two[k][a][b])
  <2>0. d.two[k] \in Maps
    BY Zenon, <1>5, <1>6
  <2>1. Amount(d.two[k][a][b]) \in Nat /\ Amount(data.two[k][a][b]) \in Nat
    BY Zenon, <1>6, <2>0, AmountNat
  <2>2. d.two[k][a][b] = data.two[k][a][b] \/ d.two[k][a][b] = NoEntry
    BY ZenonT(30), <1>3, <1>4
  <2> HIDE DEF d
  <2>3. Amount(d.two[k][a][b]) <= Amount(data.two[k][a][b])
    BY <2>1, <2>2 DEF Amount
  <2> QED  BY Zenon, <2>1, <2>3
<1>7. Token \in Contracts /\ Wrapper \in Contracts /\ data.two[Token] \in Maps /\ data.two[Wrapper] \in Maps
  BY Zenon DEF Contracts, Tokens, Supplied
<1>8. d.two[Token] \in Maps /\ d.two[Wrapper] \in Maps
  BY Zenon, <1>5, <1>7
<1> HIDE DEF d
<1>9. \A b \in Accounts : Amount(d.two[Token][Wrapper][b]) = 0
  <2> TAKE b \in Accounts
  <2>1. /\ Amount(d.two[Token][Wrapper][b]) \in Nat
        /\ Amount(d.two[Token][Wrapper][b]) <= Amount(data.two[Token][Wrapper][b])
    BY Zenon, <1>6, <1>7, AccountsAre
  <2>2. Amount(data.two[Token][Wrapper][b]) = 0
    BY Zenon DEF Tokens, Supplied
  <2> QED  BY <2>1, <2>2
<1>10. SumFunction(Owed(d)) <= d.bal[Token][Wrapper] + gap
  <2> DEFINE f == Owed(d)
             g == Owed(data)
  <2>1. /\ \A u \in Users : f[u] \in Nat
        /\ SumFunction(f) = SumFunctionOnSet(f, Users)
        /\ SumFunctionOnSet(f, Users) \in Nat
    BY Zenon, <1>8, OwedNat
  <2>2. /\ \A u \in Users : g[u] \in Nat
        /\ SumFunction(g) = SumFunctionOnSet(g, Users)
        /\ SumFunctionOnSet(g, Users) \in Nat
    BY Zenon, <1>7, OwedNat
  <2>3. \A u \in Users : f[u] <= g[u]
    BY Zenon, <1>6, <1>7, AccountsAre DEF Owed
  <2>4. SumFunction(g) <= data.bal[Token][Wrapper] + gap /\ data.bal[Token][Wrapper] \in Nat
    BY Zenon, AccountsAre DEF Tokens, Supplied
  <2>5. IsFiniteSet(Users)
    BY Zenon, ContractsAssumption
  <2> HIDE DEF f, g
  <2>6. SumFunctionOnSet(f, Users) <= SumFunctionOnSet(g, Users)
    BY SMTT(30), <2>1, <2>2, <2>3, <2>5, SumMonotone
  <2>7. SumFunction(f) <= data.bal[Token][Wrapper] + gap
    BY <2>1, <2>2, <2>4, <2>6
  <2> QED  BY Zenon, <1>4, <2>7 DEF f
<1>11. Tokens(d, gap)
  BY Zenon, <1>4, <1>8, <1>9, <1>10 DEF Tokens, Supplied
<1> QED  BY Zenon, <1>11 DEF d

(* Where the gap is, and that it is nowhere else.                            *)
LEMMA GapOf ==
  ASSUME NEW w, Supplied(w)
  PROVE  /\ SumFunction(Owed(w)) \in Nat /\ w.bal[Token][Wrapper] \in Nat
         /\ SumFunction(Owed(w)) - w.bal[Token][Wrapper] \in Int
         /\ Tokens(w, SumFunction(Owed(w)) - w.bal[Token][Wrapper])
<1>1. SumFunction(Owed(w)) \in Nat /\ w.bal[Token][Wrapper] \in Nat
  BY Zenon, OwedNat, AccountsAre DEF Supplied
<1> QED  BY <1>1 DEF Tokens

(* A transaction opens no gap.                                               *)
LEMMA TransactionKeepsTokens ==
  ASSUME DataShape, NEW gap \in Int, Tokens(data, gap), NEW c \in TxCalls, ProcessTransaction(c)
  PROVE  Tokens(data', gap)
<1> DEFINE w == World(Credited(c), balances, TRUE)
<1>1. IsWorld(w) /\ w.bal = data.bal /\ w.two = data.two /\ w.commit = TRUE
  <2>1. w.bal = data.bal /\ w.two = data.two /\ w.commit = TRUE
    BY Zenon DEF World
  <2> QED  BY Zenon, <2>1 DEF World, IsWorld, DataShape
<1>2. c.to \in Contracts
  BY Zenon DEF ProcessTransaction
<1>3. UNCHANGED data \/ \E x \in Run(w, c) : data' = [bal |-> x.bal, two |-> x.two]
  BY Zenon DEF ProcessTransaction, Called
<1> HIDE DEF w
<1>4. Tokens(w, gap)
  BY Zenon, <1>1 DEF Tokens, Supplied, Owed
<1>5. ASSUME NEW x \in Run(w, c), data' = [bal |-> x.bal, two |-> x.two] PROVE Tokens(data', gap)
  <2>1. Tokens(x, gap)
    BY Zenon, <1>1, <1>2, <1>4, RunKeepsTokens
  <2>2. data'.bal = x.bal /\ data'.two = x.two
    BY Zenon, <1>5
  <2> QED  BY Zenon, <2>1, <2>2 DEF Tokens, Supplied, Owed
<1> QED  BY Zenon, <1>3, <1>5

(* A simulation keeps the supply: of the token it leaves what the nested     *)
(* call has made of it, or what it was.                                      *)
LEMMA EstimateKeepsSupply ==
  ASSUME DataShape, Supplied(data), NEW c \in SimulatedCalls, EstimateGas(c)
  PROVE  Supplied(data')
<1> DEFINE w == World(native, PopulatedFor(c), commit)
           gap == SumFunction(Owed(data)) - data.bal[Token][Wrapper]
<1>1. CASE c.to # Wrapper
  BY Zenon, <1>1, EstimateKeeps
<1>2. CASE c.to = Wrapper
  <2>1. IsWorld(w) /\ w.bal = data.bal /\ w.two = data.two /\ w.commit = commit
    BY WorldIsWorld
  <2>2. UNCHANGED data \/ \E x \in Run(w, c) : data' = Reverted(x, c)
    BY Zenon DEF EstimateGas
  <2>3. gap \in Int /\ Tokens(data, gap)
    BY Zenon, GapOf
  <2> HIDE DEF w, gap
  <2>4. Tokens(w, gap)
    BY Zenon, <2>1, <2>3 DEF Tokens, Supplied, Owed
  <2>5. ASSUME NEW x \in Run(w, c), data' = Reverted(x, c) PROVE Supplied(data')
    <3>1. Wrapper \in Contracts /\ Token \in Contracts /\ Token # Wrapper
      BY Zenon, ContractsAssumption DEF Contracts
    <3>2. Beside({Token, Wrapper}, w, x) /\ (~w.commit => TokenOf(w, x))
      BY Zenon, <1>2, <2>1, WrapperLocal
    <3>3. IsWorld(x)
      BY Zenon, <3>2 DEF Beside, OnlyIn
    <3>4. /\ \A k \in {Token, Native} : data'.bal[k] = IF k = c.to THEN data.bal[k] ELSE x.bal[k]
          /\ \A k \in Contracts : data'.two[k] = IF k = c.to THEN data.two[k] ELSE x.two[k]
      <4> DEFINE d == data'
      <4>1. d = Reverted(x, c) /\ c.to \in Contracts
        BY Zenon, <1>2, <2>5, <3>1
      <4> HIDE DEF d
      <4>2. /\ \A k \in {Token, Native} : d.bal[k] = IF k = c.to THEN data.bal[k] ELSE x.bal[k]
            /\ \A k \in Contracts : d.two[k] = IF k = c.to THEN data.two[k] ELSE x.two[k]
        BY <3>3, <4>1, RevertedIs
      <4> QED  BY Zenon, <4>2 DEF d
    <3>5. /\ data'.bal[Token] = x.bal[Token] /\ data'.two[Token] = x.two[Token]
          /\ data'.two[Wrapper] = data.two[Wrapper]
      BY Zenon, <1>2, <3>1, <3>4
    <3>6. CASE w.commit
      <4>1. Tokens(x, gap)
        BY Zenon, <1>2, <2>1, <2>3, <2>4, <3>1, <3>6, RunKeepsTokens
      <4> QED  BY Zenon, <3>5, <4>1 DEF Tokens, Supplied
    <3>7. CASE ~w.commit
      BY Zenon, <2>1, <3>2, <3>5, <3>7 DEF TokenOf, Supplied
    <3> QED  BY Zenon, <3>6, <3>7
  <2> QED  BY Zenon, <2>2, <2>5
<1> QED  BY Zenon, <1>1, <1>2

(* The shape of the contracts and their tokens.                              *)
TokensInv == DataShape /\ Supplied(data)

(* Every step keeps the tokens.                                              *)
LEMMA NextTokens ==
  ASSUME TokensInv, [ContractsNext]_contractsVars
  PROVE  Supplied(data')
<1>0. DataShape /\ Supplied(data)
  BY Zenon DEF TokensInv
<1> DEFINE gap == SumFunction(Owed(data)) - data.bal[Token][Wrapper]
<1>g. gap \in Int /\ Tokens(data, gap)
  BY Zenon, <1>0, GapOf
<1> HIDE DEF gap
<1>1. ASSUME NEW c \in TxCalls, ProcessTransaction(c) PROVE Supplied(data')
  BY Zenon, <1>0, <1>1, <1>g, TransactionKeepsTokens DEF Tokens
<1>2. ASSUME NEW c, ProcessProtocolTransaction(c) PROVE Supplied(data')
  BY Zenon, <1>0, <1>2 DEF ProcessProtocolTransaction
<1>3. ASSUME NEW c \in SimulatedCalls, EstimateGas(c) PROVE Supplied(data')
  BY Zenon, <1>0, <1>3, EstimateKeepsSupply
<1>4. ASSUME NEW c, EstimateProtocol(c) PROVE Supplied(data')
  BY Zenon, <1>0, <1>4 DEF EstimateProtocol
<1>5. CASE Restart
  BY Zenon, <1>0, <1>5, <1>g, RestartKeepsTokens DEF Tokens
<1>6. CASE UNCHANGED contractsVars
  BY Zenon, <1>0, <1>6 DEF contractsVars
<1> QED  BY Zenon, <1>1, <1>2, <1>3, <1>4, <1>5, <1>6 DEF ContractsNext

(* It is an invariant.                                                       *)
LEMMA TokensInductive == ContractsSpec => []TokensInv
<1>1. ContractsInit => TokensInv
  BY Zenon, InitTokens, InitShape DEF TokensInv
<1>2. TokensInv /\ [ContractsNext]_contractsVars => TokensInv'
  <2> SUFFICES ASSUME TokensInv, [ContractsNext]_contractsVars PROVE TokensInv'
    OBVIOUS
  <2>1. DataShape'
    BY Zenon, ShapeInductive DEF TokensInv
  <2>2. Supplied(data')
    BY Zenon, NextTokens
  <2> QED  BY Zenon, <2>1, <2>2 DEF TokensInv
<1> QED  BY <1>1, <1>2, PTL DEF ContractsSpec

(* The token neither gains nor loses supply, whatever users do with it and   *)
(* with the wrapper, and although simulations of the wrapper may commit what *)
(* they do to the token (ERC20, ERC20Wrapper).                               *)
THEOREM TokenSupplyIsKept == ContractsSpec => []TokenSupplyKept
<1>1. TokensInv => TokenSupplyKept
  BY Zenon DEF TokensInv, Supplied, TokenSupplyKept
<1> QED  BY <1>1, TokensInductive, PTL

(* No transaction and no restart lets the wrapper fall behind what it owes,  *)
(* whatever simulations did before: deposit, withdraw and transferTo change  *)
(* both sides alike, no one else takes its tokens, and a restart can only    *)
(* make it forget what it owes (ERC20Wrapper).                               *)
THEOREM WrapperAlwaysKeepsUp == ContractsSpec => WrapperKeepsUp
<1> DEFINE gap == SumFunction(Owed(data)) - data.bal[Token][Wrapper]
           Behind == data'.bal[Token][Wrapper] + Owes < data.bal[Token][Wrapper] + Owes'
<1>1. ASSUME TokensInv, [ContractsNext]_contractsVars, Tokens(data', gap)
      PROVE  ~Behind
  <2>1. Owes = SumFunction(Owed(data)) /\ Owes' = SumFunction(Owed(data'))
    BY Zenon DEF Owes, Owed
  <2>2. /\ SumFunction(Owed(data)) \in Nat /\ data.bal[Token][Wrapper] \in Nat
    BY Zenon, <1>1, GapOf DEF TokensInv
  <2>3. /\ SumFunction(Owed(data')) \in Nat /\ data'.bal[Token][Wrapper] \in Nat
    BY Zenon, <1>1, GapOf DEF Tokens
  <2>4. SumFunction(Owed(data')) <= data'.bal[Token][Wrapper] + gap
    BY Zenon, <1>1 DEF Tokens
  <2> QED  BY <2>1, <2>2, <2>3, <2>4
<1>2. ASSUME TokensInv, [ContractsNext]_contractsVars, Behind
      PROVE  ~Restart /\ \A c \in TxCalls : ~ProcessTransaction(c)
  <2>1. DataShape /\ gap \in Int /\ Tokens(data, gap)
    BY Zenon, <1>2, GapOf DEF TokensInv
  <2> HIDE DEF gap
  <2>2. ~Tokens(data', gap)
    BY Zenon, <1>1, <1>2
  <2>3. ~Restart
    BY Zenon, <2>1, <2>2, RestartKeepsTokens
  <2>4. ASSUME NEW c \in TxCalls PROVE ~ProcessTransaction(c)
    BY Zenon, <2>1, <2>2, TransactionKeepsTokens
  <2> QED  BY Zenon, <2>3, <2>4
<1>3. TokensInv /\ [ContractsNext]_contractsVars =>
        [Behind => ~Restart /\ \A c \in TxCalls : ~ProcessTransaction(c)]_contractsVars
  BY Zenon, <1>2
<1> QED  BY <1>3, TokensInductive, PTL DEF ContractsSpec, WrapperKeepsUp

-----------------------------------------------------------------------------
(* Native tokens and the NativeWrapper.                                      *)

(* What may stand in ContractManager's own map of balances, the types of     *)
(* what a call works on, and of the state: simulations may leave any         *)
(* balances behind.                                                          *)
Optional == [Accounts -> Nat \union {NoEntry}]
Typed(w) == w.bal[Native] \in [Accounts -> Nat] /\ w.two[Native] \in Maps /\ w.balances \in Optional
NativesTyped ==
  /\ native \in [Accounts -> Nat] /\ balances \in Optional
  /\ data.bal[Native] \in [Accounts -> Nat] /\ data.two[Native] \in Maps

(* x takes from others than who, in contract k, what they allowed who.       *)
FairTo(w, x, k, who) ==
  \A u \in Users : u # who /\ x.bal[k][u] < w.bal[k][u] =>
    w.bal[k][u] - x.bal[k][u] = Amount(w.two[k][u][who]) - Amount(x.two[k][u][who])

(* Who calls, and with what.                                                 *)
LEMMA CallsAre ==
  ASSUME NEW c \in TxCalls \union SimulatedCalls
  PROVE  /\ c.who \in Users /\ c.who \in Accounts /\ c.other \in Accounts
         /\ c.n \in Nat /\ c.value \in Nat
BY Zenon, ContractsAssumption, AccountsAre

(* A map of maps with one entry written.                                     *)
WithCell(m, a, b, n) == [m EXCEPT ![a][b] = n]

(* It is a map of maps.                                                      *)
LEMMA WithCellIs ==
  ASSUME NEW m \in Maps, NEW a \in Accounts, NEW b \in Accounts, NEW n \in Nat
  PROVE  WithCell(m, a, b, n) \in Maps /\ WithCell(m, a, b, n)[a][b] = n
<1> DEFINE r == [m EXCEPT ![a][b] = n]
<1>1. /\ r \in Maps /\ r[a][b] = n
      /\ \A k \in Accounts : k # a => r[k] = m[k]
  BY SMTT(30), SetEntry
<1> QED  BY Zenon, <1>1 DEF WithCell

(* transfer, approve and transferFrom of the token or of the NativeWrapper.  *)
LEMMA CoinRun ==
  ASSUME NEW w, IsWorld(w), NEW c \in TxCalls \union SimulatedCalls, NEW k \in {Token, Native}, c.to = k,
         c.fn \in {"transfer", "approve", "transferFrom"},
         w.bal[k] \in [Accounts -> Nat], w.two[k] \in Maps, NEW x \in Run(w, c)
  PROVE  /\ x.bal[k] \in [Accounts -> Nat] /\ x.two[k] \in Maps
         /\ SumFunction(x.bal[k]) = SumFunction(w.bal[k])
         /\ FairTo(w, x, k, c.who)
<1> DEFINE f == w.bal[k]
           g == x.bal[k]
           m == w.two[k]
           who == c.who
           other == c.other
           n == c.n
<1>0. /\ f \in [Accounts -> Nat] /\ m \in Maps
      /\ who \in Accounts /\ other \in Accounts /\ n \in Nat /\ k \in Contracts
  BY Zenon, CallsAre DEF Contracts
<1>u. \A u \in Users : u \in Accounts
  BY Zenon, AccountsAre
<1>1. CASE c.fn = "transfer"
  <2>1. x \in MoveTokens(w, k, who, other, n)
    BY Zenon, <1>1 DEF Run, Transfer
  <2>2. Moves(w, k, who, other, n, x)
    BY Zenon, <2>1, MoveTokensIs
  <2>3. ~(f[who] < n) /\ g = Move(f, who, other, n) /\ x.two = w.two
    BY Zenon, <2>2 DEF Moves, SetsBal
  <2> HIDE DEF f, g, m, who, other, n
  <2>a. /\ f \in [Accounts -> Nat] /\ who \in Accounts /\ other \in Accounts /\ n \in Nat
        /\ ~(f[who] < n) /\ g = Move(f, who, other, n)
    BY Zenon, <1>0, <2>3
  <2>4. /\ g \in [Accounts -> Nat] /\ SumFunction(g) = SumFunction(f)
        /\ \A a \in Accounts : a # who => g[a] >= f[a]
    BY SMT, <2>a, MoveKeepsSum
  <2>5. \A u \in Users : u # who => ~(g[u] < f[u])
    BY <1>0, <1>u, <2>4
  <2>6. FairTo(w, x, k, c.who)
    BY Zenon, <2>5 DEF FairTo, f, g, who
  <2> QED  BY Zenon, <2>3, <2>4, <2>6 DEF f, g
<1>2. CASE c.fn = "approve"
  <2>1. x = WithEntry(w, k, who, other, n)
    BY Zenon, <1>2 DEF Run, Approve, WithEntry
  <2>2. Enters(w, k, who, other, n, x)
    BY Zenon, <1>0, <2>1, WithEntryIs
  <2> DEFINE r == [m EXCEPT ![who][other] = n]
  <2>3. x.two[k] = r /\ g = f
    BY Zenon, <2>2 DEF Enters, SetsTwo
  <2> HIDE DEF f, g, m, who, other, n
  <2>4. r \in Maps
    BY SMTT(30), <1>0, SetEntry
  <2>5. \A u \in Users : ~(g[u] < f[u])
    BY <1>0, <1>u, <2>3
  <2>6. FairTo(w, x, k, c.who)
    BY Zenon, <2>5 DEF FairTo, f, g
  <2> QED  BY Zenon, <1>0, <2>3, <2>4, <2>6 DEF f, g
<1>3. CASE c.fn = "transferFrom"
  <2> DEFINE had == Amount(m[other][who])
             left == had - n
             r == [m EXCEPT ![other][who] = left]
  <2>1. x \in TransferFrom(w, k, who, other, who, n)
    BY Zenon, <1>3 DEF Run
  <2>2. Spends(w, k, who, other, who, n, x)
    BY Zenon, <2>1, TransferFromIs
  <2>3. ~(had < n) /\ ~(f[other] < n) /\ g = Move(f, other, who, n) /\ x.two[k] = r
    BY Zenon, <2>2 DEF Spends
  <2>4. had \in Nat
    BY Zenon, <1>0, AmountNat
  <2> HIDE DEF f, g, m, who, other, n, had
  <2>5. left \in Nat /\ had - left = n
    BY <1>0, <2>3, <2>4
  <2> HIDE DEF left
  <2>6. r \in Maps /\ r[other][who] = left
    <3>1. m \in Maps /\ other \in Accounts /\ who \in Accounts /\ left \in Nat
      BY Zenon, <1>0, <2>5
    <3>2. r = WithCell(m, other, who, left)
      BY Zenon DEF WithCell
    <3> HIDE DEF r
    <3> QED  BY ZenonT(30), <3>1, <3>2, WithCellIs
  <2> HIDE DEF r
  <2>7. /\ g \in [Accounts -> Nat] /\ SumFunction(g) = SumFunction(f)
        /\ \A a \in Accounts : a # other => g[a] >= f[a]
        /\ other # who => g[other] = f[other] - n
    BY SMT, <1>0, <2>3, MoveKeepsSum
  <2>8. ASSUME NEW u \in Users, u # who, g[u] < f[u]
        PROVE  f[u] - g[u] = Amount(m[u][who]) - Amount(r[u][who])
    <3>1. u = other
      BY <1>0, <1>u, <2>7, <2>8
    <3>2. f[other] - g[other] = n
      BY <1>0, <2>7, <2>8, <3>1
    <3>3. Amount(r[other][who]) = left /\ Amount(m[other][who]) = had
      BY Zenon, <2>5, <2>6, AmountNat DEF had
    <3> QED  BY Zenon, <2>5, <3>1, <3>2, <3>3
  <2>9. FairTo(w, x, k, c.who)
    BY Zenon, <2>3, <2>8 DEF FairTo, f, g, m, who
  <2> QED  BY Zenon, <2>3, <2>6, <2>7, <2>9 DEF f, g
<1> QED  BY Zenon, <1>1, <1>2, <1>3

(* One balance becomes another.                                              *)
WithBalance(f, u, n) == [f EXCEPT ![u] = n]

(* It is that of one account.                                                *)
LEMMA WithBalanceIs ==
  ASSUME NEW f \in [Accounts -> Nat], NEW u \in Accounts, NEW n \in Nat
  PROVE  /\ WithBalance(f, u, n) \in [Accounts -> Nat]
         /\ \A a \in Accounts : a # u => WithBalance(f, u, n)[a] = f[a]
BY Zenon DEF WithBalance

(* deposit of the NativeWrapper.                                             *)
LEMMA NativeDepositIs ==
  ASSUME NEW w, IsWorld(w), NEW u, NEW v, NEW x \in NativeDeposit(w, u, v)
  PROVE  SetsBal(w, Native, WithBalance(w.bal[Native], u, w.bal[Native][u] + v), x)
<1>1. x = [w EXCEPT !.bal[Native] = WithBalance(w.bal[Native], u, w.bal[Native][u] + v)]
  BY Zenon DEF NativeDeposit, WithBalance
<1> QED  BY Zenon, <1>1, SetBal

(* withdraw of the NativeWrapper: y is w with the balance lowered.           *)
Returned(w, u, n) == [w EXCEPT !.bal[Native] = WithBalance(w.bal[Native], u, w.bal[Native][u] - n)]

(* Then the native tokens are sent.                                          *)
LEMMA NativeWithdrawIs ==
  ASSUME NEW w, IsWorld(w), NEW u, NEW n, NEW x \in NativeWithdraw(w, u, n), NEW y, y = Returned(w, u, n)
  PROVE  /\ ~(w.bal[Native][u] < n) /\ x \in SendTokens(y, Native, u, n)
         /\ y.balances = w.balances /\ y.native = w.native
         /\ x.bal[Native] = WithBalance(w.bal[Native], u, w.bal[Native][u] - n)
         /\ x.two = w.two
<1> DEFINE v == WithBalance(w.bal[Native], u, w.bal[Native][u] - n)
<1>1. ~(w.bal[Native][u] < n) /\ x \in SendTokens(y, Native, u, n)
  BY Zenon DEF NativeWithdraw, Throw, WithBalance, Returned
<1>2. y = [w EXCEPT !.bal[Native] = v]
  BY Zenon DEF Returned
<1> HIDE DEF v
<1>3. SetsBal(w, Native, v, y)
  BY Zenon, <1>2, SetBal
<1>4. y.native = w.native
  BY Zenon, <1>2 DEF IsWorld
<1>5. PICK b : x = [y EXCEPT !.balances = b]
  BY Zenon, <1>1 DEF SendTokens, Throw
<1>6. IsWorld(y) /\ y.balances = w.balances /\ y.bal[Native] = v /\ y.two = w.two
  BY Zenon, <1>3 DEF SetsBal, Beside, OnlyIn
<1>7. x.bal = y.bal /\ x.two = y.two
  BY Zenon, <1>5, <1>6 DEF IsWorld
<1> QED  BY Zenon, <1>1, <1>4, <1>6, <1>7 DEF v

(* sendTokens keeps the type of the balances it works on.                    *)
LEMMA SendTokensTyped ==
  ASSUME NEW y, y.balances \in Optional, y.native \in [Accounts -> Nat], NEW u \in Accounts, u # Native,
         NEW n \in Nat, NEW x \in SendTokens(y, Native, u, n),
         y = [bal |-> y.bal, two |-> y.two, balances |-> y.balances, native |-> y.native, commit |-> y.commit]
  PROVE  x.balances \in Optional
<1> DEFINE p == Populated(y, Native)
           q == Populated(y, u)
           b == [y.balances EXCEPT ![Native] = p, ![u] = q]
           e == [b EXCEPT ![Native] = @ - n, ![u] = @ + n]
<1>1. ~(b[u] < n) /\ ~(b[Native] < n) /\ x = [y EXCEPT !.balances = e]
  BY Zenon DEF SendTokens, Throw
<1>2. Native \in Accounts
  BY Zenon, AccountsAre
<1>3. p \in Nat /\ q \in Nat
  BY SMT, <1>2 DEF Populated, Optional
<1> HIDE DEF p, q
<1>4. b \in Optional /\ b[Native] = p /\ b[u] = q
  BY Zenon, <1>2, <1>3 DEF Optional
<1> HIDE DEF b
<1>5. b[Native] - n \in Nat /\ b[u] + n \in Nat
  BY <1>1, <1>3, <1>4
<1>6. e \in Optional
  BY Zenon, <1>2, <1>4, <1>5 DEF Optional
<1> HIDE DEF e
<1>7. x.balances = e
  BY Zenon, <1>1
<1> QED  BY Zenon, <1>6, <1>7

(* A call keeps the types, and a call of the NativeWrapper is fair.          *)
LEMMA RunTyped ==
  ASSUME NEW w, IsWorld(w), Typed(w), w.native \in [Accounts -> Nat],
         NEW c \in TxCalls \union SimulatedCalls, c.to \in Contracts, NEW x \in Run(w, c)
  PROVE  Typed(x) /\ FairTo(w, x, Native, c.who)
<1> DEFINE f == w.bal[Native]
           g == x.bal[Native]
<1>0. /\ c.who \in Users /\ c.who \in Accounts /\ c.n \in Nat /\ c.value \in Nat
      /\ f \in [Accounts -> Nat] /\ f[c.who] \in Nat /\ c.who # Native
  BY Zenon, CallsAre, AccountsAre DEF Typed
<1>u. \A u \in Users : u \in Accounts /\ f[u] \in Nat
  BY Zenon, <1>0, AccountsAre
<1>f. ASSUME \A u \in Users : u # c.who => g[u] = f[u] PROVE FairTo(w, x, Native, c.who)
  <2>1. \A u \in Users : u # c.who => ~(g[u] < f[u])
    BY <1>u, <1>f
  <2> QED  BY Zenon, <2>1 DEF FairTo
<1>1. CASE c.to # Native
  <2>1. g = f /\ x.two[Native] = w.two[Native] /\ x.balances = w.balances
    <3>1. CASE c.to = Token
      <4>1. OnlyIn({Token}, w, x) /\ (c.fn # "withdraw" => x.balances = w.balances)
        BY <3>1, RunLocal
      <4>2. c.fn # "withdraw"
        BY Zenon, <3>1, ContractsAssumption DEF Run, Throw
      <4> QED  BY Zenon, <4>1, <4>2, ContractsAssumption DEF OnlyIn, Contracts
    <3>2. CASE c.to = Wrapper
      <4>1. Beside({Token, Wrapper}, w, x)
        BY Zenon, <3>2, WrapperLocal
      <4> QED  BY Zenon, <4>1, ContractsAssumption DEF Beside, OnlyIn, Contracts
    <3> QED  BY Zenon, <1>1, <3>1, <3>2 DEF Contracts
  <2>2. FairTo(w, x, Native, c.who)
    BY Zenon, <1>f, <2>1
  <2> QED  BY Zenon, <2>1, <2>2 DEF Typed
<1>2. CASE c.to = Native /\ c.fn \in {"transfer", "approve", "transferFrom"}
  <2>1. w.two[Native] \in Maps /\ w.balances \in Optional
    BY Zenon DEF Typed
  <2>2. g \in [Accounts -> Nat] /\ x.two[Native] \in Maps /\ FairTo(w, x, Native, c.who)
    BY SMT, <1>0, <1>2, <2>1, CoinRun
  <2>3. c.to \in {Token, Native} /\ c.fn # "withdraw"
    BY <1>2
  <2>4. OnlyIn({Native}, w, x) /\ (c.fn # "withdraw" => x.balances = w.balances)
    BY <1>2, RunLocal
  <2> QED  BY Zenon, <2>1, <2>2, <2>3, <2>4 DEF Typed
<1>3. CASE c.to = Native /\ c.fn = "deposit"
  <2> DEFINE k == f[c.who] + c.value
  <2>1. x \in NativeDeposit(w, c.who, c.value)
    BY Zenon, <1>3, ContractsAssumption DEF Run
  <2>2. SetsBal(w, Native, WithBalance(f, c.who, k), x)
    BY Zenon, <2>1, NativeDepositIs
  <2>3. k \in Nat
    BY <1>0
  <2> HIDE DEF k
  <2>4. g = WithBalance(f, c.who, k) /\ x.two = w.two /\ x.balances = w.balances
    BY Zenon, <2>2 DEF SetsBal, Beside
  <2> HIDE DEF f, g
  <2>5. g \in [Accounts -> Nat] /\ \A a \in Accounts : a # c.who => g[a] = f[a]
    BY ZenonT(40), <1>0, <2>3, <2>4, WithBalanceIs
  <2>6. FairTo(w, x, Native, c.who)
    BY Zenon, <1>f, <1>u, <2>5
  <2> QED  BY Zenon, <2>4, <2>5, <2>6 DEF Typed, g
<1>4. CASE c.to = Native /\ c.fn = "withdraw"
  <2> DEFINE k == f[c.who] - c.n
             y == Returned(w, c.who, c.n)
  <2>1. x \in NativeWithdraw(w, c.who, c.n)
    BY Zenon, <1>4, ContractsAssumption DEF Run
  <2>2. y = Returned(w, c.who, c.n)
    OBVIOUS
  <2> HIDE DEF y
  <2>3. /\ ~(f[c.who] < c.n) /\ x \in SendTokens(y, Native, c.who, c.n)
        /\ y.balances = w.balances /\ y.native = w.native
        /\ g = WithBalance(f, c.who, k) /\ x.two = w.two
    BY SMT, <2>1, <2>2, NativeWithdrawIs
  <2>4. k \in Nat
    BY <1>0, <2>3
  <2> HIDE DEF k
  <2>5. y = [bal |-> y.bal, two |-> y.two, balances |-> y.balances, native |-> y.native, commit |-> y.commit]
    BY Zenon, <2>2 DEF Returned, IsWorld
  <2>6. x.balances \in Optional
    BY SMT, <1>0, <2>3, <2>5, SendTokensTyped DEF Typed
  <2> HIDE DEF f, g
  <2>7. g \in [Accounts -> Nat] /\ \A a \in Accounts : a # c.who => g[a] = f[a]
    BY ZenonT(30), <1>0, <2>3, <2>4, WithBalanceIs
  <2>8. FairTo(w, x, Native, c.who)
    BY Zenon, <1>f, <1>u, <2>7
  <2> QED  BY Zenon, <2>3, <2>6, <2>7, <2>8 DEF Typed, g
<1>5. c.to = Native => c.fn \in {"transfer", "approve", "transferFrom", "deposit", "withdraw"}
  BY Zenon, ContractsAssumption DEF Run, Throw
<1> QED  BY Zenon, <1>1, <1>2, <1>3, <1>4, <1>5

(* The value of a transaction moves to the contract called.                  *)
LEMMA CreditedIs ==
  ASSUME native \in [Accounts -> Nat], NEW c, c.who \in Accounts, c.to \in Accounts, c.who # c.to
  PROVE  Credited(c) = Move(native, c.who, c.to, c.value)
<1> DEFINE a == c.who
           b == c.to
           d == [native EXCEPT ![a] = native[a] - c.value]
           e == [d EXCEPT ![b] = d[b] + c.value]
           f == Credited(c)
<1>1. /\ f[a] = native[a] - c.value /\ f[b] = native[b] + c.value
      /\ \A k \in Accounts : k # a /\ k # b => f[k] = native[k]
      /\ f = [k \in Accounts |-> f[k]]
  BY Zenon DEF Credited
<1>2. d[b] = native[b]
  BY Zenon
<1>3. /\ e[a] = native[a] - c.value /\ e[b] = native[b] + c.value
      /\ \A k \in Accounts : k # a /\ k # b => e[k] = native[k]
      /\ e = [k \in Accounts |-> e[k]]
  BY Zenon, <1>2
<1>4. e = Move(native, c.who, c.to, c.value)
  BY Zenon DEF Move
<1> HIDE DEF e, f, a, b
<1>5. \A k \in Accounts : f[k] = e[k]
  BY Zenon, <1>1, <1>3
<1>6. f = e
  BY Zenon, <1>1, <1>3, <1>5
<1> QED  BY Zenon, <1>4, <1>6 DEF f

(* It makes and loses no native tokens, and takes none from the              *)
(* NativeWrapper; neither does the refund of a transaction that failed.      *)
LEMMA ValueMoves ==
  ASSUME native \in [Accounts -> Nat], NEW c \in TxCalls, native[c.who] >= c.value,
         c.to \in Contracts \union {Manager, RdPoS}
  PROVE  /\ Credited(c) \in [Accounts -> Nat] /\ Credited(c)[Native] >= native[Native]
         /\ SumFunction(Credited(c)) = SumFunction(native)
         /\ Refund(c) => native' \in [Accounts -> Nat] /\ native'[Native] >= native[Native]
<1> DEFINE who == c.who
           to == c.to
           v == c.value
           k == Credited(c)
<1>1. /\ who \in Accounts /\ to \in Accounts /\ who # to /\ who # Native /\ v \in Nat /\ Native \in Accounts
  BY Zenon, CallsAre, AccountsAre, ContractsAssumption DEF Accounts
<1>2. k = Move(native, who, to, v)
  BY Zenon, <1>1, CreditedIs
<1>3. Refund(c) => native' = WithBalance(k, who, k[who] + v)
  BY Zenon DEF Refund, WithBalance
<1> HIDE DEF who, to, v, k
<1>4. ~(native[who] < v)
  BY <1>1 DEF who, v
<1>5. /\ k \in [Accounts -> Nat] /\ SumFunction(k) = SumFunction(native)
      /\ \A a \in Accounts : a # who => k[a] >= native[a]
  BY SMT, <1>1, <1>2, <1>4, MoveKeepsSum
<1>6. k[who] + v \in Nat
  BY <1>1, <1>5
<1>7. k[Native] >= native[Native]
  BY Zenon, <1>1, <1>5
<1>8. ASSUME Refund(c) PROVE native' \in [Accounts -> Nat] /\ native'[Native] >= native[Native]
  <2>1. /\ WithBalance(k, who, k[who] + v) \in [Accounts -> Nat]
        /\ \A a \in Accounts : a # who => WithBalance(k, who, k[who] + v)[a] = k[a]
    BY Zenon, <1>1, <1>5, <1>6, WithBalanceIs
  <2> QED  BY Zenon, <1>1, <1>3, <1>7, <1>8, <2>1
<1> QED  BY Zenon, <1>5, <1>7, <1>8 DEF k

(* processContractPayable: a balance is written back or stays.               *)
LEMMA PaidTyped ==
  ASSUME NEW nat \in [Accounts -> Nat], NEW b \in Optional
  PROVE  Paid(nat, b) \in [Accounts -> Nat]
BY DEF Paid, Optional

(* What a transaction finds.                                                 *)
LEMMA TransactionWorld ==
  ASSUME DataShape, NativesTyped, NEW c \in TxCalls, ProcessTransaction(c),
         NEW w, w = World(Credited(c), balances, TRUE)
  PROVE  /\ IsWorld(w) /\ Typed(w) /\ w.native \in [Accounts -> Nat]
         /\ w.bal = data.bal /\ w.two = data.two /\ w.balances = balances
         /\ w.native = Credited(c) /\ w.commit
<1>1. Credited(c) \in [Accounts -> Nat]
  BY Zenon, ValueMoves DEF ProcessTransaction, NativesTyped
<1>2. /\ w.bal = data.bal /\ w.two = data.two /\ w.balances = balances
      /\ w.native = Credited(c) /\ w.commit = TRUE
  BY Zenon DEF World
<1>3. IsWorld(w)
  BY Zenon, <1>2 DEF World, IsWorld, DataShape
<1> QED  BY Zenon, <1>1, <1>2, <1>3 DEF Typed, NativesTyped

(* A transaction keeps the types.                                            *)
LEMMA TransactionTyped ==
  ASSUME DataShape, NativesTyped, NEW c \in TxCalls, ProcessTransaction(c)
  PROVE  NativesTyped'
<1> DEFINE w == World(Credited(c), balances, TRUE)
<1>w. w = World(Credited(c), balances, TRUE)
  OBVIOUS
<1>0. /\ c.to \in Contracts /\ native[c.who] >= c.value /\ native \in [Accounts -> Nat]
      /\ balances' = NoBalances
  BY Zenon DEF ProcessTransaction, NativesTyped
<1>1. /\ Credited(c) \in [Accounts -> Nat]
      /\ Refund(c) => native' \in [Accounts -> Nat]
  BY Zenon, <1>0, ValueMoves
<1>2. \/ \E x \in Run(w, c) :
           /\ data' = [bal |-> x.bal, two |-> x.two]
           /\ native' = IF IsPayableFunction(c) THEN Paid(Credited(c), x.balances) ELSE Credited(c)
      \/ Refund(c) /\ data' = data
  BY Zenon DEF ProcessTransaction, Called
<1> HIDE DEF w
<1>3. balances' \in Optional
  BY Zenon, <1>0 DEF NoBalances, Optional
<1>4. CASE Refund(c) /\ data' = data
  BY Zenon, <1>1, <1>3, <1>4 DEF NativesTyped
<1>5. ASSUME NEW x \in Run(w, c), data' = [bal |-> x.bal, two |-> x.two],
             native' = IF IsPayableFunction(c) THEN Paid(Credited(c), x.balances) ELSE Credited(c)
      PROVE  NativesTyped'
  <2>1. IsWorld(w) /\ Typed(w) /\ w.native \in [Accounts -> Nat]
    BY Zenon, <1>w, TransactionWorld
  <2>2. Typed(x)
    BY Zenon, <1>0, <2>1, RunTyped
  <2>3. native' \in [Accounts -> Nat]
    BY Zenon, <1>1, <1>5, <2>2, PaidTyped DEF Typed
  <2>4. data'.bal = x.bal /\ data'.two = x.two
    BY Zenon, <1>5
  <2> QED  BY Zenon, <1>3, <2>2, <2>3, <2>4 DEF Typed, NativesTyped
<1> QED  BY Zenon, <1>2, <1>4, <1>5

(* A simulation keeps the types.                                             *)
LEMMA EstimateTyped ==
  ASSUME DataShape, NativesTyped, NEW c \in SimulatedCalls, EstimateGas(c)
  PROVE  NativesTyped'
<1> DEFINE w == World(native, PopulatedFor(c), commit)
           old == IF balances[c.to] = NoEntry THEN native[c.to] ELSE balances[c.to]
<1>0. /\ c.to \in Contracts /\ c.to \in Accounts /\ c.value \in Nat
      /\ native' = native /\ native \in [Accounts -> Nat] /\ balances \in Optional
  BY Zenon, CallsAre DEF EstimateGas, NativesTyped, Accounts
<1>1. old \in Nat
  BY SMT, <1>0 DEF Optional
<1>2. PopulatedFor(c) = balances \/ PopulatedFor(c) = [balances EXCEPT ![c.to] = c.value + old]
  BY Zenon DEF PopulatedFor
<1> HIDE DEF old
<1>3. c.value + old \in Nat
  BY <1>0, <1>1
<1>4. PopulatedFor(c) \in Optional
  BY Zenon, <1>0, <1>2, <1>3 DEF Optional
<1>5. /\ IsWorld(w) /\ w.bal = data.bal /\ w.two = data.two
      /\ w.balances = PopulatedFor(c) /\ w.native = native
  BY WorldIsWorld
<1>6. \/ \E x \in Run(w, c) : balances' = x.balances /\ data' = Reverted(x, c)
      \/ balances' = NoBalances /\ data' = data
  BY Zenon DEF EstimateGas
<1> HIDE DEF w
<1>7. Typed(w)
  BY Zenon, <1>4, <1>5 DEF Typed, NativesTyped
<1>8. CASE balances' = NoBalances /\ data' = data
  <2>1. balances' \in Optional
    BY Zenon, <1>8 DEF NoBalances, Optional
  <2> QED  BY Zenon, <1>0, <1>8, <2>1 DEF NativesTyped
<1>9. ASSUME NEW x \in Run(w, c), balances' = x.balances, data' = Reverted(x, c) PROVE NativesTyped'
  <2>1. Typed(x)
    BY Zenon, <1>0, <1>5, <1>7, RunTyped
  <2>2. IsWorld(x)
    BY Zenon, <1>0, <1>5, RunWorld
  <2> DEFINE d == data'
  <2>3. d = Reverted(x, c)
    BY Zenon, <1>9
  <2> HIDE DEF d
  <2>4. /\ \A k \in {Token, Native} : d.bal[k] = IF k = c.to THEN data.bal[k] ELSE x.bal[k]
        /\ \A k \in Contracts : d.two[k] = IF k = c.to THEN data.two[k] ELSE x.two[k]
    BY <1>0, <2>2, <2>3, RevertedIs
  <2>5. d.bal[Native] \in [Accounts -> Nat] /\ d.two[Native] \in Maps
    BY Zenon, <2>1, <2>4 DEF Typed, NativesTyped, Contracts
  <2> QED  BY Zenon, <1>0, <1>9, <2>1, <2>5 DEF Typed, NativesTyped, d
<1> QED  BY Zenon, <1>6, <1>8, <1>9

(* A restart forgets entries of a map of maps, and writes none.              *)
LEMMA RestartTyped ==
  ASSUME DataShape, NativesTyped, Restart
  PROVE  NativesTyped'
<1> DEFINE rows == {r \in Contracts \X Accounts : data.two[r[1]][r[2]] # NoBalances}
           inner == {b \in Accounts : \E r \in rows : data.two[r[1]][r[2]][b] # NoEntry}
           row(keep, k, a) == [b \in Accounts |->
              IF <<k, a>> \in rows /\ keep[<<k, a>>] = b THEN data.two[k][a][b] ELSE NoEntry]
           kept(keep) == [k \in Contracts |-> [a \in Accounts |-> row(keep, k, a)]]
<1>1. PICK keep \in [rows -> inner] : data' = [data EXCEPT !.two = kept(keep)]
  BY Zenon DEF Restart
<1>2. native' = native /\ balances' = NoBalances
  BY Zenon DEF Restart
<1>3. ASSUME NEW a \in Accounts PROVE row(keep, Native, a) \in [Accounts -> Nat \union {NoEntry}]
  <2>1. \A b \in Accounts : data.two[Native][a][b] \in Nat \union {NoEntry}
    BY Zenon DEF NativesTyped, Maps
  <2> QED  BY Zenon, <2>1
<1> HIDE DEF row
<1>4. /\ kept(keep)[Native] = [a \in Accounts |-> kept(keep)[Native][a]]
      /\ \A a \in Accounts : kept(keep)[Native][a] = row(keep, Native, a)
  BY Zenon DEF Contracts
<1> HIDE DEF kept
<1>5. kept(keep)[Native] \in Maps
  <2>1. \A a \in Accounts : kept(keep)[Native][a] \in [Accounts -> Nat \union {NoEntry}]
    BY Zenon, <1>3, <1>4
  <2> QED  BY Zenon, <1>4, <2>1 DEF Maps
<1>6. data'.bal = data.bal /\ data'.two = kept(keep)
  BY Zenon, <1>1 DEF DataShape
<1>7. balances' \in Optional
  BY Zenon, <1>2 DEF NoBalances, Optional
<1> QED  BY Zenon, <1>2, <1>5, <1>6, <1>7 DEF NativesTyped

(* The whole invariant.                                                      *)
ContractsInv == TokensInv /\ NativesTyped

(* It is one.                                                                *)
LEMMA ContractsInductive == ContractsSpec => []ContractsInv
<1>1. ContractsInit => NativesTyped
  <2> SUFFICES ASSUME ContractsInit PROVE NativesTyped
    OBVIOUS
  <2>1. native \in [Accounts -> Nat]
    BY ContractsAssumption DEF ContractsInit
  <2>2. balances \in Optional /\ NoBalances \in Optional
    BY Zenon DEF ContractsInit, NoBalances, Optional
  <2>3. data.bal[Native] = [a \in Accounts |-> 0]
    BY Zenon, ContractsAssumption DEF ContractsInit
  <2>4. data.two[Native] = [a \in Accounts |-> NoBalances]
    BY Zenon DEF ContractsInit, Contracts
  <2>5. data.bal[Native] \in [Accounts -> Nat]
    BY <2>3
  <2>6. data.two[Native] \in Maps
    BY Zenon, <2>2, <2>4 DEF Maps, Optional
  <2> QED  BY Zenon, <2>1, <2>2, <2>5, <2>6 DEF NativesTyped
<1>2. ASSUME TokensInv, NativesTyped, [ContractsNext]_contractsVars PROVE NativesTyped'
  <2>0. DataShape /\ native \in [Accounts -> Nat]
    BY Zenon, <1>2 DEF TokensInv, NativesTyped
  <2>n. NoBalances \in Optional
    BY Zenon DEF NoBalances, Optional
  <2>1. ASSUME NEW c \in TxCalls, ProcessTransaction(c) PROVE NativesTyped'
    BY Zenon, <1>2, <2>0, <2>1, TransactionTyped
  <2>2. ASSUME NEW c \in TxCalls, ProcessProtocolTransaction(c) PROVE NativesTyped'
    <3>1. /\ c.to \in {Manager, RdPoS} /\ native[c.who] >= c.value
          /\ native' = Credited(c) \/ Refund(c)
          /\ data' = data /\ balances' = NoBalances
      BY Zenon, <2>2 DEF ProcessProtocolTransaction
    <3>2. Credited(c) \in [Accounts -> Nat] /\ (Refund(c) => native' \in [Accounts -> Nat])
      BY Zenon, <2>0, <3>1, ValueMoves
    <3> QED  BY Zenon, <1>2, <2>n, <3>1, <3>2 DEF NativesTyped
  <2>3. ASSUME NEW c \in SimulatedCalls, EstimateGas(c) PROVE NativesTyped'
    BY Zenon, <1>2, <2>0, <2>3, EstimateTyped
  <2>4. ASSUME NEW c, EstimateProtocol(c) PROVE NativesTyped'
    BY Zenon, <1>2, <2>n, <2>4 DEF EstimateProtocol, NativesTyped
  <2>5. CASE Restart
    BY Zenon, <1>2, <2>0, <2>5, RestartTyped
  <2>6. CASE UNCHANGED contractsVars
    BY Zenon, <1>2, <2>6 DEF contractsVars, NativesTyped
  <2> QED  BY Zenon, <1>2, <2>1, <2>2, <2>3, <2>4, <2>5, <2>6 DEF ContractsNext
<1>3. TokensInv /\ NativesTyped /\ [ContractsNext]_contractsVars => NativesTyped'
  BY Zenon, <1>2
<1> QED  BY <1>1, <1>3, TokensInductive, PTL DEF ContractsSpec, ContractsInv

-----------------------------------------------------------------------------
(* What a transaction does to native tokens, if no simulation has left       *)
(* balances behind.  nat: native balances; f: _balances of the NativeWrapper,*)
(* which exceed what it holds by gap at most.                                *)
Backed(nat, f, total, gap) ==
  /\ nat \in [Accounts -> Nat] /\ f \in [Accounts -> Nat]
  /\ SumFunction(nat) = total
  /\ SumFunction(f) <= nat[Native] + gap

(* The sum changes as much.                                                  *)
LEMMA SetSum ==
  ASSUME NEW f \in [Accounts -> Nat], NEW u \in Accounts, NEW n \in Nat
  PROVE  /\ WithBalance(f, u, n) \in [Accounts -> Nat]
         /\ SumFunction(f) \in Nat /\ SumFunction(WithBalance(f, u, n)) \in Nat
         /\ SumFunction(WithBalance(f, u, n)) + f[u] = SumFunction(f) + n
<1> DEFINE g == WithBalance(f, u, n)
<1>1. /\ g \in [Accounts -> Nat] /\ g[u] = n
      /\ \A a \in Accounts : a # u => f[a] = g[a]
  BY Zenon DEF WithBalance
<1> HIDE DEF g
<1>2. SumFunction(f) = SumFunctionOnSet(f, Accounts) /\ SumFunction(g) = SumFunctionOnSet(g, Accounts)
  BY Zenon, <1>1, SumOver
<1>3. \A a \in Accounts : f[a] \in Nat /\ g[a] \in Nat
  BY Zenon, <1>1
<1>4. SumFunctionOnSet(g, Accounts) + f[u] = SumFunctionOnSet(f, Accounts) + g[u]
      /\ SumFunctionOnSet(f, Accounts) \in Nat /\ SumFunctionOnSet(g, Accounts) \in Nat
  BY SMTT(30), <1>1, <1>3, AccountsFinite, SumUpdate
<1>5. /\ g \in [Accounts -> Nat] /\ SumFunction(f) \in Nat /\ SumFunction(g) \in Nat
      /\ SumFunction(g) + f[u] = SumFunction(f) + n
  BY Zenon, <1>1, <1>2, <1>4
<1> QED  BY Zenon, <1>5 DEF g

(* deposit: as many tokens as native tokens.                                 *)
LEMMA PayIn ==
  ASSUME NEW nat, NEW f, NEW total, NEW gap \in Int, Backed(nat, f, total, gap), NEW u \in Users, NEW n \in Nat, ~(nat[u] < n),
         NEW m, m = Move(nat, u, Native, n), NEW g, g = WithBalance(f, u, f[u] + n)
  PROVE  Backed(m, g, total, gap)
<1>1. nat \in [Accounts -> Nat] /\ f \in [Accounts -> Nat] /\ u \in Accounts /\ Native \in Accounts /\ u # Native
  BY Zenon, AccountsAre DEF Backed
<1>2. m \in [Accounts -> Nat] /\ SumFunction(m) = SumFunction(nat) /\ m[Native] = nat[Native] + n
  BY SMT, <1>1, MoveKeepsSum
<1> DEFINE p == SumFunction(f)
           q == SumFunction(g)
           k == f[u] + n
<1>3. p = SumFunction(f) /\ q = SumFunction(g) /\ f[u] \in Nat /\ k \in Nat /\ g = WithBalance(f, u, k)
  BY <1>1
<1>4. p <= nat[Native] + gap /\ nat[Native] \in Nat
  BY Zenon, <1>1 DEF Backed
<1> HIDE DEF p, q, k
<1>5. g \in [Accounts -> Nat] /\ q + f[u] = p + k /\ p \in Nat /\ q \in Nat
  <2>1. /\ WithBalance(f, u, k) \in [Accounts -> Nat]
        /\ SumFunction(f) \in Nat /\ SumFunction(WithBalance(f, u, k)) \in Nat
        /\ SumFunction(WithBalance(f, u, k)) + f[u] = SumFunction(f) + k
    BY Zenon, SMT, <1>1, <1>3, SetSum
  <2> QED  BY Zenon, <1>3, <2>1
<1>6. q <= m[Native] + gap
  BY <1>2, <1>3, <1>4, <1>5 DEF k
<1> QED  BY Zenon, <1>2, <1>5, <1>6 DEF Backed, q

(* withdraw: the other way.                                                  *)
LEMMA PayOut ==
  ASSUME NEW nat, NEW f, NEW total, NEW gap \in Int, Backed(nat, f, total, gap), NEW u \in Users, NEW n \in Nat, ~(f[u] < n), ~(nat[Native] < n),
         NEW m, m = Move(nat, Native, u, n), NEW g, g = WithBalance(f, u, f[u] - n)
  PROVE  Backed(m, g, total, gap)
<1>1. nat \in [Accounts -> Nat] /\ f \in [Accounts -> Nat] /\ u \in Accounts /\ Native \in Accounts /\ u # Native
  BY Zenon, AccountsAre DEF Backed
<1>2. m \in [Accounts -> Nat] /\ SumFunction(m) = SumFunction(nat) /\ m[Native] = nat[Native] - n
  BY SMT, <1>1, MoveKeepsSum
<1> DEFINE p == SumFunction(f)
           q == SumFunction(g)
           k == f[u] - n
<1>3. p = SumFunction(f) /\ q = SumFunction(g) /\ f[u] \in Nat /\ k \in Nat /\ g = WithBalance(f, u, k)
  BY <1>1
<1>4. p <= nat[Native] + gap /\ nat[Native] \in Nat
  BY Zenon, <1>1 DEF Backed
<1> HIDE DEF p, q, k
<1>5. g \in [Accounts -> Nat] /\ q + f[u] = p + k /\ p \in Nat /\ q \in Nat
  <2>1. /\ WithBalance(f, u, k) \in [Accounts -> Nat]
        /\ SumFunction(f) \in Nat /\ SumFunction(WithBalance(f, u, k)) \in Nat
        /\ SumFunction(WithBalance(f, u, k)) + f[u] = SumFunction(f) + k
    BY Zenon, SMT, <1>1, <1>3, SetSum
  <2> QED  BY Zenon, <1>3, <2>1
<1>6. q <= m[Native] + gap
  BY <1>2, <1>3, <1>4, <1>5 DEF k
<1> QED  BY Zenon, <1>2, <1>5, <1>6 DEF Backed, q

(* transfer and transferFrom of the NativeWrapper.                           *)
LEMMA TransferStaysBacked ==
  ASSUME NEW nat, NEW f, NEW total, NEW gap \in Int, Backed(nat, f, total, gap), NEW a \in Accounts, NEW b \in Accounts, NEW n \in Nat,
         ~(f[a] < n), NEW g, g = Move(f, a, b, n)
  PROVE  Backed(nat, g, total, gap)
<1>1. f \in [Accounts -> Nat]
  BY Zenon DEF Backed
<1>2. g \in [Accounts -> Nat] /\ SumFunction(g) = SumFunction(f)
  BY SMT, <1>1, MoveKeepsSum
<1> QED  BY Zenon, <1>2 DEF Backed

(* withdraw of the NativeWrapper moves native tokens from it to the caller.  *)
LEMMA WithdrawIs ==
  ASSUME NEW w, IsWorld(w), NEW nat \in [Accounts -> Nat], w.native = nat,
         w.balances = NoBalances, NEW f, w.bal[Native] = f,
         NEW u \in Users, NEW n \in Nat, NEW x \in NativeWithdraw(w, u, n)
  PROVE  /\ ~(f[u] < n) /\ ~(nat[Native] < n)
         /\ x.bal[Native] = WithBalance(f, u, f[u] - n)
         /\ Paid(nat, x.balances) = Move(nat, Native, u, n)
<1> DEFINE y == Returned(w, u, n)
           b == [NoBalances EXCEPT ![Native] = Populated(y, Native), ![u] = Populated(y, u)]
           e == [b EXCEPT ![Native] = @ - n, ![u] = @ + n]
<1>y. y = Returned(w, u, n)
  OBVIOUS
<1> HIDE DEF y
<1>1. /\ ~(f[u] < n) /\ x \in SendTokens(y, Native, u, n)
      /\ y.balances = NoBalances /\ y.native = nat
      /\ x.bal[Native] = WithBalance(f, u, f[u] - n)
  BY SMT, <1>y, NativeWithdrawIs
<1>3. y = [bal |-> y.bal, two |-> y.two, balances |-> y.balances, native |-> y.native, commit |-> y.commit]
  BY Zenon, <1>y DEF Returned, IsWorld
<1>4. u \in Accounts /\ u # Token /\ u # Native /\ Native # Token /\ Native \in Accounts
  BY Zenon, AccountsAre, ContractsAssumption
<1>5. DOMAIN NoBalances = Accounts /\ \A a \in Accounts : NoBalances[a] = NoEntry
  BY Zenon DEF NoBalances
<1>6. Populated(y, Native) = nat[Native] /\ Populated(y, u) = nat[u]
  BY Zenon, <1>1, <1>4, <1>5 DEF Populated
<1>7. ~(b[Native] < n) /\ x = [y EXCEPT !.balances = e]
  BY Zenon, <1>1 DEF SendTokens, Throw
<1>8. /\ DOMAIN b = Accounts /\ b[Native] = nat[Native] /\ b[u] = nat[u]
      /\ \A a \in Accounts : a # Native /\ a # u => b[a] = NoBalances[a]
  BY Zenon, <1>4, <1>5, <1>6
<1> HIDE DEF b
<1>9. /\ DOMAIN e = Accounts /\ e[Native] = nat[Native] - n /\ e[u] = nat[u] + n
      /\ \A a \in Accounts : a # Native /\ a # u => e[a] = NoBalances[a]
  BY Zenon, <1>4, <1>8
<1> HIDE DEF e
<1>10. x.balances = e
  BY Zenon, <1>3, <1>7
<1>11. ~(nat[Native] < n) /\ nat[Native] \in Nat /\ nat[u] \in Nat
  BY Zenon, <1>4, <1>7, <1>8
<1>12. nat[Native] - n \in Nat /\ nat[u] + n \in Nat
  BY <1>11
<1>13. /\ Paid(nat, e)[Native] = nat[Native] - n /\ Paid(nat, e)[u] = nat[u] + n
       /\ \A a \in Accounts : a # Native /\ a # u => Paid(nat, e)[a] = nat[a]
  <2>1. nat[Native] - n # NoEntry /\ nat[u] + n # NoEntry
    BY Zenon, <1>12, ContractsAssumption
  <2> QED  BY ZenonT(30), <1>4, <1>5, <1>9, <2>1 DEF Paid
<1>14. Paid(nat, e) = [a \in Accounts |-> Paid(nat, e)[a]]
  BY Zenon DEF Paid
<1> DEFINE m == Move(nat, Native, u, n)
<1>15. /\ m[Native] = nat[Native] - n /\ m[u] = nat[u] + n
       /\ \A a \in Accounts : a # Native /\ a # u => m[a] = nat[a]
       /\ m = [a \in Accounts |-> m[a]]
  BY Zenon, <1>4 DEF Move
<1> HIDE DEF m
<1>16. \A a \in Accounts : Paid(nat, e)[a] = m[a]
  BY Zenon, <1>13, <1>15
<1>17. Paid(nat, e) = m
  BY Zenon, <1>14, <1>15, <1>16
<1> QED  BY Zenon, <1>1, <1>10, <1>11, <1>17 DEF m

(* Balances that are not there are not written back.                         *)
LEMMA PaidNone ==
  ASSUME NEW nat \in [Accounts -> Nat]
  PROVE  Paid(nat, NoBalances) = nat
BY Zenon DEF Paid, NoBalances

(* A transaction that calls a contract and succeeds.                         *)
LEMMA TransactionKeepsBacked ==
  ASSUME DataShape, NativesTyped, balances = NoBalances,
         NEW total, NEW gap \in Int, Backed(native, data.bal[Native], total, gap),
         NEW c \in TxCalls, ProcessTransaction(c), Called(c) # Throw
  PROVE  Backed(native', data'.bal[Native], total, gap)
<1> DEFINE w == World(Credited(c), balances, TRUE)
           f == data.bal[Native]
           k == Credited(c)
<1>0. w = World(Credited(c), balances, TRUE)
  OBVIOUS
<1>1. PICK x \in Run(w, c) :
        /\ data' = [bal |-> x.bal, two |-> x.two]
        /\ native' = IF IsPayableFunction(c) THEN Paid(k, x.balances) ELSE k
  BY Zenon DEF ProcessTransaction, Called
<1> HIDE DEF w
<1>2. /\ IsWorld(w) /\ w.bal = data.bal /\ w.two = data.two /\ w.balances = NoBalances
      /\ w.native = k
  BY ZenonT(30), <1>0, TransactionWorld
<1>3. /\ c.who \in Users /\ c.who \in Accounts /\ c.to \in Accounts /\ c.who # c.to
      /\ c.other \in Accounts /\ c.n \in Nat /\ c.value \in Nat /\ c.to \in Contracts
      /\ native[c.who] >= c.value
  BY Zenon, CallsAre, ContractsAssumption, AccountsAre DEF ProcessTransaction, Contracts
<1>4. /\ native \in [Accounts -> Nat] /\ f \in [Accounts -> Nat] /\ data.two[Native] \in Maps
      /\ f[c.who] \in Nat /\ Native \in Accounts
  BY Zenon, <1>3, AccountsAre DEF NativesTyped
<1>5. /\ k \in [Accounts -> Nat] /\ k[Native] >= native[Native] /\ SumFunction(k) = SumFunction(native)
  BY Zenon, <1>3, <1>4, ValueMoves
<1> HIDE DEF k
<1>6. ASSUME NEW g \in [Accounts -> Nat], SumFunction(g) = SumFunction(f)
      PROVE  Backed(k, g, total, gap)
  <2>1. SumFunction(f) <= native[Native] + gap /\ native[Native] \in Nat /\ k[Native] \in Nat
    BY Zenon, <1>4, <1>5 DEF Backed
  <2>2. SumFunction(f) \in Nat
    BY Zenon, <1>3, <1>4, SetSum
  <2>3. SumFunction(f) <= k[Native] + gap
    BY <1>5, <2>1, <2>2
  <2> QED  BY Zenon, <1>5, <1>6, <2>3 DEF Backed
<1> DEFINE g == x.bal[Native]
<1>7. data'.bal[Native] = g
  BY Zenon, <1>1
<1>8. CASE c.to # Native
  <2>1. native' = k
    BY Zenon, <1>1, <1>8 DEF IsPayableFunction
  <2>2. g = f
    <3>1. CASE c.to = Token
      <4>1. OnlyIn({Token}, w, x)
        BY <1>1, <1>2, <3>1, RunLocal
      <4> QED  BY Zenon, <1>2, <4>1, ContractsAssumption DEF OnlyIn
    <3>2. CASE c.to = Wrapper
      <4>1. Beside({Token, Wrapper}, w, x)
        BY Zenon, <1>1, <1>2, <3>2, WrapperLocal
      <4> QED  BY Zenon, <1>2, <4>1, ContractsAssumption DEF Beside, OnlyIn
    <3> QED  BY Zenon, <1>3, <1>8, <3>1, <3>2 DEF Contracts
  <2> QED  BY Zenon, <1>4, <1>6, <1>7, <2>1, <2>2
<1>9. CASE c.to = Native /\ c.fn \in {"transfer", "approve", "transferFrom"}
  <2>1. native' = k
    BY Zenon, <1>1, <1>9 DEF IsPayableFunction
  <2>2. w.bal[Native] = f /\ w.two[Native] \in Maps
    BY Zenon, <1>2, <1>4
  <2>3. g \in [Accounts -> Nat] /\ SumFunction(g) = SumFunction(w.bal[Native])
    BY SMT, <1>1, <1>2, <1>4, <1>9, <2>2, CoinRun
  <2> QED  BY Zenon, <1>6, <1>7, <2>1, <2>2, <2>3
<1>10. CASE c.to = Native /\ c.fn = "deposit"
  <2>1. x \in NativeDeposit(w, c.who, c.value)
    BY Zenon, <1>1, <1>10, ContractsAssumption DEF Run
  <2>2. SetsBal(w, Native, WithBalance(w.bal[Native], c.who, w.bal[Native][c.who] + c.value), x)
    BY Zenon, <1>2, <2>1, NativeDepositIs
  <2>3. g = WithBalance(f, c.who, f[c.who] + c.value) /\ x.balances = NoBalances
    BY Zenon, <1>2, <2>2 DEF SetsBal, Beside
  <2>4. native' = k
    BY Zenon, <1>1, <1>5, <1>10, <2>3, PaidNone DEF IsPayableFunction
  <2>5. k = Move(native, c.who, Native, c.value)
    BY Zenon, <1>3, <1>4, <1>10, CreditedIs DEF k
  <2>6. ~(native[c.who] < c.value)
    BY <1>3, <1>4
  <2> HIDE DEF f, g
  <2>7. Backed(k, g, total, gap)
    BY SMT, <1>3, <2>3, <2>5, <2>6, PayIn DEF f
  <2> QED  BY Zenon, <1>7, <2>4, <2>7
<1>11. CASE c.to = Native /\ c.fn = "withdraw"
  <2>1. x \in NativeWithdraw(w, c.who, c.n)
    BY Zenon, <1>1, <1>11, ContractsAssumption DEF Run
  <2>2. w.bal[Native] = f
    BY Zenon, <1>2
  <2> HIDE DEF f
  <2>3. /\ ~(f[c.who] < c.n) /\ ~(k[Native] < c.n)
        /\ g = WithBalance(f, c.who, f[c.who] - c.n)
        /\ Paid(k, x.balances) = Move(k, Native, c.who, c.n)
    BY SMTT(30), <1>2, <1>3, <1>5, <2>1, <2>2, WithdrawIs
  <2>4. native' = Move(k, Native, c.who, c.n)
    BY Zenon, <1>1, <1>11, <2>3 DEF IsPayableFunction
  <2>5. Backed(k, f, total, gap)
    BY Zenon, <1>4, <1>6
  <2> HIDE DEF g
  <2>6. Backed(native', g, total, gap)
    <3> DEFINE m == native'
    <3>1. m = Move(k, Native, c.who, c.n)
      BY Zenon, <2>4
    <3> HIDE DEF m
    <3>2. Backed(m, g, total, gap)
      BY SMT, <1>3, <2>3, <2>5, <3>1, PayOut
    <3> QED  BY Zenon, <3>2 DEF m
  <2> QED  BY Zenon, <1>7, <2>6
<1>12. c.to = Native => c.fn \in {"transfer", "approve", "transferFrom", "deposit", "withdraw"}
  BY Zenon, <1>1, ContractsAssumption DEF Run, Throw
<1> QED  BY Zenon, <1>8, <1>9, <1>10, <1>11, <1>12

(* Where the gap is.                                                         *)
LEMMA NativeGap ==
  ASSUME NativesTyped
  PROVE  /\ native[Native] \in Nat /\ SumFunction(data.bal[Native]) \in Nat
         /\ SumFunction(data.bal[Native]) - native[Native] \in Int
         /\ Backed(native, data.bal[Native], SumFunction(native), SumFunction(data.bal[Native]) - native[Native])
<1>1. native[Native] \in Nat /\ SumFunction(data.bal[Native]) \in Nat
  BY Zenon, SetSum, AccountsAre DEF NativesTyped
<1> QED  BY <1>1 DEF Backed, NativesTyped

(* A transaction that calls a contract and succeeds, if no simulation left   *)
(* balances behind, makes and loses no native tokens, although the value     *)
(* moves before the call and a payable call writes whole balances back       *)
(* (State::processTransaction, State::processContractPayable).               *)
THEOREM NativeSupplyIsMoved == ContractsSpec => NativeSupplyMoved
<1>1. ASSUME ContractsInv, balances = NoBalances, SumFunction(native') # SumFunction(native),
             NEW c \in TxCalls, ProcessTransaction(c)
      PROVE  Called(c) = Throw
  <2> DEFINE gap == SumFunction(data.bal[Native]) - native[Native]
  <2>1. /\ DataShape /\ NativesTyped /\ gap \in Int
        /\ Backed(native, data.bal[Native], SumFunction(native), gap)
    BY Zenon, <1>1, NativeGap DEF ContractsInv, TokensInv
  <2> HIDE DEF gap
  <2>2. Called(c) # Throw => Backed(native', data'.bal[Native], SumFunction(native), gap)
    BY Zenon, <1>1, <2>1, TransactionKeepsBacked
  <2> QED  BY Zenon, <1>1, <2>2 DEF Backed
<1>2. ContractsInv /\ [ContractsNext]_contractsVars =>
        [SumFunction(native') # SumFunction(native) /\ balances = NoBalances =>
           \A c \in TxCalls : ProcessTransaction(c) => Called(c) = Throw]_contractsVars
  BY Zenon, <1>1
<1> QED  BY <1>2, ContractsInductive, PTL DEF ContractsSpec, NativeSupplyMoved

(* No transaction lets the NativeWrapper fall behind the tokens it has       *)
(* issued, if no simulation left balances behind; one that fails leaves it   *)
(* the value (NativeWrapper::deposit and withdraw, State::processTransaction)*)
THEOREM NativeWrapperAlwaysKeepsUp == ContractsSpec => NativeWrapperKeepsUp
<1> DEFINE Behind == native'[Native] + SumFunction(data.bal[Native]) < native[Native] + SumFunction(data'.bal[Native])
<1>1. ASSUME ContractsInv, balances = NoBalances, Behind, NEW c \in TxCalls PROVE ~ProcessTransaction(c)
  <2> SUFFICES ASSUME ProcessTransaction(c) PROVE FALSE
    OBVIOUS
  <2> DEFINE p == SumFunction(data.bal[Native])
             q == SumFunction(data'.bal[Native])
             a == native[Native]
             b == native'[Native]
             gap == p - a
  <2>1. /\ DataShape /\ NativesTyped /\ gap \in Int /\ p \in Nat /\ a \in Nat
        /\ Backed(native, data.bal[Native], SumFunction(native), gap)
    BY Zenon, <1>1, NativeGap DEF ContractsInv, TokensInv
  <2>2. NativesTyped'
    BY Zenon, <2>1, TransactionTyped
  <2>3. q \in Nat /\ b \in Nat
    BY Zenon, <2>2, SetSum, AccountsAre DEF NativesTyped
  <2>b. b + p < a + q
    BY Zenon, <1>1
  <2>4. CASE Called(c) # Throw
    <3> HIDE DEF gap
    <3>1. Backed(native', data'.bal[Native], SumFunction(native), gap)
      BY Zenon, <1>1, <2>1, <2>4, TransactionKeepsBacked
    <3>2. q <= b + gap
      BY Zenon, <3>1 DEF Backed
    <3> HIDE DEF p, q, a, b
    <3> QED  BY SMTT(20), <2>1, <2>3, <2>b, <3>2 DEF gap
  <2>5. CASE Called(c) = Throw
    <3>1. Refund(c) /\ data' = data
      BY Zenon, <2>5 DEF ProcessTransaction, Throw
    <3>2. b >= a
      BY Zenon, <2>1, <3>1, ValueMoves DEF ProcessTransaction, NativesTyped
    <3>3. q = p
      BY Zenon, <3>1
    <3> HIDE DEF p, q, a, b, gap
    <3> QED  BY <2>1, <2>3, <2>b, <3>2, <3>3
  <2> QED  BY Zenon, <2>4, <2>5
<1>2. ContractsInv /\ [ContractsNext]_contractsVars =>
        [/\ Behind
         /\ balances = NoBalances
         => \A c \in TxCalls : ~ProcessTransaction(c)]_contractsVars
  BY Zenon, <1>1
<1> QED  BY <1>2, ContractsInductive, PTL DEF ContractsSpec, NativeWrapperKeepsUp

(* A call of the wrapper takes tokens from its caller and from itself only.  *)
LEMMA WrapperIsFair ==
  ASSUME NEW w, IsWorld(w), w.bal[Token] \in [Accounts -> Nat], w.commit,
         NEW c \in TxCalls, c.to = Wrapper, NEW x \in Run(w, c)
  PROVE  FairTo(w, x, Token, c.who)
<1> DEFINE f == w.bal[Token]
           g == x.bal[Token]
<1>0. /\ c.who \in Users /\ c.who \in Accounts /\ c.other \in Accounts /\ c.n \in Nat
      /\ Wrapper \in Accounts /\ f \in [Accounts -> Nat]
  BY Zenon, CallsAre, AccountsAre
<1>1. ASSUME NEW from \in {c.who, Wrapper}, NEW to \in Accounts, ~(f[from] < c.n), g = Move(f, from, to, c.n)
      PROVE  FairTo(w, x, Token, c.who)
  <2>1. from \in Accounts
    BY Zenon, <1>0, <1>1
  <2> HIDE DEF f, g
  <2>2. g \in [Accounts -> Nat] /\ \A a \in Accounts : a # from => g[a] >= f[a]
    BY SMT, <1>0, <1>1, <2>1, MoveKeepsSum
  <2>3. \A u \in Users : u # c.who => u # from /\ u \in Accounts
    BY Zenon, <1>1, AccountsAre
  <2>4. \A u \in Users : u # c.who => ~(g[u] < f[u])
    BY <1>0, <2>2, <2>3
  <2> QED  BY Zenon, <2>4 DEF FairTo, f, g
<1>2. ASSUME NEW to \in Accounts, x \in TransferTo(w, c.who, to, c.n) PROVE FairTo(w, x, Token, c.who)
  <2> DEFINE d == Lowered(w, c.who, c.n)
  <2>1. PaysOut(w, d, c.who, to, c.n, x)
    BY Zenon, <1>2, TransferToIs
  <2> HIDE DEF d
  <2>2. x \in MoveTokens(d, Token, Wrapper, to, c.n) /\ d.bal = w.bal /\ IsWorld(d)
    BY Zenon, <2>1 DEF PaysOut, Beside, OnlyIn
  <2>3. Moves(d, Token, Wrapper, to, c.n, x)
    BY Zenon, <2>2, MoveTokensIs
  <2>4. ~(f[Wrapper] < c.n) /\ g = Move(f, Wrapper, to, c.n)
    BY Zenon, <2>2, <2>3 DEF Moves, SetsBal
  <2> QED  BY Zenon, <1>1, <2>4
<1>3. CASE x \in Deposit(w, c.who, c.n)
  <2>1. PICK y : TakesIn(w, y, c.who, c.n, x)
    BY Zenon, <1>3, DepositIs
  <2>2. y \in TransferFrom(w, Token, Wrapper, c.who, Wrapper, c.n) /\ x.bal = y.bal
    BY Zenon, <2>1 DEF TakesIn
  <2>3. Spends(w, Token, Wrapper, c.who, Wrapper, c.n, y)
    BY Zenon, <2>2, TransferFromIs
  <2>4. ~(f[c.who] < c.n) /\ g = Move(f, c.who, Wrapper, c.n)
    BY Zenon, <2>2, <2>3 DEF Spends
  <2> QED  BY Zenon, <1>0, <1>1, <2>4
<1>4. \/ x \in Deposit(w, c.who, c.n)
      \/ x \in TransferTo(w, c.who, c.who, c.n)
      \/ x \in TransferTo(w, c.who, c.other, c.n)
  BY Zenon, ContractsAssumption DEF Run, Throw
<1> QED  BY Zenon, <1>0, <1>2, <1>3, <1>4

(* A transaction takes tokens, of the token or of the NativeWrapper, from a  *)
(* user who did not sign it only by transferFrom, against the allowance that *)
(* user gave the signer, which falls by as much: neither the wrapper's       *)
(* nested calls nor a payable call find another way (ERC20::transferFrom,    *)
(* ERC20Wrapper).                                                            *)
THEOREM OthersSpendTheirAllowance == ContractsSpec => OthersSpendAllowance
<1>1. ASSUME ContractsInv, NEW c \in TxCalls, ProcessTransaction(c), NEW k \in {Token, Native}
      PROVE  FairTo(data, data', k, c.who)
  <2> DEFINE w == World(Credited(c), balances, TRUE)
  <2>0. /\ w = World(Credited(c), balances, TRUE) /\ DataShape /\ NativesTyped /\ Supplied(data)
        /\ c.to \in Contracts
    BY Zenon, <1>1 DEF ContractsInv, TokensInv, ProcessTransaction
  <2>1. data' = data \/ \E x \in Run(w, c) : data' = [bal |-> x.bal, two |-> x.two]
    BY Zenon, <1>1 DEF ProcessTransaction, Called
  <2>2. /\ IsWorld(w) /\ Typed(w) /\ w.native \in [Accounts -> Nat]
        /\ w.bal = data.bal /\ w.two = data.two /\ w.commit
    BY ZenonT(30), <1>1, <2>0, TransactionWorld
  <2> HIDE DEF w
  <2>3. w.bal[Token] \in [Accounts -> Nat] /\ w.two[Token] \in Maps
    BY Zenon, <2>0, <2>2 DEF Supplied
  <2>4. CASE data' = data
    <3>1. \A u \in Users : data.bal[k][u] \in Nat
      BY Zenon, <2>0, AccountsAre DEF Supplied, NativesTyped
    <3>2. \A u \in Users : ~(data.bal[k][u] < data.bal[k][u])
      BY <3>1
    <3> QED  BY Zenon, <2>4, <3>2 DEF FairTo
  <2>5. ASSUME NEW x \in Run(w, c), data' = [bal |-> x.bal, two |-> x.two]
        PROVE  FairTo(data, data', k, c.who)
    <3>1. FairTo(w, x, k, c.who)
      <4>1. CASE k = Native
        BY Zenon, <2>0, <2>2, <4>1, RunTyped
      <4>2. CASE k = Token /\ c.to = Token
        <5>1. c.fn \in {"transfer", "approve", "transferFrom"}
          BY Zenon, <2>5, <4>2, ContractsAssumption DEF Run, Throw
        <5> QED  BY SMT, <2>2, <2>3, <4>2, <5>1, CoinRun
      <4>3. CASE k = Token /\ c.to = Wrapper
        BY Zenon, <2>2, <2>3, <4>3, WrapperIsFair
      <4>4. CASE k = Token /\ c.to = Native
        <5>1. OnlyIn({Native}, w, x)
          BY <2>2, <4>4, RunLocal
        <5>2. x.bal[Token] = w.bal[Token]
          BY Zenon, <5>1, ContractsAssumption DEF OnlyIn
        <5>3. \A u \in Users : w.bal[Token][u] \in Nat
          BY Zenon, <2>3, AccountsAre
        <5>4. \A u \in Users : ~(x.bal[Token][u] < w.bal[Token][u])
          BY <5>2, <5>3
        <5> QED  BY Zenon, <4>4, <5>4 DEF FairTo
      <4> QED  BY Zenon, <2>0, <4>1, <4>2, <4>3, <4>4 DEF Contracts
    <3>2. data'.bal = x.bal /\ data'.two = x.two
      BY Zenon, <2>5
    <3> QED  BY Zenon, <2>2, <3>1, <3>2 DEF FairTo
  <2> QED  BY Zenon, <2>1, <2>4, <2>5
<1>2. ContractsInv /\ [ContractsNext]_contractsVars =>
        [\A k \in {Token, Native}, u \in Users : data'.bal[k][u] < data.bal[k][u] =>
           \A c \in TxCalls : ProcessTransaction(c) /\ c.who # u =>
             data.bal[k][u] - data'.bal[k][u]
               = Amount(data.two[k][u][c.who]) - Amount(data'.two[k][u][c.who])]_contractsVars
  BY Zenon, <1>1 DEF FairTo
<1> QED  BY <1>2, ContractsInductive, PTL DEF ContractsSpec, OthersSpendAllowance

=============================================================================
