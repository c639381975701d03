------------------------------ MODULE Recursion ------------------------------
(***************************************************************************)
(* Recursion and induction over a set whose elements have ranks.           *)
(*                                                                         *)
(* A recursive function f[x \in Domain] == ... f ... is only what its      *)
(* definition says if there is such a function. There is, when the body    *)
(* looks at f only at elements of lower rank. Body is a parameter of the   *)
(* module, and of no theorem: who instantiates the module gets the         *)
(* theorems for his function.                                              *)
(***************************************************************************)
EXTENDS Naturals, WellFoundedInduction, TLAPS

CONSTANTS Domain, Rank,     \* a set, and the rank of each element
          Body(_, _)        \* what f[x] is, given f and x

\* Body does not tell apart functions that agree below x.
LooksBelow ==
    \A f, g : \A x \in Domain :
        (\A y \in Domain : Rank[y] < Rank[x] => f[y] = g[y]) => Body(f, x) = Body(g, x)

----------------------------------------------------------------------------
LEMMA Less == IsWellFoundedOn({p \in Nat \X Nat : p[1] < p[2]}, Nat)
BY NatLessThanWellFounded DEF OpToRel

\* A set of numbers has a smallest.
LEMMA Smallest ==
  ASSUME NEW U, U \subseteq Nat, U # {}
  PROVE  \E x \in U : \A y \in U : x <= y
<1> DEFINE R == {p \in Nat \X Nat : p[1] < p[2]}
<1>1. IsWellFoundedOn(R, Nat)
  BY Less
<1>2. PICK x \in U : \A y \in U : <<y, x>> \notin R
  <2> HIDE DEF R
  <2> QED
    BY <1>1, WFMin
<1>3. ASSUME NEW y \in U PROVE x <= y
  <2>1. <<y, x>> \in Nat \X Nat /\ <<y, x>> \notin R
    BY <1>2
  <2>2. ~ (y < x)
    BY <2>1
  <2> QED
    BY <2>2
<1> QED
  BY <1>2, <1>3

\* Induction over the natural numbers.
LEMMA Induction ==
  ASSUME NEW T, T \subseteq Nat, 0 \in T, \A n \in T : n + 1 \in T
  PROVE  T = Nat
<1> DEFINE U == Nat \ T
<1>1. CASE U # {}
  <2>1. PICK x \in U : \A y \in U : x <= y
    <3> HIDE DEF U
    <3>1. U \subseteq Nat
      BY DEF U
    <3> QED
      BY <1>1, <3>1, Smallest
  <2>2. x - 1 \in T
    BY <2>1
  <2> QED
    BY <2>1, <2>2
<1> QED
  BY <1>1

\* Induction over the ranks.
LEMMA RankInduction ==
  ASSUME Rank \in [Domain -> Nat], NEW P,
         \A x \in Domain : (\A y \in Domain : Rank[y] < Rank[x] => y \in P) => x \in P
  PROVE  Domain \subseteq P
<1> DEFINE T == {n \in Nat : \A x \in Domain : Rank[x] < n => x \in P}
<1>1. 0 \in T
  OBVIOUS
<1>2. ASSUME NEW n \in T PROVE n + 1 \in T
  <2>1. ASSUME NEW x \in Domain, Rank[x] < n + 1 PROVE x \in P
    <3>1. ASSUME NEW y \in Domain, Rank[y] < Rank[x] PROVE y \in P
      <4>1. Rank[y] \in Nat /\ Rank[x] \in Nat /\ n \in Nat
        OBVIOUS
      <4>2. Rank[y] < n
        BY <2>1, <3>1, <4>1
      <4> QED
        BY <4>2
    <3> QED
      BY <3>1
  <2> QED
    BY <2>1
<1>3. T = Nat
  <2> HIDE DEF T
  <2>1. T \subseteq Nat
    BY DEF T
  <2> QED
    BY <1>1, <1>2, <2>1, Induction
<1>4. ASSUME NEW x \in Domain PROVE x \in P
  <2>1. Rank[x] + 1 \in T /\ Rank[x] < Rank[x] + 1
    BY <1>3
  <2> QED
    BY <2>1
<1> QED
  BY <1>4

\* f is what the body says for the elements of rank below n.
DefinedBelow(f, n) == \A x \in Domain : Rank[x] < n => f[x] = Body(f, x)

\* There is such a function for every n: the body, applied to the one for n, is one for
\* n + 1.
LEMMA Approximations ==
  ASSUME Rank \in [Domain -> Nat], LooksBelow
  PROVE  \A n \in Nat : \E f : DefinedBelow(f, n)
<1> DEFINE T == {n \in Nat : \E f : DefinedBelow(f, n)}
<1>1. 0 \in T
  BY DEF DefinedBelow
<1>2. ASSUME NEW n \in T PROVE n + 1 \in T
  <2>1. PICK f : DefinedBelow(f, n)
    OBVIOUS
  <2> DEFINE g == [x \in Domain |-> Body(f, x)]
  <2>2. ASSUME NEW x \in Domain, Rank[x] < n + 1 PROVE g[x] = Body(g, x)
    <3>1. ASSUME NEW y \in Domain, Rank[y] < Rank[x] PROVE f[y] = g[y]
      <4>1. Rank[y] \in Nat /\ Rank[x] \in Nat /\ n \in Nat
        OBVIOUS
      <4>2. Rank[y] < n
        BY <2>2, <3>1, <4>1
      <4>3. f[y] = Body(f, y)
        BY <2>1, <4>2 DEF DefinedBelow
      <4> QED
        BY <4>3
    <3>2. g[x] = Body(f, x)
      OBVIOUS
    <3> HIDE DEF g
    <3>3. Body(f, x) = Body(g, x)
      BY <3>1 DEF LooksBelow
    <3> QED
      BY <3>2, <3>3
  <2>3. DefinedBelow(g, n + 1)
    <3> HIDE DEF g
    <3> QED
      BY <2>2 DEF DefinedBelow
  <2> QED
    BY <2>3
<1>3. T = Nat
  <2> HIDE DEF T
  <2>1. T \subseteq Nat
    BY DEF T
  <2> QED
    BY <1>1, <1>2, <2>1, Induction
<1> QED
  BY <1>3

\* Two functions defined below n agree there.
LEMMA Agreement ==
  ASSUME Rank \in [Domain -> Nat], LooksBelow,
         NEW f, NEW g, NEW m \in Nat, NEW n \in Nat, m <= n, DefinedBelow(f, m), DefinedBelow(g, n)
  PROVE  \A x \in Domain : Rank[x] < m => f[x] = g[x]
<1> DEFINE P == {x \in Domain : Rank[x] < m => f[x] = g[x]}
<1>1. ASSUME NEW x \in Domain, \A y \in Domain : Rank[y] < Rank[x] => y \in P PROVE x \in P
  <2>1. CASE Rank[x] < m
    <3>0. Rank[x] \in Nat /\ \A y \in Domain : Rank[y] \in Nat
      OBVIOUS
    <3>1. \A y \in Domain : Rank[y] < Rank[x] => f[y] = g[y]
      BY <1>1, <2>1, <3>0
    <3>2. Body(f, x) = Body(g, x)
      BY <3>1 DEF LooksBelow
    <3>3. Rank[x] < n
      BY <2>1, <3>0
    <3> QED
      BY <2>1, <3>2, <3>3 DEF DefinedBelow
  <2> QED
    BY <2>1
<1>2. Domain \subseteq P
  <2> HIDE DEF P
  <2> QED
    BY <1>1, RankInduction
<1> QED
  BY <1>2

\* Recursion over ranks defines a function.
THEOREM RecursionDefines ==
  ASSUME Rank \in [Domain -> Nat], LooksBelow
  PROVE  \E f : f = [x \in Domain |-> Body(f, x)]
<1>1. \A n \in Nat : \E f : DefinedBelow(f, n)
  BY Approximations
<1> DEFINE Below(x) == CHOOSE h : DefinedBelow(h, Rank[x] + 1)
           f == [x \in Domain |-> Below(x)[x]]
<1>2. ASSUME NEW x \in Domain PROVE DefinedBelow(Below(x), Rank[x] + 1)
  <2>1. Rank[x] + 1 \in Nat
    OBVIOUS
  <2> QED
    BY <1>1, <2>1
<1>3. ASSUME NEW x \in Domain PROVE f[x] = Body(f, x)
  <2>1. ASSUME NEW y \in Domain, Rank[y] < Rank[x] PROVE Below(x)[y] = f[y]
    <3>1. DefinedBelow(Below(y), Rank[y] + 1) /\ DefinedBelow(Below(x), Rank[x] + 1)
      BY <1>2
    <3>2. Rank[y] + 1 \in Nat /\ Rank[x] + 1 \in Nat /\ Rank[y] + 1 <= Rank[x] + 1 /\ Rank[y] < Rank[y] + 1
      BY <2>1
    <3>3. f[y] = Below(y)[y]
      OBVIOUS
    <3> HIDE DEF f, Below
    <3>4. Below(y)[y] = Below(x)[y]
      BY <3>1, <3>2, Agreement
    <3> QED
      BY <3>3, <3>4
  <2>2. f[x] = Below(x)[x] /\ Rank[x] < Rank[x] + 1
    OBVIOUS
  <2>3. DefinedBelow(Below(x), Rank[x] + 1)
    BY <1>2
  <2> HIDE DEF f, Below
  <2>4. Below(x)[x] = Body(Below(x), x)
    BY <2>2, <2>3 DEF DefinedBelow
  <2>5. Body(Below(x), x) = Body(f, x)
    BY <2>1 DEF LooksBelow
  <2> QED
    BY <2>2, <2>4, <2>5
<1>4. f = [x \in Domain |-> Body(f, x)]
  <2>1. f = [x \in Domain |-> f[x]]
    OBVIOUS
  <2> HIDE DEF f
  <2> QED
    BY <1>3, <2>1
<1> QED
  BY <1>4
=============================================================================
