---------------------------- MODULE BasicLemmas -----------------------------
(***************************************************************************)
(* Induction on the naturals in the form of a set that is closed under     *)
(* successor, division, and sequences: what the proofs about Transfers and *)
(* Keepers need of them.                                                   *)
(***************************************************************************)
EXTENDS Integers, Sequences, WellFoundedInduction, TLAPS

(* A set of naturals that is not empty has a least element.                *)
LEMMA LeastElement ==
  ASSUME NEW T \in SUBSET Nat, T # {}
  PROVE  \E x \in T : \A y \in T : x <= y
<1> DEFINE R == OpToRel(<, Nat)
<1>1. IsWellFoundedOn(R, Nat)
  BY NatLessThanWellFounded, Zenon
<1>2. \A x, y \in Nat : x < y => <<x, y>> \in R
  BY Zenon DEF OpToRel
<1> HIDE DEF R
<1>3. PICK x \in T : \A y \in T : ~ (<<y, x>> \in R)
  BY <1>1, WFMin
<1>4. \A y \in T : ~ (y < x)
  BY <1>2, <1>3
<1>5. \A y \in T : x <= y
  BY <1>4
<1> QED
  BY <1>5

(* A set that has 0, and with n also n + 1, has every natural.             *)
LEMMA SetInduction ==
  ASSUME NEW S, 0 \in S, \A n \in Nat : n \in S => n + 1 \in S
  PROVE  Nat \subseteq S
<1> SUFFICES ASSUME Nat \ S # {} PROVE FALSE
  OBVIOUS
<1>1. PICK x \in Nat \ S : \A y \in Nat \ S : x <= y
  BY LeastElement
<1>2. x # 0 /\ x - 1 \in Nat /\ x - 1 \in S
  BY <1>1
<1> QED
  BY <1>2

(* A function that is defined from its value one place before.             *)
Follows(f, X, x, G, n) ==
  /\ f \in [1..n -> X]
  /\ f[1] = x
  /\ \A i \in 2..n : f[i] = G[i][f[i - 1]]

(* Such a function exists, for every rule G.                               *)
LEMMA Recursion ==
  ASSUME NEW X, NEW x \in X, NEW len \in Nat, len > 0, NEW G \in [1..len -> [X -> X]]
  PROVE  \E f : Follows(f, X, x, G, len)
<1> DEFINE T == {n \in Nat : n + 1 <= len => \E f : Follows(f, X, x, G, n + 1)}
<1>1. 0 \in T
  <2>1. Follows([i \in 1..1 |-> x], X, x, G, 0 + 1)
    BY DEF Follows
  <2> QED
    BY <2>1
<1>2. ASSUME NEW n \in Nat, n \in T PROVE n + 1 \in T
  <2> SUFFICES ASSUME (n + 1) + 1 <= len PROVE \E f : Follows(f, X, x, G, (n + 1) + 1)
    OBVIOUS
  <2>1. PICK f : Follows(f, X, x, G, n + 1)
    BY <1>2
  <2> DEFINE g == [i \in 1..((n + 1) + 1) |->
                     IF i = (n + 1) + 1 THEN G[i][f[n + 1]] ELSE f[i]]
  <2>2. Follows(g, X, x, G, (n + 1) + 1)
    BY <2>1 DEF Follows
  <2> QED
    BY <2>2
<1> HIDE DEF T
<1>3. Nat \subseteq T
  BY <1>1, <1>2, SetInduction
<1>4. len - 1 \in T /\ (len - 1) + 1 = len
  BY <1>3
<1> QED
  BY <1>4 DEF T

(* What the quotient and the remainder are.                                *)
LEMMA Division ==
  ASSUME NEW n \in Nat, NEW d \in Nat, d > 0
  PROVE  n \div d \in Nat /\ n % d \in 0..(d - 1) /\ n = d * (n \div d) + (n % d)
OBVIOUS

(* The quotient and the remainder of a number that is given by them.       *)
LEMMA DivisionIs ==
  ASSUME NEW d \in Nat, NEW q \in Nat, NEW r \in Nat, r < d
  PROVE  (d * q + r) \div d = q /\ (d * q + r) % d = r
OBVIOUS

(* The digit r in the place before q is below the whole range.             *)
LEMMA Below ==
  ASSUME NEW a \in Nat, NEW b \in Nat, NEW q \in Nat, NEW r \in Nat, r < a, q < b
  PROVE  a * q + r < a * b
<1>1. q + 1 <= b
  OBVIOUS
<1>2. a * (q + 1) <= a * b
  BY <1>1
<1>3. a * (q + 1) = a * q + a
  OBVIOUS
<1> QED
  BY <1>2, <1>3

(* Division keeps the order.                                               *)
LEMMA DivisionGrows ==
  ASSUME NEW a \in Nat, NEW b \in Nat, NEW d \in Nat, d > 0, a <= b
  PROVE  a \div d <= b \div d
<1> DEFINE q == a \div d
           r == b \div d
<1>1. q \in Nat /\ r \in Nat /\ d * q <= a /\ b < d * r + d
  BY Division
<1> HIDE DEF q, r
<1>2. d * q < d * (r + 1)
  BY <1>1
<1>3. q > r => d * q >= d * (r + 1)
  BY <1>1
<1> QED
  BY <1>1, <1>2, <1>3 DEF q, r

(* A sequence over S is one over every larger set.                         *)
LEMMA Widen ==
  ASSUME NEW S, NEW T, S \subseteq T, NEW s \in Seq(S)
  PROVE  s \in Seq(T)
<1>1. s \in [1..Len(s) -> T] /\ Len(s) \in Nat
  OBVIOUS
<1> QED
  BY <1>1

=============================================================================
