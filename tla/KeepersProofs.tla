---------------------------- MODULE KeepersProofs ---------------------------
(***************************************************************************)
(* What the operators of Keepers compute, for lists of every length: the   *)
(* sorted list of keys is the same for every order they come in, a list of *)
(* keepers is read as it was written, and the signatures of a header are   *)
(* counted once for each keeper who made one.                              *)
(***************************************************************************)
EXTENDS Keepers, BasicLemmas, FiniteSetTheorems

-----------------------------------------------------------------------------
(* The concatenation of a sequence of sequences, by its prefixes.          *)

Cat(s, t) == s \o t

(* The length and the elements of a concatenation.                         *)
LEMMA CatIs ==
  ASSUME NEW S, NEW s \in Seq(S), NEW t \in Seq(S)
  PROVE  /\ Cat(s, t) \in Seq(S)
         /\ Len(Cat(s, t)) = Len(s) + Len(t)
         /\ \A i \in 1..Len(s) : Cat(s, t)[i] = s[i]
         /\ \A i \in 1..Len(t) : Cat(s, t)[Len(s) + i] = t[i]
BY DEF Cat

Joins(f, seqs, S) ==
  /\ f \in [1..Len(seqs) -> Seq(S)]
  /\ f[1] = seqs[1]
  /\ \A i \in 2..Len(seqs) : f[i] = Cat(f[i - 1], seqs[i])

(* The concatenations of the first sequences, one more at a time, exist.   *)
LEMMA PrefixesExist ==
  ASSUME NEW S, NEW seqs \in Seq(Seq(S)), Len(seqs) > 0
  PROVE  \E f : Joins(f, seqs, S)
<1> DEFINE X == Seq(S)
           x == seqs[1]
           len == Len(seqs)
           G == [i \in 1..len |-> [s \in X |-> Cat(s, seqs[i])]]
<1>1. x \in X /\ len \in Nat /\ len > 0 /\ \A i \in 1..len : seqs[i] \in X
  OBVIOUS
<1>2. \A s, t \in X : Cat(s, t) \in X
  BY CatIs
<1>3. G \in [1..len -> [X -> X]]
  <2> HIDE DEF X, len
  <2> QED
    BY <1>1, <1>2
<1>4. \A i \in 1..len, s \in X : G[i][s] = Cat(s, seqs[i])
  OBVIOUS
<1> HIDE DEF X, x, len, G
<1>5. PICK f : Follows(f, X, x, G, len)
  BY <1>1, <1>3, Recursion
<1>6. f \in [1..len -> X] /\ f[1] = x
  BY <1>5 DEF Follows
<1>7. ASSUME NEW i \in 2..len PROVE f[i] = Cat(f[i - 1], seqs[i])
  <2>1. f[i] = G[i][f[i - 1]]
    BY <1>5 DEF Follows
  <2>2. f[i - 1] \in X /\ i \in 1..len
    BY <1>1, <1>6
  <2> QED
    BY <2>1, <2>2, <1>4
<1> QED
  BY <1>6, <1>7 DEF Joins, X, x, len

(* FlattenSeq is the last of them.                                         *)
LEMMA FlattenIs ==
  ASSUME NEW S, NEW seqs \in Seq(Seq(S)), Len(seqs) > 0
  PROVE  \E f : Joins(f, seqs, S) /\ FlattenSeq(seqs) = f[Len(seqs)]
<1> DEFINE len == Len(seqs)
           Is(g) == g = [i \in 1..len |-> IF i = 1 THEN seqs[i] ELSE Cat(g[i - 1], seqs[i])]
           flatten == CHOOSE g : Is(g)
<1>1. FlattenSeq(seqs) = flatten[len]
  <2>1. Len(seqs) # 0
    OBVIOUS
  <2> QED
    BY <2>1, Zenon DEF FlattenSeq, Cat
<1>0. len \in Nat /\ len > 0
  OBVIOUS
<1>2. PICK f : Joins(f, seqs, S)
  BY PrefixesExist
<1>3. /\ f \in [1..len -> Seq(S)] /\ f[1] = seqs[1]
      /\ \A i \in 2..len : f[i] = Cat(f[i - 1], seqs[i])
  BY <1>2 DEF Joins
<1> HIDE DEF len
<1>4. ASSUME NEW i \in 1..len
      PROVE  f[i] = IF i = 1 THEN seqs[i] ELSE Cat(f[i - 1], seqs[i])
  BY <1>3, <1>0
<1>5. Is(f)
  BY <1>3, <1>4
<1>6. Is(flatten)
  <2> HIDE DEF Is
  <2> QED
    BY <1>5
<1>7. ASSUME NEW i \in 1..len
      PROVE  flatten[i] = IF i = 1 THEN seqs[i] ELSE Cat(flatten[i - 1], seqs[i])
  <2> HIDE DEF flatten
  <2> QED
    BY <1>6
<1> HIDE DEF flatten, Is
<1> DEFINE T == {n \in Nat : n < len => flatten[n + 1] = f[n + 1]}
<1>8. 0 \in T
  <2>1. 1 \in 1..len
    BY <1>0
  <2>2. flatten[1] = f[1]
    BY <1>4, <1>7, <2>1
  <2> QED
    BY <2>2
<1>9. ASSUME NEW n \in Nat, n \in T PROVE n + 1 \in T
  <2> SUFFICES ASSUME n + 1 < len PROVE flatten[(n + 1) + 1] = f[(n + 1) + 1]
    OBVIOUS
  <2>1. n + 2 \in 1..len /\ n + 2 # 1 /\ (n + 2) - 1 = n + 1 /\ (n + 1) + 1 = n + 2
    BY <1>0
  <2>2. flatten[n + 1] = f[n + 1]
    BY <1>9, <1>0
  <2>3. flatten[n + 2] = Cat(flatten[n + 1], seqs[n + 2])
    BY <1>7, <2>1
  <2>4. f[n + 2] = Cat(f[n + 1], seqs[n + 2])
    BY <1>4, <2>1
  <2> QED
    BY <2>1, <2>2, <2>3, <2>4
<1> HIDE DEF T
<1>10. Nat \subseteq T
  BY <1>8, <1>9, SetInduction
<1>11. len - 1 \in Nat /\ (len - 1) + 1 = len /\ len - 1 < len
  BY <1>0
<1>12. flatten[len] = f[len]
  BY <1>10, <1>11 DEF T
<1> QED
  BY <1>1, <1>2, <1>12 DEF len

-----------------------------------------------------------------------------
(* A list of keepers is read as it was written.                            *)

Pairs(a) == [i \in DOMAIN a |-> <<1, a[i]>>]

(* Every second element of the flat list is an address.                    *)
LEMMA PairsAre ==
  ASSUME NEW S, Nat \subseteq S, NEW a \in Seq(S), Len(a) > 0
  PROVE  /\ FlattenSeq(Pairs(a)) \in Seq(S)
         /\ \A i \in 1..Len(a) : 2 * i \in 1..Len(FlattenSeq(Pairs(a)))
                                 /\ FlattenSeq(Pairs(a))[2 * i] = a[i]
<1> DEFINE seqs == Pairs(a)
           len == Len(a)
<1>1. /\ seqs \in Seq(Seq(S)) /\ Len(seqs) = len /\ len \in Nat /\ len > 0
      /\ \A i \in 1..len : seqs[i] \in Seq(S) /\ Len(seqs[i]) = 2 /\ seqs[i][2] = a[i]
  <2>1. \A e \in S : <<1, e>> \in Seq(S) /\ Len(<<1, e>>) = 2 /\ <<1, e>>[2] = e
    OBVIOUS
  <2>2. len \in Nat /\ len > 0 /\ DOMAIN a = 1..len /\ \A i \in 1..len : a[i] \in S
    OBVIOUS
  <2>3. seqs = [i \in 1..len |-> <<1, a[i]>>]
    BY <2>2, Zenon DEF Pairs
  <2> HIDE DEF seqs, len
  <2>4. \A i \in 1..len : seqs[i] = <<1, a[i]>>
    BY <2>3
  <2>5. \A i \in 1..len : seqs[i] \in Seq(S) /\ Len(seqs[i]) = 2 /\ seqs[i][2] = a[i]
    BY <2>1, <2>2, <2>4
  <2>6. seqs \in [1..len -> Seq(S)]
    BY <2>3, <2>4, <2>5, Zenon
  <2>7. seqs \in Seq(Seq(S)) /\ Len(seqs) = len
    BY <2>2, <2>6
  <2> QED
    BY <2>2, <2>5, <2>7
<1> HIDE DEF seqs, len
<1>2. PICK f : Joins(f, seqs, S) /\ FlattenSeq(seqs) = f[len]
  BY <1>1, FlattenIs
<1>3. /\ f \in [1..len -> Seq(S)] /\ f[1] = seqs[1]
      /\ \A i \in 2..len : f[i] = Cat(f[i - 1], seqs[i])
  BY <1>1, <1>2 DEF Joins
<1> DEFINE Holds(n) == Len(f[n]) = 2 * n /\ \A i \in 1..n : f[n][2 * i] = a[i]
           T == {n \in Nat : n < len => Holds(n + 1)}
<1>4. 0 \in T
  <2>1. Len(f[1]) = 2 /\ f[1][2] = a[1]
    BY <1>1, <1>3
  <2> QED
    BY <2>1
<1>5. ASSUME NEW n \in Nat, n \in T PROVE n + 1 \in T
  <2> SUFFICES ASSUME n + 1 < len PROVE Holds((n + 1) + 1)
    OBVIOUS
  <2> DEFINE s == f[n + 1]
             t == seqs[n + 2]
  <2>1. s \in Seq(S) /\ Len(s) = 2 * (n + 1) /\ \A i \in 1..(n + 1) : s[2 * i] = a[i]
    <3>1. n + 1 \in 1..len /\ n < len
      BY <1>1
    <3>2. Holds(n + 1)
      BY <1>5, <3>1
    <3> QED
      BY <1>3, <3>1, <3>2
  <2>2. t \in Seq(S) /\ Len(t) = 2 /\ t[2] = a[n + 2]
    BY <1>1
  <2>3. f[n + 2] = Cat(s, t)
    <3>1. n + 2 \in 2..len /\ (n + 2) - 1 = n + 1
      BY <1>1
    <3> QED
      BY <1>3, <3>1
  <2> HIDE DEF s, t
  <2>4. /\ Len(Cat(s, t)) = 2 * (n + 1) + 2
        /\ \A i \in 1..(2 * (n + 1)) : Cat(s, t)[i] = s[i]
        /\ Cat(s, t)[2 * (n + 1) + 2] = a[n + 2]
    <3>1. /\ Len(Cat(s, t)) = Len(s) + Len(t)
          /\ \A i \in 1..Len(s) : Cat(s, t)[i] = s[i]
          /\ \A i \in 1..Len(t) : Cat(s, t)[Len(s) + i] = t[i]
      <4>1. s \in Seq(S) /\ t \in Seq(S)
        BY <2>1, <2>2
      <4>2. Len(Cat(s, t)) = Len(s) + Len(t)
        BY ONLY <4>1, CatIs
      <4>3. \A i \in 1..Len(s) : Cat(s, t)[i] = s[i]
        BY ONLY <4>1, CatIs
      <4>4. \A i \in 1..Len(t) : Cat(s, t)[Len(s) + i] = t[i]
        BY ONLY <4>1, CatIs
      <4> QED
        BY <4>2, <4>3, <4>4
    <3>2. 2 \in 1..2
      OBVIOUS
    <3> QED
      BY <2>1, <2>2, <3>1, <3>2
  <2>5. ASSUME NEW i \in 1..(n + 2) PROVE Cat(s, t)[2 * i] = a[i]
    <3>1. CASE i = n + 2
      <4>1. 2 * i = 2 * (n + 1) + 2
        BY <3>1
      <4> QED
        BY <3>1, <4>1, <2>4
    <3>2. CASE i # n + 2
      <4>1. i \in 1..(n + 1) /\ 2 * i \in 1..(2 * (n + 1))
        BY <3>2
      <4> QED
        BY <4>1, <2>1, <2>4
    <3> QED
      BY <3>1, <3>2
  <2>6. (n + 1) + 1 = n + 2 /\ 2 * (n + 1) + 2 = 2 * (n + 2)
    OBVIOUS
  <2> QED
    BY <2>3, <2>4, <2>5, <2>6
<1> HIDE DEF T
<1>6. Nat \subseteq T
  BY <1>4, <1>5, SetInduction
<1>7. len - 1 \in Nat /\ (len - 1) + 1 = len /\ len - 1 < len
  BY <1>1
<1>8. Holds(len)
  BY <1>6, <1>7 DEF T
<1>9. f[len] \in Seq(S) /\ \A i \in 1..len : 2 * i \in 1..Len(f[len]) /\ f[len][2 * i] = a[i]
  BY <1>1, <1>3, <1>8
<1> QED
  BY <1>2, <1>9 DEF seqs, len

Raw(a) == <<Len(a)>> \o FlattenSeq(Pairs(a))

(* DeserializeKeepers reads the list that has been written.                *)
LEMMA KeepersComeBack ==
  ASSUME NEW S, Nat \subseteq S, NEW a \in Seq(S), Len(a) > 0
  PROVE  DeserializeKeepers(Raw(a)) = a
<1> DEFINE flat == FlattenSeq(Pairs(a))
           len == Len(a)
           raw == <<len>> \o flat
<1>1. flat \in Seq(S) /\ \A i \in 1..len : 2 * i \in 1..Len(flat) /\ flat[2 * i] = a[i]
  BY PairsAre
<1>2. len \in Nat /\ a = [i \in 1..len |-> a[i]]
  OBVIOUS
<1> HIDE DEF flat, len
<1>3. <<len>> \in Seq(S) /\ Len(<<len>>) = 1 /\ <<len>>[1] = len
  BY <1>2
<1>0. raw[1] = len /\ \A j \in 1..Len(flat) : raw[1 + j] = flat[j]
  <2> DEFINE h == <<len>>
  <2>1. raw = Cat(h, flat)
    BY DEF Cat
  <2> HIDE DEF raw, h
  <2>2. h \in Seq(S) /\ Len(h) = 1 /\ h[1] = len
    BY <1>3 DEF h
  <2>3. /\ \A i \in 1..Len(h) : Cat(h, flat)[i] = h[i]
        /\ \A i \in 1..Len(flat) : Cat(h, flat)[Len(h) + i] = flat[i]
    <3>1. h \in Seq(S) /\ flat \in Seq(S)
      BY <1>1, <2>2
    <3>2. \A i \in 1..Len(h) : Cat(h, flat)[i] = h[i]
      BY ONLY <3>1, CatIs
    <3>3. \A i \in 1..Len(flat) : Cat(h, flat)[Len(h) + i] = flat[i]
      BY ONLY <3>1, CatIs
    <3> QED
      BY <3>2, <3>3
  <2> QED
    BY <2>1, <2>2, <2>3
<1> HIDE DEF raw
<1>4. ASSUME NEW i \in 1..len PROVE raw[2 * i + 1] = a[i]
  <2>1. 2 * i + 1 = 1 + 2 * i /\ 2 * i \in 1..Len(flat)
    BY <1>1, <1>2
  <2> QED
    BY <2>1, <1>0, <1>1
<1>5. [i \in 1..raw[1] |-> raw[2 * i + 1]] = [i \in 1..len |-> a[i]]
  BY <1>0, <1>4
<1>6. Raw(a) = raw
  BY DEF Raw, raw, len, flat
<1>7. DeserializeKeepers(raw) = [i \in 1..raw[1] |-> raw[2 * i + 1]]
  BY DEF DeserializeKeepers
<1> QED
  BY <1>2, <1>5, <1>6, <1>7

(* Two lists are written alike only if they are equal.                     *)
LEMMA RawTellsApart ==
  ASSUME NEW S, Nat \subseteq S, NEW a \in Seq(S), NEW b \in Seq(S), Len(a) > 0, Len(b) > 0
  PROVE  Raw(a) = Raw(b) <=> a = b
BY KeepersComeBack

-----------------------------------------------------------------------------
(* The order of the keys.                                                  *)

IsIncreasing(s) == \A i, j \in DOMAIN s : i < j => s[i] < s[j]

NoTwice(s) == \A i, j \in DOMAIN s : s[i] = s[j] => i = j

(* Where two increasing lists first differ, neither is above the other.    *)
LEMMA FirstDifference ==
  ASSUME NEW s \in Seq(Nat), NEW t \in Seq(Nat), IsIncreasing(s), IsIncreasing(t),
         ToSet(s) \subseteq ToSet(t), NEW i \in DOMAIN s, i \in DOMAIN t,
         \A k \in Nat : k > 0 /\ k < i => s[k] = t[k]
  PROVE  t[i] <= s[i]
<1> SUFFICES ASSUME s[i] < t[i] PROVE FALSE
  <2>1. s[i] \in Nat /\ t[i] \in Nat
    OBVIOUS
  <2> QED
    BY <2>1
<1>1. s[i] \in ToSet(t)
  BY DEF ToSet
<1>2. PICK j \in DOMAIN t : t[j] = s[i]
  BY <1>1 DEF ToSet
<1>3. i \in Nat /\ j \in Nat /\ j > 0 /\ j \in 1..Len(t) /\ i \in 1..Len(s)
  OBVIOUS
<1>4. t[i] \in Nat /\ t[j] \in Nat /\ s[i] \in Nat
  OBVIOUS
<1>5. ~ (i < j) /\ i # j
  BY <1>2, <1>4 DEF IsIncreasing
<1>6. j < i
  BY <1>3, <1>5
<1>7. s[j] = t[j] /\ j \in DOMAIN s
  BY <1>3, <1>6
<1>8. s[j] < s[i]
  BY <1>6, <1>7 DEF IsIncreasing
<1> QED
  BY <1>2, <1>4, <1>7, <1>8

(* An increasing list with no more elements than another one is no longer. *)
LEMMA NotLonger ==
  ASSUME NEW a \in Seq(Nat), NEW b \in Seq(Nat), IsIncreasing(b), ToSet(b) \subseteq ToSet(a),
         \A i \in Nat : i \in DOMAIN a /\ i \in DOMAIN b => a[i] = b[i]
  PROVE  Len(b) <= Len(a)
<1>0. Len(a) \in Nat /\ Len(b) \in Nat
  OBVIOUS
<1> SUFFICES ASSUME Len(a) < Len(b) PROVE FALSE
  BY <1>0
<1>1. PICK n \in Nat : n = Len(a) + 1
  OBVIOUS
<1>2. n \in DOMAIN b /\ DOMAIN a = 1..Len(a) /\ DOMAIN b = 1..Len(b)
  BY <1>1
<1>3. b[n] \in ToSet(b)
  BY <1>2 DEF ToSet
<1>4. PICK j \in DOMAIN a : a[j] = b[n]
  BY <1>3 DEF ToSet
<1>5. j \in Nat /\ j \in DOMAIN b /\ j < n
  BY <1>0, <1>1, <1>2
<1>6. b[j] < b[n]
  BY <1>2, <1>5 DEF IsIncreasing
<1>7. b[j] \in Nat /\ b[n] \in Nat /\ a[j] = b[j]
  BY <1>2, <1>5
<1> QED
  BY <1>4, <1>6, <1>7

(* A set has one increasing list.                                          *)
LEMMA IncreasingIsUnique ==
  ASSUME NEW s \in Seq(Nat), NEW t \in Seq(Nat), IsIncreasing(s), IsIncreasing(t),
         ToSet(s) = ToSet(t)
  PROVE  s = t
<1> DEFINE Differ == {i \in Nat : i \in DOMAIN s /\ i \in DOMAIN t /\ s[i] # t[i]}
<1>1. DOMAIN s = 1..Len(s) /\ DOMAIN t = 1..Len(t) /\ Len(s) \in Nat /\ Len(t) \in Nat
  OBVIOUS
<1>2. Differ = {}
  <2> SUFFICES ASSUME Differ # {} PROVE FALSE
    OBVIOUS
  <2>1. PICK i \in Differ : \A j \in Differ : i <= j
    BY LeastElement
  <2>2. \A k \in Nat : k > 0 /\ k < i => s[k] = t[k]
    <3> SUFFICES ASSUME NEW k \in Nat, k > 0, k < i, s[k] # t[k] PROVE FALSE
      OBVIOUS
    <3>1. k \in DOMAIN s /\ k \in DOMAIN t
      BY <1>1
    <3>2. k \in Differ /\ ~ (i <= k)
      BY <3>1
    <3> QED
      BY <2>1, <3>2
  <2>3. t[i] <= s[i]
    BY <2>2, FirstDifference
  <2>4. s[i] <= t[i]
    BY <2>2, FirstDifference
  <2>5. s[i] \in Nat /\ t[i] \in Nat /\ s[i] # t[i]
    OBVIOUS
  <2> QED
    BY <2>3, <2>4, <2>5
<1>4. \A i \in Nat : i \in DOMAIN s /\ i \in DOMAIN t => s[i] = t[i]
  BY <1>2
<1>5. Len(s) = Len(t)
  <2>1. Len(s) <= Len(t)
    BY <1>4, NotLonger
  <2>2. Len(t) <= Len(s)
    BY <1>4, NotLonger
  <2>3. \A m, n \in Nat : m <= n /\ n <= m => m = n
    OBVIOUS
  <2> QED
    BY <1>1, <2>1, <2>2, <2>3, Zenon
<1> HIDE DEF Differ
<1>6. s = [i \in 1..Len(s) |-> s[i]] /\ t = [i \in 1..Len(s) |-> t[i]]
  BY <1>5
<1>7. \A i \in 1..Len(s) : s[i] = t[i]
  BY <1>1, <1>4, <1>5
<1> QED
  BY <1>6, <1>7

(* The place of each key in the sorted list: as many as are not above it.  *)
NotAbove(s, i) == {j \in DOMAIN s : s[j] <= s[i]}

Place(s) == [i \in DOMAIN s |-> Cardinality(NotAbove(s, i))]

(* A larger key has a later place.                                         *)
LEMMA PlacesGrow ==
  ASSUME NEW s \in Seq(Nat), NEW i \in DOMAIN s, NEW j \in DOMAIN s
  PROVE  /\ Place(s)[i] \in DOMAIN s
         /\ s[i] < s[j] => Place(s)[i] < Place(s)[j]
<1> DEFINE A == NotAbove(s, i)
           B == NotAbove(s, j)
           n == Len(s)
<1>1. DOMAIN s = 1..n /\ n \in Nat /\ \A k \in 1..n : s[k] \in Nat
  OBVIOUS
<1>2. IsFiniteSet(1..n) /\ Cardinality(1..n) = n
  <2>1. 1 \in Int /\ n \in Int /\ (n < 1 => n = 0)
    BY <1>1
  <2>2. IsFiniteSet(1..n) /\ Cardinality(1..n) = IF 1 > n THEN 0 ELSE n - 1 + 1
    BY <2>1, FS_Interval, Zenon
  <2> QED
    BY <1>1, <2>1, <2>2
<1>3. A \in SUBSET (1..n) /\ B \in SUBSET (1..n) /\ i \in A /\ j \in B
  BY <1>1 DEF NotAbove
<1>4. s[i] < s[j] => A \subseteq B /\ j \notin A
  BY <1>1 DEF NotAbove
<1>5. Place(s)[i] = Cardinality(A) /\ Place(s)[j] = Cardinality(B)
  BY DEF Place
<1> HIDE DEF A, B, n
<1>6. /\ IsFiniteSet(A) /\ IsFiniteSet(B) /\ Cardinality(A) <= n
      /\ Cardinality(A) \in Nat /\ Cardinality(B) \in Nat
  BY <1>2, <1>3, FS_Subset, FS_CardinalityType
<1>7. Cardinality(A) # 0
  BY <1>3, <1>6, FS_EmptySet
<1>8. ASSUME s[i] < s[j] PROVE Cardinality(A) < Cardinality(B)
  <2>1. A \in SUBSET B /\ A # B
    BY <1>3, <1>4, <1>8
  <2>2. Cardinality(A) <= Cardinality(B) /\ Cardinality(A) # Cardinality(B)
    BY <1>6, <2>1, FS_Subset
  <2> QED
    BY <1>6, <2>2
<1> QED
  BY <1>1, <1>5, <1>6, <1>7, <1>8

(* The order that SortPublicKeys chooses exists.                           *)
LEMMA OrderExists ==
  ASSUME NEW s \in Seq(Nat), NoTwice(s)
  PROVE  \E p \in Bijection(DOMAIN s, DOMAIN s) :
           \A i, j \in DOMAIN s : i < j => s[p[i]] <= s[p[j]]
<1> DEFINE D == DOMAIN s
           r == Place(s)
           p == [k \in D |-> CHOOSE i \in D : r[i] = k]
<1>1. IsFiniteSet(D) /\ D \subseteq Nat
  BY FS_Interval
<1>2. ASSUME NEW i \in D, NEW j \in D PROVE s[i] < s[j] => r[i] < r[j]
  BY PlacesGrow
<1>3. r \in [D -> D]
  <2>1. \A i \in D : r[i] \in D
    BY PlacesGrow
  <2> QED
    BY <2>1 DEF Place
<1>4. \A i \in D : s[i] \in Nat
  OBVIOUS
<1>5. \A i, j \in D : s[i] = s[j] => i = j
  BY DEF NoTwice
<1> HIDE DEF D, r
<1>6. \A i, j \in D : r[i] = r[j] => i = j
  <2> SUFFICES ASSUME NEW i \in D, NEW j \in D, r[i] = r[j] PROVE i = j
    OBVIOUS
  <2>1. r[i] \in Nat /\ r[j] \in Nat /\ s[i] \in Nat /\ s[j] \in Nat
    BY <1>1, <1>3, <1>4
  <2>2. ~ (s[i] < s[j]) /\ ~ (s[j] < s[i])
    BY <1>2, <2>1
  <2> QED
    BY <1>5, <2>1, <2>2
<1>7. r \in Injection(D, D)
  BY <1>3, <1>6 DEF Injection, IsInjective
<1>8. r \in Surjection(D, D)
  BY <1>1, <1>7, FS_Injection
<1>9. \A k \in D : \E i \in D : r[i] = k
  BY <1>8 DEF Surjection
<1>10. \A k \in D : p[k] \in D /\ r[p[k]] = k
  BY <1>9
<1>11. \A i \in D : p[r[i]] = i
  BY <1>3, <1>6, <1>10
<1>12. p \in [D -> D]
  BY <1>10
<1> HIDE DEF p
<1>13. p \in Bijection(D, D)
  <2>1. p \in Injection(D, D)
    <3>1. \A i, j \in D : p[i] = p[j] => i = j
      BY <1>10
    <3> QED
      BY <1>12, <3>1 DEF Injection, IsInjective
  <2>2. p \in Surjection(D, D)
    BY <1>3, <1>11, <1>12 DEF Surjection
  <2> QED
    BY <2>1, <2>2 DEF Bijection
<1>14. ASSUME NEW i \in D, NEW j \in D, i < j PROVE s[p[i]] <= s[p[j]]
  <2>1. s[p[i]] \in Nat /\ s[p[j]] \in Nat /\ p[i] \in D /\ p[j] \in D /\ i \in Nat /\ j \in Nat
    BY <1>1, <1>4, <1>10
  <2>2. s[p[j]] < s[p[i]] => r[p[j]] < r[p[i]]
    BY <1>2, <2>1
  <2> QED
    BY <1>10, <1>14, <2>1, <2>2
<1> QED
  BY <1>13, <1>14 DEF D

(* SortPublicKeys returns the increasing list of the same keys.            *)
LEMMA SortedIs ==
  ASSUME NEW s \in Seq(Nat), NoTwice(s)
  PROVE  /\ SortPublicKeys(s) \in Seq(Nat)
         /\ Len(SortPublicKeys(s)) = Len(s)
         /\ IsIncreasing(SortPublicKeys(s))
         /\ ToSet(SortPublicKeys(s)) = ToSet(s)
<1> DEFINE D == DOMAIN s
           Sorts(p) == \A i, j \in D : i < j => s[p[i]] <= s[p[j]]
           p == CHOOSE q \in Bijection(D, D) : Sorts(q)
           t == [i \in D |-> s[p[i]]]
<1>1. SortPublicKeys(s) = t
  BY Zenon DEF SortPublicKeys
<1>2. p \in Bijection(D, D) /\ Sorts(p)
  <2>1. \E q \in Bijection(D, D) : Sorts(q)
    BY OrderExists, Zenon
  <2> HIDE DEF D, Sorts
  <2> QED
    BY <2>1
<1>3. D = 1..Len(s) /\ Len(s) \in Nat /\ D \subseteq Nat /\ \A i \in D : s[i] \in Nat
  OBVIOUS
<1>4. \A i, j \in D : s[i] = s[j] => i = j
  BY DEF NoTwice
<1> HIDE DEF p
<1>5. p \in [D -> D] /\ (\A i, j \in D : p[i] = p[j] => i = j) /\ \A k \in D : \E i \in D : p[i] = k
  BY <1>2, Zenon DEF Bijection, Injection, IsInjective, Surjection
<1>6. Sorts(p)
  BY <1>2
<1> HIDE DEF D
<1>7. DOMAIN t = D /\ \A i \in D : t[i] = s[p[i]] /\ t[i] \in Nat
  BY <1>3, <1>5
<1>8. ASSUME NEW i \in D, NEW j \in D, i < j PROVE t[i] < t[j]
  <2>1. t[i] <= t[j]
    BY <1>6, <1>7, <1>8
  <2>2. i # j /\ i \in Nat /\ j \in Nat
    BY <1>3, <1>8
  <2>3. t[i] # t[j]
    BY <1>4, <1>5, <1>7, <2>2
  <2> QED
    BY <1>7, <2>1, <2>3
<1> HIDE DEF t
<1>9. IsIncreasing(t)
  BY <1>7, <1>8 DEF IsIncreasing
<1>10. ToSet(t) = ToSet(s)
  <2>1. ToSet(t) = {t[i] : i \in D} /\ ToSet(s) = {s[i] : i \in D}
    BY <1>7 DEF ToSet, D
  <2> QED
    BY <1>5, <1>7, <2>1
<1>11. t \in Seq(Nat) /\ Len(t) = Len(s)
  <2>1. t \in [1..Len(s) -> Nat]
    BY <1>3, <1>7 DEF t
  <2>2. \A n \in Nat : t \in [1..n -> Nat] => t \in Seq(Nat) /\ Len(t) = n
    OBVIOUS
  <2> QED
    BY <1>3, <2>1, <2>2
<1> QED
  BY <1>1, <1>9, <1>10, <1>11

-----------------------------------------------------------------------------
(* Two lists of keys make one list of keepers if they have the same keys.  *)

Addresses(s) == [i \in DOMAIN s |-> KeccakAddress(s[i])]

(* Lists of addresses are equal only if the lists of keys are.             *)
LEMMA AddressesDiffer ==
  ASSUME NEW s \in Seq(Nat), NEW t \in Seq(Nat), ToSet(s) \subseteq Keys, ToSet(t) \subseteq Keys
  PROVE  /\ Addresses(s) \in Seq(Nat) /\ Len(Addresses(s)) = Len(s)
         /\ Addresses(s) = Addresses(t) => s = t
<1>1. ASSUME NEW u \in Seq(Nat), ToSet(u) \subseteq Keys
      PROVE  /\ \A i \in 1..Len(u) : u[i] \in Keys /\ Addresses(u)[i] = AddressOf[u[i]]
             /\ Addresses(u) \in Seq(Nat) /\ Len(Addresses(u)) = Len(u)
  <2>1. \A i \in 1..Len(u) : u[i] \in Keys
    BY <1>1 DEF ToSet
  <2>2. DOMAIN u = 1..Len(u) /\ Len(u) \in Nat
    OBVIOUS
  <2>3. \A i \in 1..Len(u) : AddressOf[u[i]] \in Nat
    BY <2>1, NoCollision
  <2>4. Addresses(u) = [i \in 1..Len(u) |-> AddressOf[u[i]]]
    BY <2>2, Zenon DEF Addresses, KeccakAddress
  <2>5. Addresses(u) \in [1..Len(u) -> Nat]
    BY <2>3, <2>4
  <2>6. \A f, n : n \in Nat /\ f \in [1..n -> Nat] => f \in Seq(Nat) /\ Len(f) = n
    OBVIOUS
  <2> QED
    BY <2>1, <2>2, <2>4, <2>5, <2>6
<1>2. ASSUME Addresses(s) = Addresses(t) PROVE s = t
  <2>1. Len(s) = Len(t) /\ Len(s) \in Nat
    BY <1>1, <1>2
  <2>2. \A i \in 1..Len(s) : s[i] = t[i]
    BY <1>1, <1>2, <2>1, NoCollision
  <2>3. s = [i \in 1..Len(s) |-> s[i]] /\ t = [i \in 1..Len(s) |-> t[i]]
    BY <2>1
  <2> QED
    BY <2>2, <2>3
<1> QED
  BY <1>1, <1>2

(* isEpoch compares sets of keys.                                          *)
LEMMA EpochsDiffer ==
  ASSUME NEW known \in Seq(Nat), NoTwice(known), ToSet(known) \subseteq Keys, Len(known) > 0,
         NEW peers \in Seq(Nat), NoTwice(peers), ToSet(peers) \subseteq Keys, Len(peers) > 0
  PROVE  IsEpoch(CurEpochConPubKeyBytes(PubKeyList(known)), peers)
           <=> ToSet(known) # ToSet(peers)
<1> DEFINE k == SortPublicKeys(known)
           q == SortPublicKeys(peers)
<1>1. /\ k \in Seq(Nat) /\ Len(k) = Len(known) /\ IsIncreasing(k) /\ ToSet(k) = ToSet(known)
      /\ q \in Seq(Nat) /\ Len(q) = Len(peers) /\ IsIncreasing(q) /\ ToSet(q) = ToSet(peers)
  BY SortedIs
<1> HIDE DEF k, q
<1>2. \A s : <<Len(s)>> \o FlattenSeq([i \in DOMAIN s |-> <<1, KeccakAddress(s[i])>>])
             = <<Len(s)>> \o FlattenSeq(Pairs(Addresses(s)))
  <2> SUFFICES ASSUME NEW s
               PROVE  [i \in DOMAIN s |-> <<1, KeccakAddress(s[i])>>] = Pairs(Addresses(s))
    BY Zenon
  <2>1. DOMAIN Addresses(s) = DOMAIN s /\ \A i \in DOMAIN s : Addresses(s)[i] = KeccakAddress(s[i])
    BY DEF Addresses
  <2>2. Pairs(Addresses(s)) = [i \in DOMAIN s |-> <<1, Addresses(s)[i]>>]
    BY <2>1, Zenon DEF Pairs
  <2> QED
    BY <2>1, <2>2
<1>3. /\ Addresses(k) \in Seq(Nat) /\ Len(Addresses(k)) = Len(k)
      /\ Addresses(q) \in Seq(Nat) /\ Len(Addresses(q)) = Len(q)
      /\ Addresses(k) = Addresses(q) => k = q
  BY <1>1, AddressesDiffer
<1>4. CurEpochConPubKeyBytes(PubKeyList(known)) = Raw(Addresses(k))
  BY <1>2, <1>3, Zenon DEF CurEpochConPubKeyBytes, PubKeyList, k, Raw
<1>5. KeepersSink(peers) = Raw(Addresses(q))
  BY <1>2, <1>3, Zenon DEF KeepersSink, q, Raw
<1>6. Raw(Addresses(k)) = Raw(Addresses(q)) <=> Addresses(k) = Addresses(q)
  <2> DEFINE S == Nat
             a == Addresses(k)
             b == Addresses(q)
  <2>1. Nat \subseteq S /\ a \in Seq(S) /\ b \in Seq(S) /\ Len(a) > 0 /\ Len(b) > 0
    BY <1>1, <1>3
  <2> HIDE DEF S, a, b
  <2>2. Raw(a) = Raw(b) <=> a = b
    BY ONLY <2>1, RawTellsApart
  <2> QED
    BY <2>2 DEF a, b
<1>7. k = q <=> ToSet(known) = ToSet(peers)
  BY <1>1, IncreasingIsUnique
<1> QED
  BY <1>3, <1>4, <1>5, <1>6, <1>7, Zenon DEF IsEpoch

(* A list that has as many elements as places names nobody twice.          *)
LEMMA CountedOnce ==
  ASSUME NEW S, NEW s \in Seq(S), Cardinality(ToSet(s)) = Len(s)
  PROVE  NoTwice(s)
<1> DEFINE n == Len(s)
<1>1. n \in Nat /\ DOMAIN s = 1..n /\ s = [i \in 1..n |-> s[i]]
  OBVIOUS
<1> HIDE DEF n
<1>2. s \in Surjection(1..n, ToSet(s))
  <2>1. ToSet(s) = {s[i] : i \in 1..n}
    BY <1>1 DEF ToSet
  <2> QED
    BY <1>1, <2>1 DEF Surjection
<1>3. IsFiniteSet(1..n) /\ Cardinality(1..n) = n
  <2>1. 1 \in Int /\ n \in Int /\ (n < 1 => n = 0)
    BY <1>1
  <2>2. IsFiniteSet(1..n) /\ Cardinality(1..n) = IF 1 > n THEN 0 ELSE n - 1 + 1
    BY <2>1, FS_Interval, Zenon
  <2> QED
    BY <1>1, <2>1, <2>2
<1>4. s \in Injection(1..n, ToSet(s))
  <2>1. Cardinality(ToSet(s)) = Cardinality(1..n)
    BY <1>3 DEF n
  <2> QED
    BY <1>2, <1>3, <2>1, FS_Surjection
<1> QED
  BY <1>1, <1>4 DEF NoTwice, Injection, IsInjective

-----------------------------------------------------------------------------
(* The signatures of a header that convert, one after the other: b.        *)

IsBlocks(raw, b, sigData, n) ==
  /\ b \in Seq(Signatures)
  /\ Len(raw) = SigLen * Len(b)
  /\ \A i \in 1..Len(b) : raw[SigLen * (i - 1) + 1] = b[i]
  /\ \A x \in Signatures : (\E i \in 1..Len(b) : b[i] = x)
                             <=> (x.eth = TRUE /\ \E j \in 1..n : sigData[j] = x)

(* A signature that converts adds its block.                               *)
LEMMA NextBlock ==
  ASSUME NEW sigData \in Seq(Signatures), NEW n \in Nat, n + 1 <= Len(sigData),
         NEW raw \in Seq(Signatures), NEW b, IsBlocks(raw, b, sigData, n),
         sigData[n + 1].eth = TRUE
  PROVE  IsBlocks(Cat(raw, ConvertToEthCompatible(sigData[n + 1])), Append(b, sigData[n + 1]),
                  sigData, n + 1)
<1> DEFINE sig == sigData[n + 1]
           t == ConvertToEthCompatible(sig)
           c == Append(b, sig)
           all == Cat(raw, t)
<1>1. sig \in Signatures
  OBVIOUS
<1>2. SigLen \in Nat /\ SigLen > 0
  BY KeepersAssumption
<1>3. t = [i \in 1..SigLen |-> sig]
  BY DEF ConvertToEthCompatible
<1> HIDE DEF sig
<1>4. t \in Seq(Signatures) /\ Len(t) = SigLen /\ t[1] = sig
  <2>1. t \in [1..SigLen -> Signatures] /\ t[1] = sig
    BY <1>1, <1>2, <1>3
  <2>2. \A f, k : k \in Nat /\ f \in [1..k -> Signatures] => f \in Seq(Signatures) /\ Len(f) = k
    OBVIOUS
  <2> QED
    BY <1>2, <2>1, <2>2
<1>5. /\ b \in Seq(Signatures) /\ Len(b) \in Nat /\ Len(raw) = SigLen * Len(b)
      /\ \A i \in 1..Len(b) : raw[SigLen * (i - 1) + 1] = b[i]
      /\ \A x \in Signatures : (\E i \in 1..Len(b) : b[i] = x)
                                 <=> (x.eth = TRUE /\ \E j \in 1..n : sigData[j] = x)
  BY DEF IsBlocks
<1> HIDE DEF t
<1>0. t \in Seq(Signatures) /\ raw \in Seq(Signatures)
  BY <1>4
<1>6. Len(all) = Len(raw) + Len(t)
  BY ONLY <1>0, CatIs
<1>7. \A i \in 1..Len(raw) : all[i] = raw[i]
  BY ONLY <1>0, CatIs
<1>8. \A i \in 1..Len(t) : all[Len(raw) + i] = t[i]
  BY ONLY <1>0, CatIs
<1> HIDE DEF all
<1>9. /\ c \in Seq(Signatures) /\ Len(c) = Len(b) + 1 /\ c[Len(b) + 1] = sig
      /\ \A i \in 1..Len(b) : c[i] = b[i]
  BY <1>1, <1>5
<1> HIDE DEF c
<1>10. Len(all) = SigLen * Len(c)
  <2>1. \A l \in Nat : SigLen * (l + 1) = SigLen * l + SigLen
    BY <1>2
  <2> QED
    BY <1>4, <1>5, <1>6, <1>9, <2>1
<1>11. ASSUME NEW i \in 1..Len(c) PROVE all[SigLen * (i - 1) + 1] = c[i]
  <2>1. CASE i = Len(b) + 1
    <3>1. SigLen * (i - 1) = Len(raw) /\ 1 \in 1..Len(t)
      BY <1>2, <1>4, <1>5, <2>1
    <3> QED
      BY <1>4, <1>8, <1>9, <2>1, <3>1
  <2>2. CASE i # Len(b) + 1
    <3>1. i \in 1..Len(b) /\ i - 1 \in Nat /\ i - 1 < Len(b)
      BY <1>5, <1>9, <2>2
    <3>2. SigLen * (i - 1) + 0 < SigLen * Len(b)
      BY <1>2, <1>5, <3>1, Below
    <3>3. SigLen * (i - 1) \in Nat /\ SigLen * Len(b) \in Nat
      BY <1>2, <1>5, <3>1
    <3>4. SigLen * (i - 1) + 1 \in 1..Len(raw)
      <4>1. \A u, v \in Nat : u + 0 < v => u + 1 \in 1..v
        OBVIOUS
      <4> QED
        BY <1>5, <3>2, <3>3, <4>1
    <3> QED
      BY <1>5, <1>7, <1>9, <3>1, <3>4
  <2> QED
    BY <2>1, <2>2
<1>12. ASSUME NEW x \in Signatures
       PROVE  (\E i \in 1..Len(c) : c[i] = x)
                <=> (x.eth = TRUE /\ \E j \in 1..(n + 1) : sigData[j] = x)
  <2>1. (\E i \in 1..Len(c) : c[i] = x) <=> (\E i \in 1..Len(b) : b[i] = x) \/ x = sig
    <3>1. ASSUME NEW i \in 1..Len(c), c[i] = x
          PROVE  (\E k \in 1..Len(b) : b[k] = x) \/ x = sig
      <4>1. i = Len(b) + 1 \/ i \in 1..Len(b)
        BY <1>5, <1>9
      <4> QED
        BY <1>9, <3>1, <4>1
    <3>2. ASSUME NEW i \in 1..Len(b), b[i] = x PROVE \E k \in 1..Len(c) : c[k] = x
      <4>1. i \in 1..Len(c) /\ c[i] = x
        BY <1>5, <1>9, <3>2
      <4> QED
        BY <4>1
    <3>3. ASSUME x = sig PROVE \E k \in 1..Len(c) : c[k] = x
      <4>1. Len(b) + 1 \in 1..Len(c) /\ c[Len(b) + 1] = x
        BY <1>5, <1>9, <3>3
      <4> QED
        BY <4>1
    <3> QED
      BY <3>1, <3>2, <3>3
  <2>2. (\E j \in 1..(n + 1) : sigData[j] = x) <=> (\E j \in 1..n : sigData[j] = x) \/ x = sig
    BY DEF sig
  <2>3. sig.eth = TRUE
    BY DEF sig
  <2> QED
    BY <1>5, <2>1, <2>2, <2>3
<1>13. IsBlocks(all, c, sigData, n + 1)
  BY <1>9, <1>10, <1>11, <1>12 DEF IsBlocks
<1> QED
  BY <1>13 DEF all, c, t, sig

(* A signature that does not convert adds nothing.                         *)
LEMMA NoBlock ==
  ASSUME NEW sigData \in Seq(Signatures), NEW n \in Nat, n + 1 <= Len(sigData),
         NEW raw \in Seq(Signatures), NEW b, IsBlocks(raw, b, sigData, n),
         sigData[n + 1].eth # TRUE
  PROVE  IsBlocks(Cat(raw, ConvertToEthCompatible(sigData[n + 1])), b, sigData, n + 1)
<1>1. sigData[n + 1] \in Signatures
  OBVIOUS
<1>2. ConvertToEthCompatible(sigData[n + 1]) = <<>>
  BY <1>1 DEF ConvertToEthCompatible, Signatures
<1>3. Cat(raw, <<>>) = raw
  BY DEF Cat
<1>4. ASSUME NEW x \in Signatures, x.eth = TRUE
      PROVE  (\E j \in 1..(n + 1) : sigData[j] = x) <=> (\E j \in 1..n : sigData[j] = x)
  <2>1. sigData[n + 1] # x
    BY <1>4
  <2>2. \A j \in 1..(n + 1) : j = n + 1 \/ j \in 1..n
    OBVIOUS
  <2>3. 1..n \subseteq 1..(n + 1)
    OBVIOUS
  <2> QED
    BY <2>1, <2>2, <2>3
<1>5. IsBlocks(raw, b, sigData, n + 1)
  <2>1. /\ b \in Seq(Signatures)
        /\ Len(raw) = SigLen * Len(b)
        /\ \A i \in 1..Len(b) : raw[SigLen * (i - 1) + 1] = b[i]
    BY DEF IsBlocks
  <2>2. ASSUME NEW x \in Signatures
        PROVE  (\E i \in 1..Len(b) : b[i] = x)
                 <=> (x.eth = TRUE /\ \E j \in 1..(n + 1) : sigData[j] = x)
    <3>1. (\E i \in 1..Len(b) : b[i] = x)
            <=> (x.eth = TRUE /\ \E j \in 1..n : sigData[j] = x)
      BY Zenon DEF IsBlocks
    <3> QED
      BY <1>4, <3>1
  <2> QED
    BY <2>1, <2>2, Zenon DEF IsBlocks
<1> QED
  BY <1>2, <1>3, <1>5

(* One signature more, whether it converts or not.                         *)
LEMMA StepOfBlocks ==
  ASSUME NEW sigData \in Seq(Signatures), NEW n \in Nat, n + 1 <= Len(sigData),
         NEW raw \in Seq(Signatures), \E b : IsBlocks(raw, b, sigData, n)
  PROVE  \E b : IsBlocks(Cat(raw, ConvertToEthCompatible(sigData[n + 1])), b, sigData, n + 1)
<1>1. PICK b : IsBlocks(raw, b, sigData, n)
  OBVIOUS
<1>2. CASE sigData[n + 1].eth = TRUE
  BY <1>1, <1>2, NextBlock
<1>3. CASE sigData[n + 1].eth # TRUE
  BY <1>1, <1>3, NoBlock
<1> QED
  BY <1>2, <1>3

(* No signature, no block.                                                 *)
LEMMA NoSigsNoBlocks ==
  ASSUME NEW sigData
  PROVE  IsBlocks(<<>>, <<>>, sigData, 0)
BY KeepersAssumption DEF IsBlocks

(* assembleHeaderSigs writes the blocks of the signatures that convert.    *)
LEMMA BlocksOf ==
  ASSUME NEW sigData \in Seq(Signatures)
  PROVE  /\ AssembleHeaderSigs(sigData) \in Seq(Signatures)
         /\ \E b : IsBlocks(AssembleHeaderSigs(sigData), b, sigData, Len(sigData))
<1> DEFINE seqs == [i \in DOMAIN sigData |-> ConvertToEthCompatible(sigData[i])]
           len == Len(sigData)
<1>1. AssembleHeaderSigs(sigData) = FlattenSeq(seqs)
  BY DEF AssembleHeaderSigs
<1>2. len \in Nat /\ DOMAIN sigData = 1..len /\ \A i \in 1..len : sigData[i] \in Signatures
  OBVIOUS
<1>3. ASSUME NEW i \in 1..len
      PROVE  seqs[i] = ConvertToEthCompatible(sigData[i]) /\ seqs[i] \in Seq(Signatures)
  <2>1. seqs[i] = ConvertToEthCompatible(sigData[i])
    BY <1>2
  <2>2. ASSUME NEW sig \in Signatures PROVE ConvertToEthCompatible(sig) \in Seq(Signatures)
    <3>1. SigLen \in Nat
      BY KeepersAssumption
    <3>2. [k \in 1..SigLen |-> sig] \in [1..SigLen -> Signatures]
      OBVIOUS
    <3>3. \A f, k : k \in Nat /\ f \in [1..k -> Signatures] => f \in Seq(Signatures)
      OBVIOUS
    <3>4. [k \in 1..SigLen |-> sig] \in Seq(Signatures) /\ <<>> \in Seq(Signatures)
      BY <3>1, <3>2, <3>3
    <3> QED
      BY <3>4 DEF ConvertToEthCompatible
  <2> HIDE DEF seqs
  <2> QED
    BY <1>2, <2>1, <2>2
<1>4. DOMAIN seqs = 1..len /\ seqs = [i \in 1..len |-> seqs[i]]
  BY <1>2
<1> HIDE DEF seqs, len
<1>5. seqs \in Seq(Seq(Signatures)) /\ Len(seqs) = len
  <2>1. seqs \in [1..len -> Seq(Signatures)]
    BY <1>3, <1>4, Zenon
  <2>2. \A f, k : k \in Nat /\ f \in [1..k -> Seq(Signatures)]
                  => f \in Seq(Seq(Signatures)) /\ Len(f) = k
    OBVIOUS
  <2> QED
    BY <1>2, <2>1, <2>2
<1>6. CASE len = 0
  <2>1. FlattenSeq(seqs) = seqs
    BY <1>5, <1>6, Zenon DEF FlattenSeq
  <2>2. seqs = <<>>
    BY <1>5, <1>6
  <2> QED
    BY <1>1, <1>6, <2>1, <2>2, NoSigsNoBlocks DEF len
<1>7. CASE len > 0
  <2>1. PICK f : Joins(f, seqs, Signatures) /\ FlattenSeq(seqs) = f[len]
    BY <1>5, <1>7, FlattenIs
  <2>2. /\ f \in [1..len -> Seq(Signatures)] /\ f[1] = seqs[1]
        /\ \A i \in 2..len : f[i] = Cat(f[i - 1], seqs[i])
    BY <1>5, <2>1 DEF Joins
  <2> DEFINE T == {n \in Nat : n < len => \E b : IsBlocks(f[n + 1], b, sigData, n + 1)}
  <2>3. 0 \in T
    <3>1. 1 \in 1..len /\ 0 \in Nat /\ 0 + 1 <= Len(sigData) /\ 0 + 1 = 1
      BY <1>2, <1>7 DEF len
    <3>2. <<>> \in Seq(Signatures) /\ \E b : IsBlocks(<<>>, b, sigData, 0)
      BY NoSigsNoBlocks
    <3>3. \E b : IsBlocks(Cat(<<>>, ConvertToEthCompatible(sigData[0 + 1])), b, sigData, 0 + 1)
      BY <3>1, <3>2, StepOfBlocks
    <3>4. ConvertToEthCompatible(sigData[0 + 1]) = seqs[1] /\ seqs[1] \in Seq(Signatures)
      BY <1>3, <3>1
    <3>5. Cat(<<>>, seqs[1]) = seqs[1]
      BY <3>4 DEF Cat
    <3>6. \E b : IsBlocks(f[0 + 1], b, sigData, 0 + 1)
      BY <2>2, <3>1, <3>3, <3>4, <3>5
    <3> QED
      BY <3>6
  <2>4. ASSUME NEW n \in Nat, n \in T PROVE n + 1 \in T
    <3> SUFFICES ASSUME n + 1 < len
                 PROVE  \E b : IsBlocks(f[(n + 1) + 1], b, sigData, (n + 1) + 1)
      OBVIOUS
    <3> DEFINE k == n + 1
    <3>1. k \in Nat /\ n < len /\ k \in 1..len /\ k + 1 \in 2..len /\ (k + 1) - 1 = k
          /\ k + 1 \in 1..len /\ k + 1 <= Len(sigData)
      BY <1>2 DEF len
    <3>2. \E b : IsBlocks(f[k], b, sigData, k)
      BY <2>4, <3>1
    <3> HIDE DEF k
    <3>3. f[k] \in Seq(Signatures)
      BY <2>2, <3>1
    <3>4. \E b : IsBlocks(Cat(f[k], ConvertToEthCompatible(sigData[k + 1])), b, sigData, k + 1)
      BY <3>1, <3>2, <3>3, StepOfBlocks
    <3>5. f[k + 1] = Cat(f[k], ConvertToEthCompatible(sigData[k + 1]))
      BY <1>3, <2>2, <3>1
    <3> QED
      BY <3>4, <3>5 DEF k
  <2> HIDE DEF T
  <2>5. Nat \subseteq T
    BY <2>3, <2>4, SetInduction
  <2>6. len - 1 \in Nat /\ (len - 1) + 1 = len /\ len - 1 < len
    BY <1>2, <1>7
  <2>7. \E b : IsBlocks(f[len], b, sigData, len)
    BY <2>5, <2>6 DEF T
  <2> QED
    BY <1>1, <1>7, <2>1, <2>2, <2>7 DEF len
<1> QED
  BY <1>2, <1>6, <1>7

(* The first element of a part.                                            *)
LEMMA FirstOfSubSeq ==
  ASSUME NEW S, NEW s \in Seq(S), NEW m \in Nat, NEW n \in Nat, m > 0, m <= n, n <= Len(s)
  PROVE  SubSeq(s, m, n)[1] = s[m]
OBVIOUS

(* The list of signatures that palette reads: the first byte of each tells.*)
LEMMA BlocksAreRead ==
  ASSUME NEW raw \in Seq(Signatures), NEW b, NEW sigData, NEW n, IsBlocks(raw, b, sigData, n)
  PROVE  /\ RawMultiSigsToList(raw) # NoSigs <=> Len(b) > 0
         /\ DOMAIN RawMultiSigsToList(raw) = 1..Len(b)
         /\ \A i \in 1..Len(b) : RawMultiSigsToList(raw)[i][1] = b[i]
<1>1. SigLen \in Nat /\ SigLen > 0
  BY KeepersAssumption
<1>2. /\ Len(b) \in Nat /\ Len(raw) = SigLen * Len(b)
      /\ \A i \in 1..Len(b) : raw[SigLen * (i - 1) + 1] = b[i]
  <2>1. b \in Seq(Signatures)
    BY DEF IsBlocks
  <2>2. Len(b) \in Nat
    BY <2>1
  <2> QED
    BY <2>2 DEF IsBlocks
<1> DEFINE l == Len(b)
           list == [i \in 1..l |-> SubSeq(raw, (i - 1) * SigLen + 1, i * SigLen)]
<1>3. Len(raw) % SigLen = 0 /\ Len(raw) \div SigLen = l
  <2>1. SigLen * l \in Nat /\ SigLen * l + 0 = SigLen * l
    BY <1>1, <1>2
  <2>2. (SigLen * l + 0) \div SigLen = l /\ (SigLen * l + 0) % SigLen = 0
    BY <1>1, <1>2, DivisionIs
  <2> QED
    BY <1>2, <2>1, <2>2
<1>4. RawMultiSigsToList(raw) = list
  BY <1>3, Zenon DEF RawMultiSigsToList
<1>5. ASSUME NEW i \in 1..l PROVE list[i][1] = b[i]
  <2> DEFINE first == SigLen * (i - 1)
  <2>1. i \in Nat /\ i - 1 \in Nat /\ i <= l
    BY <1>2
  <2>2. /\ (i - 1) * SigLen = first /\ i * SigLen = first + SigLen /\ first \in Nat
    BY <1>1, <2>1
  <2>3. first + SigLen <= SigLen * l
    <3>1. SigLen * i <= SigLen * l
      BY <1>1, <1>2, <2>1
    <3>2. SigLen * i = first + SigLen
      BY <1>1, <2>1
    <3> QED
      BY <3>1, <3>2
  <2>4. list[i] = SubSeq(raw, first + 1, first + SigLen)
    BY <2>2
  <2> HIDE DEF first, list
  <2>5. first + 1 \in Nat /\ first + SigLen \in Nat /\ first + 1 > 0
        /\ first + 1 <= first + SigLen /\ first + SigLen <= Len(raw)
    BY <1>1, <1>2, <2>2, <2>3
  <2>6. SubSeq(raw, first + 1, first + SigLen)[1] = raw[first + 1]
    BY <2>5, FirstOfSubSeq
  <2>7. raw[first + 1] = b[i]
    BY <1>2 DEF first
  <2> QED
    BY <2>4, <2>6, <2>7
<1>6. list # NoSigs <=> l > 0
  <2>1. l \in Nat /\ list \in [1..l -> {list[i] : i \in 1..l}]
    BY <1>2
  <2>2. Len(list) = l
    BY <2>1
  <2> HIDE DEF list, l
  <2>3. CASE l = 0
    BY <2>1, <2>3 DEF NoSigs
  <2>4. CASE l > 0
    BY <2>2, <2>4 DEF NoSigs
  <2> QED
    BY <2>1, <2>3, <2>4
<1>7. DOMAIN list = 1..l
  OBVIOUS
<1> HIDE DEF list
<1> QED
  BY <1>4, <1>5, <1>6, <1>7

-----------------------------------------------------------------------------
(* The keepers who have signed.                                            *)

HasSigned(sigData, k) ==
  \E i \in DOMAIN sigData : sigData[i] = [key |-> k, overHash |-> TRUE, eth |-> TRUE]

(* palette recovers a keeper if and only if it has a signature of his.     *)
LEMMA SignersAre ==
  ASSUME NEW sigData \in Seq(Signatures), NEW k \in Keys
  PROVE  Contains(RecoverSignersFromMultiSigs(
                    RawMultiSigsToList(AssembleHeaderSigs(sigData))), k)
           <=> HasSigned(sigData, k)
<1> DEFINE raw == AssembleHeaderSigs(sigData)
           list == RawMultiSigsToList(raw)
           signers == RecoverSignersFromMultiSigs(list)
<1>1. raw \in Seq(Signatures) /\ \E b : IsBlocks(raw, b, sigData, Len(sigData))
  BY BlocksOf
<1> HIDE DEF raw
<1>2. PICK b : IsBlocks(raw, b, sigData, Len(sigData))
  BY <1>1
<1>3. DOMAIN list = 1..Len(b) /\ \A i \in 1..Len(b) : list[i][1] = b[i]
  BY <1>1, <1>2, BlocksAreRead
<1>4. b \in Seq(Signatures)
  BY <1>2 DEF IsBlocks
<1>5. Len(b) \in Nat /\ \A i \in 1..Len(b) : b[i] \in Signatures
  BY <1>4
<1>6. \A x \in Signatures : (\E i \in 1..Len(b) : b[i] = x)
        <=> (x.eth = TRUE /\ \E j \in 1..Len(sigData) : sigData[j] = x)
  BY <1>2, Zenon DEF IsBlocks
<1> HIDE DEF list
<1>7. signers = [i \in 1..Len(b) |-> IF b[i].overHash THEN b[i].key ELSE NoKeeper]
  <2>1. \A i \in 1..Len(b) : Ecrecover(list[i]) = IF b[i].overHash THEN b[i].key ELSE NoKeeper
    BY <1>3 DEF Ecrecover
  <2>2. signers = [i \in 1..Len(b) |-> Ecrecover(list[i])]
    BY <1>3, Zenon DEF RecoverSignersFromMultiSigs
  <2> QED
    BY <2>1, <2>2, Zenon
<1>8. Len(signers) = Len(b)
  BY <1>5, <1>7
<1>9. k # NoKeeper
  BY KeepersAssumption DEF NoKeeper
<1>10. DOMAIN sigData = 1..Len(sigData)
  OBVIOUS
<1> DEFINE x == [key |-> k, overHash |-> TRUE, eth |-> TRUE]
<1>11. x \in Signatures /\ x.eth = TRUE
  BY DEF Signatures
<1>12. ASSUME NEW i \in 1..Len(b), signers[i] = k PROVE HasSigned(sigData, k)
  <2>1. signers[i] = IF b[i].overHash THEN b[i].key ELSE NoKeeper
    BY <1>7
  <2>2. b[i].overHash /\ b[i].key = k
    BY <1>9, <1>12, <2>1
  <2>3. b[i] \in Signatures
    BY <1>5
  <2>4. b[i].eth = TRUE /\ \E j \in 1..Len(sigData) : sigData[j] = b[i]
    BY <1>6, <2>3, Zenon
  <2>5. b[i].overHash = TRUE
    BY <2>2, <2>3 DEF Signatures
  <2>6. b[i] = [key |-> b[i].key, overHash |-> b[i].overHash, eth |-> b[i].eth]
    BY <2>3 DEF Signatures
  <2>7. b[i] = x
    BY <2>2, <2>4, <2>5, <2>6
  <2> QED
    BY <1>10, <2>4, <2>7, Zenon DEF HasSigned
<1>13. ASSUME HasSigned(sigData, k) PROVE \E i \in 1..Len(b) : signers[i] = k
  <2>1. \E j \in 1..Len(sigData) : sigData[j] = x
    BY <1>10, <1>13, Zenon DEF HasSigned
  <2>2. PICK i \in 1..Len(b) : b[i] = x
    BY <1>6, <1>11, <2>1, Zenon
  <2>3. signers[i] = IF b[i].overHash THEN b[i].key ELSE NoKeeper
    BY <1>7
  <2> QED
    BY <2>2, <2>3
<1> HIDE DEF signers
<1>14. Contains(signers, k) <=> HasSigned(sigData, k)
  BY <1>8, <1>12, <1>13, Zenon DEF Contains
<1> QED
  BY <1>14 DEF signers, list, raw

(* Places and keepers are as many, if nobody is listed twice.              *)
LEMMA CountedByPlace ==
  ASSUME NEW s \in Seq(Nat), NoTwice(s), NEW P, P \subseteq Nat
  PROVE  Cardinality({i \in DOMAIN s : s[i] \in P}) = Cardinality({k \in ToSet(s) : k \in P})
<1> DEFINE I == {i \in DOMAIN s : s[i] \in P}
           K == {k \in ToSet(s) : k \in P}
           f == [i \in I |-> s[i]]
<1>1. IsFiniteSet(I)
  <2>1. DOMAIN s = 1..Len(s) /\ 1 \in Int /\ Len(s) \in Int
    OBVIOUS
  <2>2. IsFiniteSet(DOMAIN s) /\ I \in SUBSET (DOMAIN s)
    BY <2>1, FS_Interval
  <2> HIDE DEF I
  <2> QED
    BY <2>2, FS_Subset
<1>2. f \in Bijection(I, K)
  <2>1. \A i \in I : f[i] \in K
    BY DEF ToSet
  <2>2. \A i, j \in I : f[i] = f[j] => i = j
    BY DEF NoTwice
  <2>3. \A k \in K : \E i \in I : f[i] = k
    BY DEF ToSet
  <2>4. f \in [I -> K]
    BY <2>1
  <2> HIDE DEF I, K, f
  <2> QED
    BY <2>2, <2>3, <2>4, Zenon DEF Bijection, Injection, IsInjective, Surjection
<1> HIDE DEF I, K, f
<1>3. Cardinality(K) = Cardinality(I)
  BY <1>1, <1>2, FS_Bijection DEF ExistsBijection
<1> QED
  BY <1>3 DEF I, K

(* VerifySig counts each keeper who has signed once.                       *)
LEMMA SignaturesVerify ==
  ASSUME NEW sigData \in Seq(Signatures),
         NEW keepers \in Seq(Nat), NoTwice(keepers), ToSet(keepers) \subseteq Keys,
         NEW m \in Nat, m > 0
  PROVE  VerifySig(AssembleHeaderSigs(sigData), keepers, m)
           <=> Cardinality({k \in ToSet(keepers) : HasSigned(sigData, k)}) >= m
<1> DEFINE raw == AssembleHeaderSigs(sigData)
           signers == RecoverSignersFromMultiSigs(RawMultiSigsToList(raw))
           P == {k \in Keys : HasSigned(sigData, k)}
           I == {i \in DOMAIN keepers : Contains(signers, keepers[i])}
           K == {k \in ToSet(keepers) : HasSigned(sigData, k)}
<1>1. \A k \in Keys : Contains(signers, k) <=> HasSigned(sigData, k)
  BY SignersAre
<1>2. \A i \in DOMAIN keepers : keepers[i] \in Keys
  BY DEF ToSet
<1> HIDE DEF signers
<1>3. I = {i \in DOMAIN keepers : keepers[i] \in P}
  BY <1>1, <1>2
<1>4. K = {k \in ToSet(keepers) : k \in P}
  OBVIOUS
<1>5. P \subseteq Nat
  BY KeepersAssumption
<1> HIDE DEF P, I, K
<1>6. Cardinality(I) = Cardinality(K)
  BY <1>3, <1>4, <1>5, CountedByPlace
<1>7. ContainsMAddress(signers, keepers, m) <=> Cardinality(K) >= m
  BY <1>6 DEF ContainsMAddress, I
<1>8. ASSUME RawMultiSigsToList(raw) = NoSigs PROVE ~ (Cardinality(K) >= m)
  <2>1. signers = <<>>
    BY <1>8 DEF signers, NoSigs, RecoverSignersFromMultiSigs
  <2>2. \A k : ~ Contains(signers, k)
    BY <2>1 DEF Contains
  <2>3. K = {}
    BY <1>1, <2>2 DEF K
  <2> QED
    BY <2>3, FS_EmptySet
<1> QED
  BY <1>7, <1>8 DEF VerifySig, signers, K, raw

=============================================================================
