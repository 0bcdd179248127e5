--------------------------- MODULE TransfersProofs --------------------------
(***************************************************************************)
(* What the operators of Transfers compute, for every number of bytes and  *)
(* every input: integers and records come back, hex texts are in the order *)
(* of their numbers, and the key of a transfer is the slot of its index.   *)
(***************************************************************************)
EXTENDS Transfers, BasicLemmas

(* There are at least two digits, and so at least two bytes.               *)
LEMMA BaseType == Nibble \in Nat /\ Nibble > 1 /\ Base \in Nat /\ Base > 1
<1>1. Nibble \in Nat /\ Nibble > 1
  BY TransfersAssumption
<1>2. \A a \in Nat : a > 1 => a * a > 1 /\ a * a \in Nat
  OBVIOUS
<1> QED
  BY <1>1, <1>2 DEF Base

Computes(f, n) ==
  /\ f \in [0..n -> Nat]
  /\ f[0] = 1
  /\ \A i \in 1..n : f[i] = Base * f[i - 1]

(* A table of the powers exists, up to every n.                            *)
LEMMA PowerExists == \A n \in Nat : \E f : Computes(f, n)
<1> DEFINE S == {n \in Nat : \E f : Computes(f, n)}
<1>1. 0 \in S
  <2>1. Computes([i \in 0..0 |-> 1], 0)
    BY DEF Computes
  <2> QED
    BY <2>1
<1>2. ASSUME NEW n \in Nat, n \in S PROVE n + 1 \in S
  <2>1. PICK f : Computes(f, n)
    BY <1>2
  <2> DEFINE g == [i \in 0..(n + 1) |-> IF i = n + 1 THEN Base * f[n] ELSE f[i]]
  <2>2. Computes(g, n + 1)
    BY <2>1, BaseType DEF Computes
  <2> QED
    BY <2>2
<1> HIDE DEF S
<1>3. Nat \subseteq S
  BY <1>1, <1>2, SetInduction
<1> QED
  BY <1>3 DEF S

(* Two tables have the same powers where they both have one.               *)
LEMMA PowerAgrees ==
  ASSUME NEW f, NEW g, NEW n \in Nat, NEW m \in Nat, Computes(f, n), Computes(g, m), n <= m
  PROVE  \A i \in 0..n : f[i] = g[i]
<1> DEFINE S == {i \in Nat : i <= n => f[i] = g[i]}
<1>1. 0 \in S
  BY DEF Computes
<1>2. ASSUME NEW i \in Nat, i \in S PROVE i + 1 \in S
  BY <1>2 DEF Computes
<1> HIDE DEF S
<1>3. Nat \subseteq S
  BY <1>1, <1>2, SetInduction
<1> QED
  BY <1>3 DEF S

(* The powers follow the recursion that defines them.                      *)
LEMMA PowerIs ==
  /\ Power[0] = 1
  /\ \A n \in Nat : Power[n] \in Nat /\ Power[n + 1] = Base * Power[n]
<1> DEFINE F == [n \in Nat |-> (CHOOSE f : Computes(f, n))[n]]
           Is(g) == g = [n \in Nat |-> IF n = 0 THEN 1 ELSE Base * g[n - 1]]
<1>1. \A n \in Nat : Computes(CHOOSE f : Computes(f, n), n)
  BY PowerExists
<1>2. F[0] = 1
  BY <1>1 DEF Computes
<1>3. ASSUME NEW n \in Nat PROVE F[n] \in Nat /\ F[n + 1] = Base * F[n]
  <2> DEFINE f == CHOOSE f : Computes(f, n)
             g == CHOOSE g : Computes(g, n + 1)
  <2>1. Computes(f, n) /\ Computes(g, n + 1)
    BY <1>1
  <2> HIDE DEF f, g
  <2>2. f[n] = g[n]
    BY <2>1, PowerAgrees
  <2>3. f[n] \in Nat /\ g[n + 1] = Base * g[n]
    BY <2>1 DEF Computes
  <2>4. F[n] = f[n] /\ F[n + 1] = g[n + 1]
    BY DEF f, g
  <2> QED
    BY <2>2, <2>3, <2>4
<1> HIDE DEF F
<1>4. ASSUME NEW n \in Nat \ {0} PROVE F[n] = Base * F[n - 1]
  BY <1>3, n - 1 \in Nat, n = (n - 1) + 1
<1>5. F = [n \in Nat |-> F[n]]
  BY DEF F
<1>6. Is(F)
  BY <1>2, <1>4, <1>5
<1>7. Power = CHOOSE g : Is(g)
  BY DEF Power
<1> HIDE DEF Is
<1>8. Is(Power)
  BY <1>6, <1>7
<1>9. Power[0] = 1 /\ \A n \in Nat : Power[n + 1] = Base * Power[n]
  BY <1>8 DEF Is
<1> DEFINE S == {n \in Nat : Power[n] \in Nat}
<1>10. 0 \in S
  BY <1>9
<1>11. ASSUME NEW n \in Nat, n \in S PROVE n + 1 \in S
  BY <1>9, <1>11, BaseType
<1>12. Nat \subseteq S
  <2> HIDE DEF S
  <2> QED
    BY <1>10, <1>11, SetInduction
<1> QED
  BY <1>9, <1>12

-----------------------------------------------------------------------------
(* Digits.                                                                 *)

(* A number in two digits and a rest. *)
LEMMA TwoDigits ==
  ASSUME NEW n \in Nat, NEW a \in Nat, NEW b \in Nat, a > 0, b > 0
  PROVE  /\ n \div (a * b) = (n \div a) \div b
         /\ n % (a * b) = (n % a) + ((n \div a) % b) * a
<1> DEFINE q == n \div a
           r == n % a
           s == q \div b
           d == q % b
<1>1. q \in Nat /\ r \in Nat /\ r < a /\ n = a * q + r
  BY Division
<1>2. s \in Nat /\ d \in Nat /\ d < b /\ q = b * s + d
  BY <1>1, Division
<1> HIDE DEF q, r, s, d
<1>3. a * d + r < a * b /\ a * d + r \in Nat
  BY <1>1, <1>2, Below
<1>4. a * (b * s + d) = (a * b) * s + a * d
  BY <1>2
<1>5. n = (a * b) * s + (a * d + r)
  BY <1>1, <1>2, <1>4
<1>6. a * b \in Nat
  OBVIOUS
<1>7. n \div (a * b) = s /\ n % (a * b) = a * d + r
  BY <1>2, <1>3, <1>5, <1>6, DivisionIs
<1>8. a * d = d * a
  BY <1>2
<1> QED
  BY <1>1, <1>7, <1>8 DEF q, r, s, d

(* A power is a number above 0.                                            *)
LEMMA PowerPositive == \A n \in Nat : Power[n] \in Nat /\ Power[n] > 0
<1> DEFINE S == {n \in Nat : Power[n] > 0}
<1>1. 0 \in S
  BY PowerIs
<1>2. ASSUME NEW n \in Nat, n \in S PROVE n + 1 \in S
  <2>1. \A a, b \in Nat : a > 0 /\ b > 0 => a * b > 0
    OBVIOUS
  <2> QED
    BY <1>2, <2>1, PowerIs, BaseType
<1> HIDE DEF S
<1>3. Nat \subseteq S
  BY <1>1, <1>2, SetInduction
<1> QED
  BY <1>3, PowerIs DEF S

(* What is left of a number above one more digit. *)
LEMMA NextDigit ==
  ASSUME NEW n \in Nat, NEW i \in Nat
  PROVE  /\ n \div Power[i + 1] = (n \div Power[i]) \div Base
         /\ n % Power[i + 1] = (n % Power[i]) + ((n \div Power[i]) % Base) * Power[i]
<1>1. Power[i + 1] = Power[i] * Base
  BY PowerIs, BaseType
<1> QED
  BY <1>1, PowerPositive, BaseType, TwoDigits

(* An integer is written in as many bytes as asked for.                    *)
LEMMA LittleEndianType ==
  ASSUME NEW n \in Nat, NEW len \in Nat
  PROVE  LittleEndian(n, len) \in Seq(Byte) /\ Len(LittleEndian(n, len)) = len
<1>1. \A i \in 1..len : (n \div Power[i - 1]) % Base \in Byte
  BY PowerPositive, BaseType, Division DEF Byte
<1> QED
  BY <1>1 DEF LittleEndian

(* A number that fits is read back. *)
LEMMA IntegersComeBack ==
  ASSUME NEW len \in Nat, NEW n \in 0..(Power[len] - 1)
  PROVE  FromLittleEndian(LittleEndian(n, len)) = n
<1> DEFINE s == LittleEndian(n, len)
           Is(g) == g = [i \in 0..Len(s) |-> IF i = 0 THEN 0 ELSE g[i - 1] + s[i] * Power[i - 1]]
           below == [i \in 0..len |-> n % Power[i]]
           value == CHOOSE g : Is(g)
<1>1. n \in Nat /\ n < Power[len] /\ Len(s) = len
  <2>1. Power[len] \in Nat
    BY PowerIs
  <2>2. n \in Nat /\ n < Power[len]
    BY <2>1
  <2> QED
    BY <2>2, LittleEndianType
<1>2. \A i \in 1..len : s[i] = (n \div Power[i - 1]) % Base
  BY DEF LittleEndian
<1>3. \A i \in 1..len : n % Power[i] = (n % Power[i - 1]) + s[i] * Power[i - 1]
  <2> TAKE i \in 1..len
  <2>1. i - 1 \in Nat /\ (i - 1) + 1 = i
    OBVIOUS
  <2> QED
    BY <1>1, <1>2, <2>1, NextDigit
<1>4. n % Power[0] = 0 /\ n % Power[len] = n
  <2>1. \A p \in Nat : n < p => n % p = n
    BY <1>1
  <2>2. n % 1 = 0
    BY <1>1
  <2> QED
    BY <1>1, <2>1, <2>2, PowerIs
<1>5. FromLittleEndian(s) = value[Len(s)]
  BY DEF FromLittleEndian
<1> HIDE DEF s
<1>6. Is(below)
  BY <1>1, <1>3, <1>4
<1>7. Is(value)
  <2> HIDE DEF Is
  <2> QED
    BY <1>6
<1> HIDE DEF value
<1> DEFINE S == {i \in Nat : i <= len => value[i] = n % Power[i]}
<1>8. 0 \in S
  BY <1>1, <1>4, <1>7
<1>9. ASSUME NEW i \in Nat, i \in S PROVE i + 1 \in S
  BY <1>1, <1>3, <1>7, <1>9
<1> HIDE DEF S
<1>10. Nat \subseteq S
  BY <1>8, <1>9, SetInduction
<1> QED
  BY <1>1, <1>4, <1>5, <1>10 DEF s, S

-----------------------------------------------------------------------------
(* What is written is read back.                                           *)

(* NextBytes reads the bytes that were written, whatever follows.          *)
LEMMA BytesComeBack ==
  ASSUME NEW S, NEW s \in Seq(S), NEW rest \in Seq(S)
  PROVE  NextBytes(s \o rest, Len(s)) = [data |-> s, rest |-> rest, eof |-> FALSE]
<1> DEFINE all == s \o rest
<1>1. all \in Seq(S) /\ Len(all) = Len(s) + Len(rest)
  OBVIOUS
<1>2. SubSeq(all, 1, Len(s)) = s
  OBVIOUS
<1>3. SubSeq(all, Len(s) + 1, Len(all)) = rest
  BY <1>1
<1>4. ~ (Len(all) < Len(s))
  BY <1>1
<1> HIDE DEF all
<1>5. NextBytes(all, Len(s)) = [data |-> s, rest |-> rest, eof |-> FALSE]
  BY <1>2, <1>3, <1>4, Zenon DEF NextBytes
<1> QED
  BY <1>5 DEF all

(* NextVarBytes reads what WriteVarBytes has written, whatever follows.    *)
LEMMA VarBytesComeBack ==
  ASSUME NEW S, Nat \subseteq S, NEW s \in Seq(S), NEW rest \in Seq(S)
  PROVE  /\ WriteVarBytes(s) \in Seq(S)
         /\ NextVarBytes(WriteVarBytes(s) \o rest) = [data |-> s, rest |-> rest, eof |-> FALSE]
<1> DEFINE source == WriteVarBytes(s) \o rest
<1>1. <<Len(s)>> \in Seq(S)
  OBVIOUS
<1>2. source = <<Len(s)>> \o (s \o rest)
  BY <1>1 DEF WriteVarBytes
<1>3. source # <<>> /\ Head(source) = Len(s) /\ Tail(source) = s \o rest
  BY <1>1, <1>2
<1> HIDE DEF source
<1>4. NextVarBytes(source) = NextBytes(s \o rest, Len(s))
  BY <1>3 DEF NextVarBytes
<1>5. NextVarBytes(source) = [data |-> s, rest |-> rest, eof |-> FALSE]
  BY <1>4, BytesComeBack
<1>6. WriteVarBytes(s) \in Seq(S)
  BY <1>1 DEF WriteVarBytes
<1> QED
  BY <1>5, <1>6 DEF source

(* Deserialization reads each field of the record at its place.            *)
LEMMA RecordComesBack ==
  ASSUME NEW t, t.txIndex \in Seq(Nat), t.txId \in Seq(Nat), t.value \in Seq(Nat),
         t.toChain \in Uint32, t.height \in Uint64
  PROVE  Deserialization(Serialization(t))
           = [txIndex |-> t.txIndex, txId |-> t.txId, value |-> t.value,
              toChain |-> t.toChain, height |-> t.height]
<1> DEFINE toChain == LittleEndian(t.toChain, Uint32Len)
           height  == LittleEndian(t.height, Uint64Len)
           Read(data, rest) == [data |-> data, rest |-> rest, eof |-> FALSE]
<1>1. /\ Uint32Len \in Nat /\ Uint64Len \in Nat
      /\ t.toChain \in Nat /\ t.height \in Nat
      /\ t.toChain \in 0..(Power[Uint32Len] - 1)
      /\ t.height \in 0..(Power[Uint64Len] - 1)
  BY TransfersAssumption DEF Uint32, Uint64
<1>2. /\ toChain \in Seq(Nat) /\ Len(toChain) = Uint32Len
      /\ height \in Seq(Nat) /\ Len(height) = Uint64Len
  <2>1. Byte \subseteq Nat
    BY BaseType DEF Byte
  <2>2. \A s \in Seq(Byte) : s \in Seq(Nat)
    BY <2>1, Widen
  <2> QED
    BY <1>1, <2>2, LittleEndianType
<1>3. FromLittleEndian(toChain) = t.toChain /\ FromLittleEndian(height) = t.height
  BY <1>1, IntegersComeBack
<1> HIDE DEF toChain, height
<1> DEFINE rest3 == toChain \o height
           rest2 == WriteVarBytes(t.value) \o rest3
           rest1 == WriteVarBytes(t.txId) \o rest2
           source == WriteVarBytes(t.txIndex) \o rest1
<1>4. /\ WriteVarBytes(t.txIndex) \in Seq(Nat)
      /\ WriteVarBytes(t.txId) \in Seq(Nat)
      /\ WriteVarBytes(t.value) \in Seq(Nat)
  BY DEF WriteVarBytes
<1>5. rest3 \in Seq(Nat) /\ rest2 \in Seq(Nat) /\ rest1 \in Seq(Nat)
  BY <1>2, <1>4
<1>6. Serialization(t) = source
  <2>1. Serialization(t)
          = WriteVarBytes(t.txIndex) \o WriteVarBytes(t.txId) \o WriteVarBytes(t.value)
              \o toChain \o height
    BY DEF Serialization, toChain, height
  <2> DEFINE a == WriteVarBytes(t.txIndex)
             b == WriteVarBytes(t.txId)
             c == WriteVarBytes(t.value)
  <2>2. a \in Seq(Nat) /\ b \in Seq(Nat) /\ c \in Seq(Nat)
    BY <1>4
  <2>3. toChain \in Seq(Nat) /\ height \in Seq(Nat)
    BY <1>2
  <2> DEFINE ab == a \o b
             abc == ab \o c
  <2>4. ab \in Seq(Nat) /\ abc \in Seq(Nat)
    BY <2>2
  <2>5. (abc \o toChain) \o height = abc \o rest3
    <3> HIDE DEF a, b, c, abc
    <3> QED
      BY ONLY <2>3, <2>4
  <2>6. abc \o rest3 = ab \o rest2
    <3> HIDE DEF a, b, ab, rest3
    <3>1. (ab \o c) \o rest3 = ab \o (c \o rest3)
      <4> HIDE DEF c
      <4> QED
        BY ONLY <1>5, <2>2, <2>4
    <3> QED
      BY <3>1
  <2>7. ab \o rest2 = a \o rest1
    <3> HIDE DEF a, rest2
    <3>1. (a \o b) \o rest2 = a \o (b \o rest2)
      <4> HIDE DEF b
      <4> QED
        BY ONLY <1>5, <2>2
    <3> QED
      BY <3>1
  <2>8. Serialization(t) = (abc \o toChain) \o height
    BY <2>1
  <2> QED
    BY <2>5, <2>6, <2>7, <2>8
<1>7. NextVarBytes(source) = Read(t.txIndex, rest1)
  BY <1>5, VarBytesComeBack
<1>8. NextVarBytes(rest1) = Read(t.txId, rest2)
  BY <1>5, VarBytesComeBack
<1>9. NextVarBytes(rest2) = Read(t.value, rest3)
  BY <1>5, VarBytesComeBack
<1>10. NextBytes(rest3, Uint32Len) = Read(toChain, height)
  BY <1>2, BytesComeBack
<1>11. NextBytes(height, Uint64Len) = Read(height, <<>>)
  <2>1. height \o <<>> = height /\ <<>> \in Seq(Nat)
    BY <1>2
  <2>2. NextBytes(height \o <<>>, Len(height)) = Read(height, <<>>)
    BY <1>2, <2>1, BytesComeBack
  <2> QED
    BY <1>2, <2>1, <2>2
<1> HIDE DEF rest1, rest2, rest3, source
<1>12. Deserialization(source)
         = [txIndex |-> t.txIndex, txId |-> t.txId, value |-> t.value,
            toChain |-> FromLittleEndian(toChain), height |-> FromLittleEndian(height)]
  BY <1>7, <1>8, <1>9, <1>10, <1>11 DEF Deserialization
<1> QED
  BY <1>3, <1>6, <1>12

-----------------------------------------------------------------------------
(* Numbers as bytes and as hex.                                            *)

(* A larger exponent makes no smaller power.                               *)
LEMMA PowerGrows ==
  ASSUME NEW i \in Nat, NEW j \in Nat, i <= j
  PROVE  Power[i] <= Power[j]
<1> DEFINE S == {n \in Nat : i <= n => Power[i] <= Power[n]}
<1>1. 0 \in S
  BY PowerIs
<1>2. ASSUME NEW n \in Nat, n \in S PROVE n + 1 \in S
  <2>1. \A a, b \in Nat : a > 1 => b <= a * b
    OBVIOUS
  <2>2. Power[n] <= Power[n + 1]
    BY <2>1, PowerIs, BaseType
  <2>3. Power[i] \in Nat /\ Power[n] \in Nat /\ Power[n + 1] \in Nat
    BY PowerIs
  <2> QED
    BY <1>2, <2>2, <2>3
<1> HIDE DEF S
<1>3. Nat \subseteq S
  BY <1>1, <1>2, SetInduction
<1> QED
  BY <1>3 DEF S

(* No number needs more bytes than it has units.                           *)
LEMMA PowerIsAbove == \A n \in Nat : n < Power[n]
<1> DEFINE S == {n \in Nat : n < Power[n]}
<1>1. 0 \in S
  BY PowerIs
<1>2. ASSUME NEW n \in Nat, n \in S PROVE n + 1 \in S
  <2>1. \A a, b \in Nat : a > 1 => b + b <= a * b
    OBVIOUS
  <2>2. Power[n] \in Nat /\ n < Power[n]
    BY <1>2, PowerIs
  <2>3. Power[n] + Power[n] <= Base * Power[n]
    BY <2>1, <2>2, BaseType
  <2>4. n + 1 < Power[n + 1]
    BY <2>2, <2>3, PowerIs
  <2> QED
    BY <2>4
<1> HIDE DEF S
<1>3. Nat \subseteq S
  BY <1>1, <1>2, SetInduction
<1> QED
  BY <1>3 DEF S

IsLength(l, n) == n < Power[l] /\ (l = 0 \/ Power[l - 1] <= n)

(* Every number has a length in bytes, which Bytes() of a big integer      *)
(* uses.                                                                   *)
LEMMA LengthExists == \A n \in Nat : \E l \in 0..n : IsLength(l, n)
<1> TAKE n \in Nat
<1> DEFINE T == {l \in Nat : n < Power[l]}
<1>1. n \in T
  BY PowerIsAbove
<1>2. PICK l \in T : \A k \in T : l <= k
  <2> HIDE DEF T
  <2>1. T \in SUBSET Nat
    BY DEF T
  <2> QED
    BY <1>1, <2>1, LeastElement
<1>3. l \in 0..n
  BY <1>1, <1>2
<1>4. l # 0 => Power[l - 1] <= n
  <2> SUFFICES ASSUME l # 0 PROVE Power[l - 1] <= n
    OBVIOUS
  <2>1. l - 1 \in Nat /\ ~ (l <= l - 1)
    BY <1>3
  <2>2. l - 1 \notin T
    BY <1>2, <2>1
  <2> QED
    BY <2>1, <2>2, PowerIs
<1> QED
  BY <1>2, <1>3, <1>4 DEF IsLength

(* The bytes of n, and how many there are. *)
LEMMA BigBytesIs ==
  ASSUME NEW n \in Nat
  PROVE  \E l \in 0..n : IsLength(l, n) /\ BigBytes(n) = Reverse(LittleEndian(n, l))
<1> DEFINE len == CHOOSE l \in 0..n : IsLength(l, n)
<1>1. len \in 0..n /\ IsLength(len, n)
  BY LengthExists
<1>2. BigBytes(n) = Reverse(LittleEndian(n, len))
  BY Zenon DEF BigBytes, IsLength
<1> QED
  BY <1>1, <1>2

Digit == 0..(Nibble - 1)

(* The digits of HexEncode are the halves of each byte.                    *)
LEMMA HexIs ==
  ASSUME NEW s \in Seq(Byte)
  PROVE  /\ HexEncode(s) \in Seq(Digit)
         /\ Len(HexEncode(s)) = 2 * Len(s)
         /\ \A i \in 1..Len(s) : /\ HexEncode(s)[2 * i - 1] = s[i] \div Nibble
                                 /\ HexEncode(s)[2 * i] = s[i] % Nibble
<1>1. ASSUME NEW b \in Byte PROVE b \div Nibble \in Digit /\ b % Nibble \in Digit
  <2>1. b \in Nat /\ b < Nibble * Nibble
    BY BaseType DEF Byte, Base
  <2>2. b \div Nibble \in Nat /\ b % Nibble \in 0..(Nibble - 1)
        /\ b = Nibble * (b \div Nibble) + (b % Nibble)
    BY <2>1, BaseType, Division
  <2>3. b \div Nibble < Nibble
    <3> DEFINE q == b \div Nibble
    <3> HIDE DEF q
    <3>1. \A a, c \in Nat : c <= a => c * c <= c * a
      OBVIOUS
    <3>2. q \in Nat /\ Nibble \in Nat
      BY <2>2, BaseType DEF q
    <3>3. q >= Nibble => Nibble * q >= Nibble * Nibble
      BY <3>1, <3>2
    <3> QED
      BY <2>1, <2>2, <3>2, <3>3, BaseType DEF q
  <2> QED
    BY <2>2, <2>3, BaseType DEF Digit
<1> DEFINE len == 2 * Len(s)
           At(i) == IF i % 2 = 1 THEN s[(i + 1) \div 2] \div Nibble ELSE s[i \div 2] % Nibble
<1>2. HexEncode(s) = [i \in 1..len |-> At(i)] /\ len \in Nat
  BY DEF HexEncode
<1>3. ASSUME NEW i \in 1..len PROVE At(i) \in Digit
  <2>1. CASE i % 2 = 1
    <3>1. (i + 1) \div 2 \in 1..Len(s)
      BY <2>1
    <3> QED
      BY <1>1, <2>1, <3>1
  <2>2. CASE i % 2 # 1
    <3>1. i \div 2 \in 1..Len(s)
      BY <2>2
    <3> QED
      BY <1>1, <2>2, <3>1
  <2> QED
    BY <2>1, <2>2
<1>4. ASSUME NEW i \in 1..Len(s)
      PROVE  /\ 2 * i - 1 \in 1..len /\ At(2 * i - 1) = s[i] \div Nibble
             /\ 2 * i \in 1..len /\ At(2 * i) = s[i] % Nibble
  <2>1. (2 * i - 1) % 2 = 1 /\ ((2 * i - 1) + 1) \div 2 = i
    OBVIOUS
  <2>2. (2 * i) % 2 = 0 /\ (2 * i) \div 2 = i
    OBVIOUS
  <2>3. 2 * i - 1 \in 1..len /\ 2 * i \in 1..len
    OBVIOUS
  <2> QED
    BY <2>1, <2>2, <2>3
<1> HIDE DEF len, At
<1>5. HexEncode(s) \in Seq(Digit) /\ Len(HexEncode(s)) = len
  BY <1>2, <1>3
<1>6. ASSUME NEW i \in 1..Len(s)
      PROVE  /\ HexEncode(s)[2 * i - 1] = s[i] \div Nibble
             /\ HexEncode(s)[2 * i] = s[i] % Nibble
  BY <1>2, <1>4
<1> QED
  BY <1>5, <1>6 DEF len

(* HexDecode reads what HexEncode has written.                             *)
LEMMA HexComesBack ==
  ASSUME NEW s \in Seq(Byte)
  PROVE  HexDecode(HexEncode(s)) = s
<1> DEFINE text == HexEncode(s)
<1>1. /\ Len(text) = 2 * Len(s)
      /\ \A i \in 1..Len(s) : /\ text[2 * i - 1] = s[i] \div Nibble
                              /\ text[2 * i] = s[i] % Nibble
  BY HexIs
<1> HIDE DEF text
<1>2. Len(text) % 2 # 1 /\ Len(text) \div 2 = Len(s)
  BY <1>1
<1>3. ASSUME NEW i \in 1..Len(s) PROVE Nibble * text[2 * i - 1] + text[2 * i] = s[i]
  <2>1. s[i] \in Nat
    BY BaseType DEF Byte
  <2>2. \A b \in Nat : Nibble * (b \div Nibble) + (b % Nibble) = b
    BY BaseType, Division
  <2> QED
    BY <1>1, <2>1, <2>2
<1>4. HexDecode(text) = [i \in 1..Len(s) |-> Nibble * text[2 * i - 1] + text[2 * i]]
  BY <1>2 DEF HexDecode
<1>5. HexDecode(text) = [i \in 1..Len(s) |-> s[i]]
  BY <1>3, <1>4
<1> QED
  BY <1>5 DEF text

(* What a reversed sequence of bytes is.                                   *)
LEMMA ReverseType ==
  ASSUME NEW S, NEW s \in Seq(S)
  PROVE  Reverse(s) \in Seq(S) /\ Len(Reverse(s)) = Len(s)
<1>1. \A i \in 1..Len(s) : (Len(s) - i) + 1 \in 1..Len(s)
  OBVIOUS
<1> QED
  BY <1>1 DEF Reverse

(* The bytes of a big integer are bytes.                                   *)
LEMMA BigBytesType == \A n \in Nat : BigBytes(n) \in Seq(Byte)
<1> TAKE n \in Nat
<1>1. PICK l \in 0..n : BigBytes(n) = Reverse(LittleEndian(n, l))
  BY BigBytesIs
<1>2. l \in Nat
  OBVIOUS
<1> QED
  BY <1>1, <1>2, LittleEndianType, ReverseType

(* The text of a big integer has digits only.                              *)
LEMMA EncodeBigIntType == \A n \in Nat : EncodeBigInt(n) \in Seq(Digit)
<1> TAKE n \in Nat
<1>1. <<0, 0>> \in Seq(Digit)
  BY BaseType DEF Digit
<1>2. HexEncode(BigBytes(n)) \in Seq(Digit)
  BY BigBytesType, HexIs
<1> QED
  BY <1>1, <1>2, Zenon DEF EncodeBigInt

-----------------------------------------------------------------------------
(* The key of a transfer.                                                  *)

(* A word has the digits of a number after as many zeros as are missing.   *)
LEMMA PaddedIs ==
  ASSUME NEW n \in Nat, NEW l \in Nat, n < Power[l], l <= HashLen
  PROVE  LeftPadBytes(Reverse(LittleEndian(n, l)), HashLen) = Reverse(LittleEndian(n, HashLen))
<1> DEFINE s == Reverse(LittleEndian(n, l))
           word == Reverse(LittleEndian(n, HashLen))
           Digits(i) == (n \div Power[i - 1]) % Base
           zeros == [i \in 1..(HashLen - l) |-> 0]
<1>1. HashLen \in Nat
  BY TransfersAssumption
<1>2. Len(s) = l /\ s \in Seq(Byte) /\ \A i \in 1..l : s[i] = Digits((l - i) + 1)
  <2>1. Len(LittleEndian(n, l)) = l /\ LittleEndian(n, l) \in Seq(Byte)
    BY LittleEndianType
  <2>2. Len(s) = l /\ s \in Seq(Byte)
    BY <2>1, ReverseType
  <2>3. s = [i \in 1..l |-> LittleEndian(n, l)[(l - i) + 1]]
    BY <2>1 DEF Reverse
  <2>4. \A i \in 1..l : (l - i) + 1 \in 1..l
    OBVIOUS
  <2>5. \A i \in 1..l : LittleEndian(n, l)[i] = Digits(i)
    BY DEF LittleEndian
  <2> QED
    BY <2>2, <2>3, <2>4, <2>5
<1>3. word = [i \in 1..HashLen |-> Digits((HashLen - i) + 1)]
  <2>1. Len(LittleEndian(n, HashLen)) = HashLen
    BY <1>1, LittleEndianType
  <2>2. word = [i \in 1..HashLen |-> LittleEndian(n, HashLen)[(HashLen - i) + 1]]
    BY <2>1 DEF Reverse
  <2>3. \A i \in 1..HashLen : (HashLen - i) + 1 \in 1..HashLen
    BY <1>1
  <2>4. \A i \in 1..HashLen : LittleEndian(n, HashLen)[i] = Digits(i)
    BY DEF LittleEndian
  <2> QED
    BY <2>2, <2>3, <2>4
<1>4. ASSUME NEW i \in Nat, i > l PROVE Digits(i) = 0
  <2>1. Power[l] <= Power[i - 1] /\ Power[i - 1] \in Nat /\ Power[l] \in Nat
    BY <1>4, PowerGrows, PowerIs
  <2>2. \A p \in Nat : n < p => n \div p = 0
    OBVIOUS
  <2>3. n \div Power[i - 1] = 0
    BY <2>1, <2>2
  <2>4. 0 % Base = 0
    BY BaseType
  <2> QED
    BY <2>3, <2>4
<1> HIDE DEF s, word, Digits
<1>5. CASE HashLen = l
  <2>1. LeftPadBytes(s, HashLen) = s
    BY <1>1, <1>2, <1>5 DEF LeftPadBytes
  <2>2. s = [i \in 1..l |-> s[i]]
    BY <1>2
  <2>3. s = word
    BY <1>2, <1>3, <1>5, <2>2
  <2> QED
    BY <2>1, <2>3 DEF s, word
<1>6. CASE HashLen > l
  <2>1. LeftPadBytes(s, HashLen) = zeros \o s
    BY <1>1, <1>2, <1>6 DEF LeftPadBytes
  <2>2. zeros \in Seq(Nat) /\ Len(zeros) = HashLen - l
    BY <1>1, <1>6
  <2>3. Len(zeros \o s) = HashLen
    BY <1>1, <1>2, <2>2
  <2>4. ASSUME NEW i \in 1..HashLen PROVE (zeros \o s)[i] = Digits((HashLen - i) + 1)
    <3>1. CASE i <= HashLen - l
      <4>1. (zeros \o s)[i] = 0
        BY <1>1, <1>2, <2>2, <3>1
      <4>2. (HashLen - i) + 1 \in Nat /\ (HashLen - i) + 1 > l
        BY <1>1, <3>1
      <4> QED
        BY <1>4, <4>1, <4>2
    <3>2. CASE i > HashLen - l
      <4>1. (zeros \o s)[i] = s[i - (HashLen - l)]
        BY <1>1, <1>2, <2>2, <3>2
      <4>2. i - (HashLen - l) \in 1..l /\ (l - (i - (HashLen - l))) + 1 = (HashLen - i) + 1
        BY <1>1, <3>2
      <4> QED
        BY <1>2, <4>1, <4>2
    <3>3. i <= HashLen - l \/ i > HashLen - l
      BY <1>1
    <3> QED
      BY <3>1, <3>2, <3>3
  <2>5. zeros \o s = [i \in 1..HashLen |-> (zeros \o s)[i]]
    <3> HIDE DEF zeros
    <3>1. s \in Seq(Nat)
      BY <1>2, BaseType, Widen DEF Byte
    <3>2. zeros \o s \in Seq(Nat)
      BY <2>2, <3>1
    <3> DEFINE all == zeros \o s
    <3>3. all \in Seq(Nat) /\ Len(all) = HashLen
      BY <2>3, <3>2
    <3>4. all = [i \in 1..HashLen |-> all[i]]
      <4> HIDE DEF all
      <4> QED
        BY ONLY <3>3
    <3> QED
      BY <3>4
  <2>6. zeros \o s = word
    <3> HIDE DEF zeros
    <3> QED
      BY <1>3, <2>4, <2>5
  <2> QED
    BY <2>1, <2>6 DEF s, word
<1> QED
  BY <1>1, <1>5, <1>6

(* What HexEncode has written is hexadecimal.                              *)
LEMMA IsHex == \A s \in Seq(Byte) : HexDecode(HexEncode(s)) # NotHex
<1> TAKE s \in Seq(Byte)
<1>1. SUFFICES ASSUME s = <<-1>> PROVE FALSE
  BY HexComesBack DEF NotHex
<1>2. Len(s) = 1 /\ s[1] = -1
  BY <1>1
<1>3. s[1] \in Byte
  BY <1>2
<1> QED
  BY <1>2, <1>3, BaseType DEF Byte

(* Both words: a number that has l of its bytes, or a hex number of more.  *)
LEMMA KeyOf ==
  ASSUME NEW n \in Nat, NEW l \in Nat, n < Power[l], l <= HashLen,
         NEW text, text = HexEncode(Reverse(LittleEndian(n, l)))
  PROVE  GetMappingKey(text) = Reverse(LittleEndian(n, HashLen)) \o Reverse(LittleEndian(1, HashLen))
<1> DEFINE s == Reverse(LittleEndian(n, l))
           one == Reverse(LittleEndian(1, 1))
<1>1. /\ s \in Seq(Byte)
      /\ HexDecode(text) = s
      /\ HexDecode(text) # NotHex
  <2>1. s \in Seq(Byte)
    BY LittleEndianType, ReverseType
  <2> QED
    BY <2>1, HexComesBack, IsHex
<1>2. HexDecode(<<0, 1>>) = one /\ HexDecode(<<0, 1>>) # NotHex
  <2>1. 1 \div Power[0] = 1 /\ 1 % Base = 1
    <3>1. 1 \div 1 = 1 /\ \A b \in Nat : b > 1 => 1 % b = 1
      OBVIOUS
    <3> QED
      BY <3>1, PowerIs, BaseType
  <2>2. LittleEndian(1, 1) = <<1>>
    BY <2>1 DEF LittleEndian
  <2>3. one = <<1>>
    <3>1. Reverse(<<1>>) = <<1>>
      BY DEF Reverse
    <3> QED
      BY <2>2, <3>1
  <2>4. Nibble * 0 + 1 = 1
    BY BaseType
  <2>5. HexDecode(<<0, 1>>) = <<1>>
    <3>1. Len(<<0, 1>>) % 2 # 1 /\ Len(<<0, 1>>) \div 2 = 1
      OBVIOUS
    <3>2. HexDecode(<<0, 1>>) = [i \in 1..1 |-> Nibble * <<0, 1>>[2 * i - 1] + <<0, 1>>[2 * i]]
      BY <3>1 DEF HexDecode
    <3>3. \A i \in 1..1 : Nibble * <<0, 1>>[2 * i - 1] + <<0, 1>>[2 * i] = 1
      BY <2>4
    <3> QED
      BY <3>2, <3>3
  <2>6. <<1>> # <<-1>>
    OBVIOUS
  <2> QED
    BY <2>3, <2>5, <2>6 DEF NotHex
<1>3. LeftPadBytes(s, HashLen) = Reverse(LittleEndian(n, HashLen))
  BY PaddedIs
<1>4. LeftPadBytes(one, HashLen) = Reverse(LittleEndian(1, HashLen))
  <2>1. 1 < Power[1] /\ 1 <= HashLen
    <3>1. Power[0 + 1] = Base * 1
      BY PowerIs
    <3> QED
      BY <3>1, BaseType, TransfersAssumption
  <2> QED
    BY <2>1, PaddedIs
<1> HIDE DEF s, one
<1>5. MappingKeyAt(text, <<0, 1>>) = LeftPadBytes(s, HashLen) \o LeftPadBytes(one, HashLen)
  BY <1>1, <1>2, Zenon DEF MappingKeyAt
<1> QED
  BY <1>3, <1>4, <1>5 DEF GetMappingKey

(* A number below a power has no more bytes than the exponent.             *)
LEMMA LengthBelow ==
  ASSUME NEW n \in Nat, NEW l \in Nat, NEW m \in Nat, IsLength(l, n), n < Power[m]
  PROVE  l <= m
<1> SUFFICES ASSUME l > m PROVE FALSE
  OBVIOUS
<1>1. l - 1 \in Nat /\ m <= l - 1 /\ l # 0
  OBVIOUS
<1>2. Power[m] <= Power[l - 1] /\ Power[m] \in Nat /\ Power[l - 1] \in Nat
  BY <1>1, PowerGrows, PowerIs
<1>3. Power[l - 1] <= n
  BY <1>1 DEF IsLength
<1> QED
  BY <1>2, <1>3

(* The text of a number in 64 bits: at least one byte, and no more than it *)
(* needs.                                                                  *)
LEMMA EncodeBigIntIs ==
  ASSUME NEW n \in Uint64
  PROVE  \E l \in 1..Uint64Len :
           /\ n < Power[l]
           /\ l = 1 \/ Power[l - 1] <= n
           /\ EncodeBigInt(n) = HexEncode(Reverse(LittleEndian(n, l)))
<1>1. n \in Nat /\ n < Power[Uint64Len] /\ Power[Uint64Len] \in Nat
  <2>1. Power[Uint64Len] \in Nat
    BY PowerIs, TransfersAssumption
  <2> QED
    BY <2>1 DEF Uint64
<1>2. n % Power[Uint64Len] = n
  <2>1. \A p \in Nat : n < p => n % p = n
    BY <1>1
  <2> QED
    BY <1>1, <2>1
<1>3. CASE n = 0
  <2>1. EncodeBigInt(n) = <<0, 0>>
    BY <1>2, <1>3, Zenon DEF EncodeBigInt
  <2>2. HexEncode(Reverse(LittleEndian(n, 1))) = <<0, 0>>
    <3>1. n \div Power[0] = 0 /\ 0 % Base = 0
      BY <1>3, PowerIs, BaseType
    <3>2. LittleEndian(n, 1) = <<0>>
      BY <3>1 DEF LittleEndian
    <3>3. Reverse(<<0>>) = <<0>>
      BY DEF Reverse
    <3>4. <<0>> \in Seq(Byte)
      BY BaseType DEF Byte
    <3>5. /\ HexEncode(<<0>>) \in Seq(Digit)
          /\ Len(HexEncode(<<0>>)) = 2
          /\ HexEncode(<<0>>)[1] = 0 \div Nibble
          /\ HexEncode(<<0>>)[2] = 0 % Nibble
      <4>1. Len(<<0>>) = 1 /\ <<0>>[1] = 0 /\ 2 * 1 - 1 = 1 /\ 2 * 1 = 2 /\ 1 \in 1..1
        OBVIOUS
      <4> QED
        BY <3>4, <4>1, HexIs
    <3>6. 0 \div Nibble = 0 /\ 0 % Nibble = 0
      BY BaseType
    <3> QED
      BY <3>2, <3>3, <3>5, <3>6
  <2>3. n < Power[1]
    BY <1>3, PowerPositive
  <2>4. 1 \in 1..Uint64Len
    BY TransfersAssumption
  <2> QED
    BY <2>1, <2>2, <2>3, <2>4
<1>4. CASE n # 0
  <2>1. PICK l \in 0..n : IsLength(l, n) /\ BigBytes(n) = Reverse(LittleEndian(n, l))
    BY <1>1, BigBytesIs
  <2>2. l \in Nat /\ l <= Uint64Len
    BY <1>1, <2>1, LengthBelow, TransfersAssumption
  <2>3. l # 0
    BY <1>1, <1>4, <2>1, PowerIs DEF IsLength
  <2>4. EncodeBigInt(n) = HexEncode(Reverse(LittleEndian(n, l)))
    BY <1>2, <1>4, <2>1, Zenon DEF EncodeBigInt
  <2>5. l \in 1..Uint64Len
    BY <2>2, <2>3, TransfersAssumption
  <2> QED
    BY <2>1, <2>3, <2>4, <2>5 DEF IsLength
<1> QED
  BY <1>3, <1>4

(* The key that is made of the text of an index is the slot of the index.  *)
LEMMA KeyIs ==
  ASSUME NEW n \in Uint64
  PROVE  GetMappingKey(EncodeBigInt(n))
           = Reverse(LittleEndian(n, HashLen)) \o Reverse(LittleEndian(1, HashLen))
<1>1. PICK l \in 1..Uint64Len :
        n < Power[l] /\ EncodeBigInt(n) = HexEncode(Reverse(LittleEndian(n, l)))
  BY EncodeBigIntIs
<1>2. n \in Nat /\ l \in Nat /\ l <= HashLen
  BY PowerIs, TransfersAssumption DEF Uint64
<1> QED
  BY <1>1, <1>2, KeyOf

-----------------------------------------------------------------------------
(* The order of the texts is the order of the numbers.                     *)

(* Where two texts, or two strings of bytes, differ first.                 *)
DifferAt(s, t, k) ==
  /\ k \in 1..Len(s)
  /\ \A i \in 1..(k - 1) : s[i] = t[i]
  /\ s[k] < t[k]

(* Of two numbers with as many bytes, the larger one has the larger byte   *)
(* where they first differ.                                                *)
LEMMA BytesDiffer ==
  ASSUME NEW n \in Nat, NEW m \in Nat, NEW l \in Nat, n < m, n < Power[l], m < Power[l]
  PROVE  \E k : DifferAt(Reverse(LittleEndian(n, l)), Reverse(LittleEndian(m, l)), k)
<1> DEFINE T == {d \in 0..l : n \div Power[l - d] < m \div Power[l - d]}
<1>1. l \in T
  <2>1. n \div 1 = n /\ m \div 1 = m /\ l - l = 0
    OBVIOUS
  <2> QED
    BY <2>1, PowerIs
<1>2. PICK d \in T : \A c \in T : d <= c
  <2> HIDE DEF T
  <2>1. T \in SUBSET Nat
    BY DEF T
  <2> QED
    BY <1>1, <2>1, LeastElement
<1>3. d # 0
  <2>1. \A p \in Nat : n < p /\ m < p => n \div p = 0 /\ m \div p = 0
    OBVIOUS
  <2>2. n \div Power[l] = 0 /\ m \div Power[l] = 0
    BY <2>1, PowerIs
  <2> QED
    BY <2>2
<1> DEFINE Above(x, i) == x \div Power[i]
           Digits(x, i) == (x \div Power[i - 1]) % Base
           j == l - d
<1>4. d \in 1..l /\ j \in 0..(l - 1) /\ Above(n, j) < Above(m, j)
  BY <1>2, <1>3
<1>5. ASSUME NEW i \in (j + 1)..l PROVE Above(n, i) = Above(m, i)
  <2>1. l - i \in 0..l /\ ~ (d <= l - i) /\ l - (l - i) = i /\ i \in Nat
    BY <1>4
  <2>2. ~ (Above(n, i) < Above(m, i))
    BY <1>2, <2>1
  <2>3. Above(n, i) <= Above(m, i)
    BY <2>1, DivisionGrows, PowerPositive
  <2>4. Above(n, i) \in Nat /\ Above(m, i) \in Nat
    BY <2>1, Division, PowerPositive
  <2> QED
    BY <2>2, <2>3, <2>4
<1>6. Digits(n, j + 1) < Digits(m, j + 1)
  <2> DEFINE q == Above(n, j)
             r == Above(m, j)
  <2>1. q \in Nat /\ r \in Nat /\ q < r /\ j \in Nat
    BY <1>4, Division, PowerPositive
  <2>2. Above(n, j + 1) = q \div Base /\ Above(m, j + 1) = r \div Base
    BY <2>1, NextDigit
  <2>3. Above(n, j + 1) = Above(m, j + 1)
    BY <1>4, <1>5
  <2>4. Digits(n, j + 1) = q % Base /\ Digits(m, j + 1) = r % Base
    BY <2>1
  <2> HIDE DEF q, r, Above, Digits
  <2>5. q \div Base = r \div Base
    BY <2>2, <2>3
  <2>6. q = Base * (q \div Base) + (q % Base) /\ r = Base * (r \div Base) + (r % Base)
    BY <2>1, Division, BaseType
  <2>7. q % Base \in Nat /\ r % Base \in Nat /\ Base * (r \div Base) \in Nat
    BY <2>1, Division, BaseType
  <2> QED
    BY <2>1, <2>4, <2>5, <2>6, <2>7
<1>7. ASSUME NEW i \in (j + 2)..l PROVE Digits(n, i) = Digits(m, i)
  <2>1. i - 1 \in (j + 1)..l
    BY <1>4
  <2> QED
    BY <1>5, <2>1
<1> DEFINE s == Reverse(LittleEndian(n, l))
           t == Reverse(LittleEndian(m, l))
<1>8. ASSUME NEW x \in Nat, NEW i \in 1..l
      PROVE  Reverse(LittleEndian(x, l))[i] = Digits(x, (l - i) + 1)
  <2>1. Len(LittleEndian(x, l)) = l
    BY LittleEndianType
  <2>2. Reverse(LittleEndian(x, l))[i] = LittleEndian(x, l)[(l - i) + 1]
    BY <2>1 DEF Reverse
  <2>3. (l - i) + 1 \in 1..l
    OBVIOUS
  <2> QED
    BY <2>2, <2>3 DEF LittleEndian
<1>9. Len(s) = l
  BY LittleEndianType, ReverseType
<1> HIDE DEF Digits, Above, T, s, t
<1>10. \A i \in 1..l : s[i] = Digits(n, (l - i) + 1) /\ t[i] = Digits(m, (l - i) + 1)
  BY <1>8 DEF s, t
<1>11. d \in 1..Len(s) /\ s[d] < t[d]
  <2>1. (l - d) + 1 = j + 1 /\ d \in 1..l
    BY <1>4
  <2> QED
    BY <1>6, <1>9, <1>10, <2>1
<1>12. ASSUME NEW i \in 1..(d - 1) PROVE s[i] = t[i]
  <2>1. (l - i) + 1 \in (j + 2)..l /\ i \in 1..l
    BY <1>4
  <2> QED
    BY <1>7, <1>10, <2>1
<1>13. DifferAt(s, t, d)
  BY <1>11, <1>12 DEF DifferAt
<1> QED
  BY <1>13 DEF s, t

(* HexEncode keeps the order of bytes.                                     *)
LEMMA HexDiffers ==
  ASSUME NEW s \in Seq(Byte), NEW t \in Seq(Byte), Len(s) = Len(t), NEW p, DifferAt(s, t, p)
  PROVE  \E k : DifferAt(HexEncode(s), HexEncode(t), k)
<1> DEFINE h == HexEncode(s)
           g == HexEncode(t)
<1>1. p \in 1..Len(s) /\ p \in Nat
  BY DEF DifferAt
<1>2. /\ Len(h) = 2 * Len(s)
      /\ \A i \in 1..Len(s) : /\ h[2 * i - 1] = s[i] \div Nibble /\ g[2 * i - 1] = t[i] \div Nibble
                              /\ h[2 * i] = s[i] % Nibble /\ g[2 * i] = t[i] % Nibble
  BY HexIs
<1> HIDE DEF h, g
<1>3. ASSUME NEW i \in 1..(2 * (p - 1)) PROVE h[i] = g[i]
  <2>1. PICK c \in 1..(p - 1) : i = 2 * c - 1 \/ i = 2 * c
    <3>1. (i + 1) \div 2 \in 1..(p - 1)
      BY <1>1
    <3>2. i = 2 * ((i + 1) \div 2) - 1 \/ i = 2 * ((i + 1) \div 2)
      BY <1>1
    <3> QED
      BY <3>1, <3>2
  <2>2. s[c] = t[c] /\ c \in 1..Len(s)
    BY <1>1 DEF DifferAt
  <2> QED
    BY <1>2, <2>1, <2>2
<1>4. s[p] \in Nat /\ t[p] \in Nat /\ s[p] < t[p]
  BY <1>1, BaseType DEF Byte, DifferAt
<1>5. s[p] \div Nibble < t[p] \div Nibble
      \/ (s[p] \div Nibble = t[p] \div Nibble /\ s[p] % Nibble < t[p] % Nibble)
  <2> DEFINE a == s[p]
             b == t[p]
  <2>1. a \div Nibble <= b \div Nibble
    <3>1. \A x, y \in Nat : x <= y => x \div Nibble <= y \div Nibble
      BY BaseType, DivisionGrows
    <3>2. a \in Nat /\ b \in Nat /\ a <= b
      BY <1>4
    <3> HIDE DEF a, b
    <3> QED
      BY <3>1, <3>2
  <2>2. \A x \in Nat : /\ x \div Nibble \in Nat /\ x % Nibble \in Nat
                       /\ x = Nibble * (x \div Nibble) + (x % Nibble)
    BY BaseType, Division
  <2> DEFINE qa == a \div Nibble
             qb == b \div Nibble
             ra == a % Nibble
             rb == b % Nibble
  <2>3. /\ qa \in Nat /\ ra \in Nat /\ a = Nibble * qa + ra
        /\ qb \in Nat /\ rb \in Nat /\ b = Nibble * qb + rb
    BY <1>4, <2>2
  <2>4. a < b /\ a \in Nat /\ b \in Nat /\ qa <= qb
    BY <1>4, <2>1
  <2> HIDE DEF a, b, qa, qb, ra, rb
  <2>5. qa < qb \/ (qa = qb /\ ra < rb)
    BY <2>3, <2>4, BaseType
  <2> QED
    BY <2>5 DEF a, b, qa, qb, ra, rb
<1>6. CASE s[p] \div Nibble < t[p] \div Nibble
  <2>1. 2 * p - 1 \in 1..Len(h) /\ (2 * p - 1) - 1 = 2 * (p - 1)
    BY <1>1, <1>2
  <2>2. DifferAt(h, g, 2 * p - 1)
    BY <1>1, <1>2, <1>3, <1>6, <2>1 DEF DifferAt
  <2> QED
    BY <2>2 DEF h, g
<1>7. CASE s[p] \div Nibble = t[p] \div Nibble /\ s[p] % Nibble < t[p] % Nibble
  <2>1. 2 * p \in 1..Len(h)
    BY <1>1, <1>2
  <2>2. ASSUME NEW i \in 1..(2 * p - 1) PROVE h[i] = g[i]
    <3>1. i \in 1..(2 * (p - 1)) \/ i = 2 * p - 1
      BY <1>1
    <3> QED
      BY <1>1, <1>2, <1>3, <1>7, <3>1
  <2>3. DifferAt(h, g, 2 * p)
    BY <1>1, <1>2, <1>7, <2>1, <2>2 DEF DifferAt
  <2> QED
    BY <2>3 DEF h, g
<1> QED
  BY <1>5, <1>6, <1>7

(* A smaller number has a shorter text, or one of the same length that is  *)
(* smaller where they differ first.                                        *)
LEMMA TextsAreInOrder ==
  ASSUME NEW n \in Uint64, NEW m \in Uint64, n < m
  PROVE  LET s == EncodeBigInt(n)
             t == EncodeBigInt(m)
         IN Len(s) < Len(t) \/ (Len(s) = Len(t) /\ \E k : DifferAt(s, t, k))
<1>1. n \in Nat /\ m \in Nat
  BY PowerIs, TransfersAssumption DEF Uint64
<1>2. PICK l \in 1..Uint64Len :
        /\ n < Power[l]
        /\ l = 1 \/ Power[l - 1] <= n
        /\ EncodeBigInt(n) = HexEncode(Reverse(LittleEndian(n, l)))
  BY EncodeBigIntIs
<1>3. PICK k \in 1..Uint64Len :
        /\ m < Power[k]
        /\ k = 1 \/ Power[k - 1] <= m
        /\ EncodeBigInt(m) = HexEncode(Reverse(LittleEndian(m, k)))
  BY EncodeBigIntIs
<1>4. l \in Nat /\ k \in Nat /\ l > 0 /\ k > 0
  BY TransfersAssumption
<1>5. l <= k
  <2> SUFFICES ASSUME l > k PROVE FALSE
    BY <1>4
  <2>1. l - 1 \in Nat /\ k <= l - 1 /\ l # 1
    BY <1>4
  <2>2. Power[k] <= Power[l - 1] /\ Power[k] \in Nat /\ Power[l - 1] \in Nat
    BY <1>4, <2>1, PowerGrows, PowerIs
  <2> QED
    BY <1>1, <1>2, <1>3, <2>1, <2>2
<1> DEFINE s == Reverse(LittleEndian(n, l))
           t == Reverse(LittleEndian(m, k))
<1>6. s \in Seq(Byte) /\ Len(s) = l /\ t \in Seq(Byte) /\ Len(t) = k
  BY <1>1, <1>4, LittleEndianType, ReverseType
<1>7. Len(HexEncode(s)) = 2 * l /\ Len(HexEncode(t)) = 2 * k
  BY <1>6, HexIs
<1>8. CASE l < k
  BY <1>2, <1>3, <1>4, <1>7, <1>8
<1>9. CASE l = k
  <2>1. PICK p : DifferAt(s, t, p)
    BY <1>1, <1>2, <1>3, <1>4, <1>9, BytesDiffer
  <2>2. \E i : DifferAt(HexEncode(s), HexEncode(t), i)
    <3> HIDE DEF s, t
    <3> QED
      BY <1>6, <1>9, <2>1, HexDiffers
  <2> QED
    BY <1>2, <1>3, <1>7, <1>9, <2>2
<1> QED
  BY <1>4, <1>5, <1>8, <1>9

=============================================================================
