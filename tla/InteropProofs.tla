--------------------------- MODULE InteropProofs ---------------------------
(***************************************************************************)
(* Proofs about the two codecs and the ids of the two crates, for every    *)
(* length of ids, keys and transaction ids, every checksum and every set   *)
(* of values that fits the types of the structs.                           *)
(*                                                                         *)
(* Contacts first.  XorByte is a sum over bits and leading_zeros a choice: *)
(* the least bit at which they would fail (LeastNat) takes the place of    *)
(* induction.  ContactInv says that a contact has an id, and one that its  *)
(* own IP accepts if a crate made it.                                      *)
(*                                                                         *)
(* Then datagrams.  DatagramsInv says that a datagram is what one of the   *)
(* crates encoded from a message of its own types, or bencode of any kind  *)
(* (OriginInv), and that what was read is what the codecs make of it       *)
(* (DatagramInv).  The properties follow from it by what the codecs do,    *)
(* which is proved from the bottom up: an address, a list of nodes, a      *)
(* field, a struct, a body, an envelope, a message.                        *)
(***************************************************************************)
EXTENDS Interop, FiniteSetTheorems, SequenceTheorems, NaturalsInduction, WellFoundedInduction, TLAPS

-----------------------------------------------------------------------------
(* Ids.                                                                      *)

\* A set of numbers has a least one: what induction over data rests on here.
LEMMA LeastNat ==
  ASSUME NEW T \in SUBSET Nat, T # {}
  PROVE  \E n \in T : \A m \in T : n <= m
  <1>1. IsWellFoundedOn(OpToRel(<, Nat), Nat)
    BY NatLessThanWellFounded
  <1>2. PICK n \in T : \A m \in T : ~ (<<m, n>> \in OpToRel(<, Nat))
    BY <1>1, WFMin
  <1>3. \A m \in T : ~ (m < n)
    BY <1>2 DEF OpToRel
  <1>4. QED
    BY <1>3

\* A recursive function that adds up w is defined, and yields numbers.
Sums(f, n, w) == f = [i \in 0..n |-> IF i = 0 THEN 0 ELSE f[i - 1] + w[i - 1]]

\* Partial sums exist for every finite row of weights.
LEMMA SumsExist ==
  ASSUME NEW n \in Nat, NEW w \in [0..(n - 1) -> Nat]
  PROVE  \E f \in [0..n -> Nat] : Sums(f, n, w)
  <1> DEFINE Good(m) == \E f \in [0..m -> Nat] : Sums(f, m, w)
             Bad == {m \in 0..n : ~ Good(m)}
  <1> SUFFICES ASSUME ~ Good(n) PROVE FALSE
    OBVIOUS
  <1> HIDE DEF Good
  <1>0. n \in 0..n
    OBVIOUS
  <1>1. Bad \in SUBSET Nat /\ Bad # {}
    BY <1>0
  <1>2. PICK m \in Bad : \A l \in Bad : m <= l
    BY <1>1, LeastNat
  <1>3. m \in 0..n /\ ~ Good(m)
    OBVIOUS
  <1>4. CASE m = 0
    <2> DEFINE f == [i \in 0..0 |-> 0]
    <2>1. f \in [0..0 -> Nat] /\ Sums(f, 0, w)
      BY DEF Sums
    <2>2. QED
      BY <1>3, <1>4, <2>1 DEF Good
  <1>5. CASE m # 0
    <2>1. m - 1 \in 0..n /\ ~ (m <= m - 1)
      BY <1>3, <1>5
    <2>2. Good(m - 1)
      BY <1>2, <2>1
    <2>3. PICK f \in [0..(m - 1) -> Nat] : Sums(f, m - 1, w)
      BY <2>2 DEF Good
    <2> DEFINE g == [i \in 0..m |-> IF i = m THEN f[m - 1] + w[m - 1] ELSE f[i]]
    <2>4. g \in [0..m -> Nat]
      <3>1. w[m - 1] \in Nat /\ f[m - 1] \in Nat
        BY <1>3, <1>5
      <3>2. \A i \in 0..m : i # m => i \in 0..(m - 1)
        BY <1>3
      <3>3. QED
        BY <3>1, <3>2
    <2>5. \A i \in 0..(m - 1) : f[i] = IF i = 0 THEN 0 ELSE f[i - 1] + w[i - 1]
      BY <2>3 DEF Sums
    <2>6. ASSUME NEW i \in 0..m PROVE g[i] = IF i = 0 THEN 0 ELSE g[i - 1] + w[i - 1]
      <3>1. CASE i = m
        BY <1>3, <1>5, <3>1
      <3>2. CASE i # m
        <4>1. i \in 0..(m - 1) /\ (i # 0 => i - 1 \in 0..(m - 1) /\ i - 1 # m)
          BY <1>3, <3>2
        <4>2. QED
          BY <2>5, <3>2, <4>1
      <3>3. QED
        BY <3>1, <3>2
    <2>7. g = [i \in 0..m |-> g[i]]
      OBVIOUS
    <2> HIDE DEF g
    <2>8. Sums(g, m, w)
      BY <2>6, <2>7 DEF Sums
    <2>9. QED
      BY <1>3, <2>4, <2>8 DEF Good
  <1>6. QED
    BY <1>4, <1>5

\* f adds up the bits in which a and b differ.
BitSums(f, a, b) ==
  /\ f \in [0..ByteBits -> Nat] /\ f[0] = 0
  /\ \A i \in 1..ByteBits :
       f[i] = f[i - 1] + (IF Bit(a, i - 1) = Bit(b, i - 1) THEN 0 ELSE 2^(i - 1))

\* XorByte is a sum over the bits.
LEMMA XorByteIs ==
  ASSUME NEW a, NEW b
  PROVE  \E f : BitSums(f, a, b) /\ XorByte(a, b) = f[ByteBits]
  <1> DEFINE Body(h) == [i \in 0..ByteBits |-> IF i = 0 THEN 0
                ELSE h[i - 1] + (IF Bit(a, i - 1) = Bit(b, i - 1) THEN 0 ELSE 2^(i - 1))]
             F == CHOOSE h : h = Body(h)
             w == [i \in 0..(ByteBits - 1) |-> IF Bit(a, i) = Bit(b, i) THEN 0 ELSE 2^i]
  <1>0. ByteBits \in Nat
    BY NodeIdsAssumption
  <1>1. w \in [0..(ByteBits - 1) -> Nat]
    BY <1>0, PowersAssumption
  <1>2. PICK f \in [0..ByteBits -> Nat] : Sums(f, ByteBits, w)
    <2> HIDE DEF w
    <2>1. QED
      BY <1>0, <1>1, SumsExist
  <1>3. \A i \in 1..ByteBits : w[i - 1] = IF Bit(a, i - 1) = Bit(b, i - 1) THEN 0 ELSE 2^(i - 1)
    BY <1>0
  <1> HIDE DEF w
  <1>4. \A i \in 0..ByteBits : f[i] = IF i = 0 THEN 0 ELSE f[i - 1] + w[i - 1]
    BY <1>2 DEF Sums
  <1>5. f = Body(f)
    <2>1. ASSUME NEW i \in 0..ByteBits PROVE f[i] = Body(f)[i]
      <3>1. CASE i = 0
        BY <1>4, <3>1
      <3>2. CASE i # 0
        <4>1. i \in 1..ByteBits
          BY <1>0, <3>2
        <4>2. QED
          BY <1>3, <1>4, <4>1, <3>2
      <3>3. QED
        BY <3>1, <3>2
    <2>2. f = [i \in 0..ByteBits |-> f[i]] /\ Body(f) = [i \in 0..ByteBits |-> Body(f)[i]]
      OBVIOUS
    <2> HIDE DEF Body
    <2>3. QED
      BY <2>1, <2>2
  <1>6. F = Body(F)
    <2> HIDE DEF Body
    <2>1. QED
      BY <1>5
  <1>7. XorByte(a, b) = F[ByteBits]
    BY DEF XorByte
  <1>8. ASSUME NEW i \in 0..ByteBits PROVE F[i] = IF i = 0 THEN 0
            ELSE F[i - 1] + (IF Bit(a, i - 1) = Bit(b, i - 1) THEN 0 ELSE 2^(i - 1))
    <2> HIDE DEF F
    <2>1. F[i] = Body(F)[i]
      BY <1>6
    <2>2. QED
      BY <2>1
  <1>9. ASSUME NEW i \in 0..ByteBits PROVE F[i] = f[i]
    <2> DEFINE Bad == {l \in 0..ByteBits : F[l] # f[l]}
    <2> SUFFICES ASSUME Bad # {} PROVE FALSE
      OBVIOUS
    <2>0. Bad \in SUBSET Nat
      BY <1>0
    <2> HIDE DEF F, Bad
    <2>1. PICK k \in Bad : \A l \in Bad : k <= l
      BY <2>0, LeastNat
    <2>2. k \in 0..ByteBits /\ F[k] # f[k]
      BY DEF Bad
    <2>3. CASE k = 0
      BY <1>4, <1>8, <2>2, <2>3
    <2>4. CASE k # 0
      <3>1. k - 1 \in 0..ByteBits /\ ~ (k <= k - 1) /\ k \in 1..ByteBits
        BY <1>0, <2>2, <2>4
      <3>2. F[k - 1] = f[k - 1]
        BY <2>1, <3>1 DEF Bad
      <3>3. F[k] = F[k - 1] + w[k - 1]
        BY <1>3, <1>8, <2>4, <3>1
      <3>4. QED
        BY <1>4, <2>2, <2>4, <3>2, <3>3
    <2>5. QED
      BY <2>3, <2>4
  <1>10. F[ByteBits] = f[ByteBits]
    BY <1>0, <1>9
  <1> HIDE DEF F
  <1>11. f[0] = 0 /\ \A i \in 1..ByteBits :
           f[i] = f[i - 1] + (IF Bit(a, i - 1) = Bit(b, i - 1) THEN 0 ELSE 2^(i - 1))
    <2>1. f[0] = 0
      BY <1>0, <1>4
    <2>2. ASSUME NEW i \in 1..ByteBits
          PROVE  f[i] = f[i - 1] + (IF Bit(a, i - 1) = Bit(b, i - 1) THEN 0 ELSE 2^(i - 1))
      <3>1. i \in 0..ByteBits /\ i # 0
        BY <1>0
      <3>2. QED
        BY <1>3, <1>4, <3>1
    <2>3. QED
      BY <2>1, <2>2
  <1>12. QED
    BY <1>7, <1>10, <1>11 DEF BitSums

\* Powers of two grow.
LEMMA PowersGrow ==
  ASSUME NEW i \in 0..ByteBits, NEW j \in 0..ByteBits, i <= j
  PROVE  2^i <= 2^j
  <1>0. ByteBits \in Nat
    BY NodeIdsAssumption
  <1> DEFINE Bad == {k \in 0..ByteBits : i <= k /\ ~ (2^i <= 2^k)}
  <1> SUFFICES ASSUME Bad # {} PROVE FALSE
    OBVIOUS
  <1>1. Bad \in SUBSET Nat
    BY <1>0
  <1>2. PICK k \in Bad : \A l \in Bad : k <= l
    BY <1>1, LeastNat
  <1>3. k \in 0..ByteBits /\ i <= k /\ ~ (2^i <= 2^k)
    OBVIOUS
  <1>4. 2^i \in Nat /\ 2^k \in Nat /\ k # i
    BY <1>0, <1>3, PowersAssumption
  <1>5. k - 1 \in 0..ByteBits /\ i <= k - 1 /\ ~ (k <= k - 1) /\ k - 1 < ByteBits
    BY <1>0, <1>3, <1>4
  <1>6. 2^i <= 2^(k - 1)
    BY <1>2, <1>5
  <1>7. 2^(k - 1) \in Nat /\ 2^((k - 1) + 1) = 2 * 2^(k - 1)
    BY <1>5, PowersAssumption
  <1>8. (k - 1) + 1 = k
    BY <1>3, <1>0
  <1>9. QED
    BY <1>3, <1>4, <1>6, <1>7, <1>8

\* Quotients and remainders are numbers.
LEMMA Remainders ==
  ASSUME NEW a \in Nat, NEW P \in Nat \ {0}
  PROVE  a % P \in 0..(P - 1) /\ (a \div P) % 2 \in 0..1
  <1>1. a % P \in 0..(P - 1) /\ a \div P \in Nat
    OBVIOUS
  <1>2. \A q \in Nat : q % 2 \in 0..1
    OBVIOUS
  <1>3. QED
    BY <1>1, <1>2

\* One more bit of a remainder.
LEMMA NextBit ==
  ASSUME NEW a \in Nat, NEW P \in Nat \ {0}
  PROVE  a % (2 * P) = (a % P) + P * ((a \div P) % 2)
  <1> DEFINE q == a \div P
             r == a % P
             t == q \div 2
             e == q % 2
  <1>1. a = P * q + r /\ q \in Nat /\ r \in 0..(P - 1)
    OBVIOUS
  <1>2. q = 2 * t + e /\ t \in Nat /\ e \in 0..1
    BY <1>1
  <1> HIDE DEF q, r, t, e
  <1>3. P * q = P * (2 * t) + P * e
    BY <1>1, <1>2
  <1>4. P * (2 * t) = (2 * P) * t
    BY <1>2
  <1>5. a = (2 * P) * t + (r + P * e)
    BY <1>1, <1>2, <1>3, <1>4
  <1>6. r + P * e \in 0..(2 * P - 1)
    <2>1. CASE e = 0
      BY <1>1, <2>1
    <2>2. CASE e = 1
      BY <1>1, <2>2
    <2>3. QED
      BY <1>2, <2>1, <2>2
  <1>7. ASSUME NEW m \in Nat \ {0}, NEW s \in 0..(m - 1), NEW u \in Nat PROVE (m * u + s) % m = s
    OBVIOUS
  <1>8. 2 * P \in Nat \ {0}
    OBVIOUS
  <1>9. a % (2 * P) = r + P * e
    BY <1>2, <1>5, <1>6, <1>7, <1>8
  <1>10. QED
    BY <1>9 DEF r, e, q

\* The bits below i of two numbers: their xor is 0 when the bits are the same.
LEMMA XorByteFacts ==
  ASSUME NEW a \in Byte, NEW b \in Byte
  PROVE  XorByte(a, b) \in Byte /\ (XorByte(a, b) = 0 <=> a = b)
  <1>0. ByteBits \in Nat /\ a \in Nat /\ b \in Nat /\ 2^ByteBits \in Nat \ {0}
    BY NodeIdsAssumption DEF Byte
  <1>1. PICK f : BitSums(f, a, b) /\ XorByte(a, b) = f[ByteBits]
    BY XorByteIs
  <1>11. /\ f \in [0..ByteBits -> Nat] /\ f[0] = 0
         /\ \A i \in 1..ByteBits :
              f[i] = f[i - 1] + (IF Bit(a, i - 1) = Bit(b, i - 1) THEN 0 ELSE 2^(i - 1))
    BY <1>1 DEF BitSums
  <1> DEFINE Good(i) == f[i] < 2^i /\ (f[i] = 0 <=> a % 2^i = b % 2^i)
             Bad == {l \in 0..ByteBits : ~ Good(l)}
  <1>2. ASSUME NEW i \in 0..ByteBits PROVE Good(i)
    <2> SUFFICES ASSUME Bad # {} PROVE FALSE
      OBVIOUS
    <2>0. Bad \in SUBSET Nat
      BY <1>0
    <2> HIDE DEF Bad, Good
    <2>1. PICK k \in Bad : \A l \in Bad : k <= l
      BY <2>0, LeastNat
    <2>2. k \in 0..ByteBits /\ ~ Good(k)
      BY DEF Bad
    <2>3. CASE k = 0
      <3>1. 2^0 = 1 /\ a % 1 = 0 /\ b % 1 = 0
        BY <1>0, PowersAssumption
      <3>2. Good(0)
        BY <1>11, <3>1 DEF Good
      <3>3. QED
        BY <2>2, <2>3, <3>2
    <2>4. CASE k # 0
      <3>1. k - 1 \in 0..ByteBits /\ ~ (k <= k - 1) /\ k \in 1..ByteBits /\ (k - 1) + 1 = k /\ k - 1 < ByteBits
        BY <1>0, <2>2, <2>4
      <3>2. Good(k - 1)
        BY <2>1, <3>1 DEF Bad
      <3>3. 2^(k - 1) \in Nat \ {0} /\ 2^k = 2 * 2^(k - 1)
        BY <3>1, PowersAssumption
      <3> DEFINE P == 2^(k - 1)
                 ba == Bit(a, k - 1)
                 bb == Bit(b, k - 1)
                 ra == a % P
                 rb == b % P
      <3>4. a % (2 * P) = ra + P * ba /\ b % (2 * P) = rb + P * bb
        BY <1>0, <3>3, NextBit DEF Bit
      <3>5. ba \in 0..1 /\ bb \in 0..1 /\ ra \in 0..(P - 1) /\ rb \in 0..(P - 1)
        BY <1>0, <3>3, Remainders DEF Bit
      <3>6. f[k] = f[k - 1] + (IF ba = bb THEN 0 ELSE P) /\ f[k - 1] \in Nat
        BY <1>11, <3>1
      <3>7. f[k - 1] < P /\ (f[k - 1] = 0 <=> ra = rb)
        BY <3>2 DEF Good
      <3>8. P \in Nat \ {0} /\ 2^k = 2 * P
        BY <3>3
      <3> HIDE DEF P, ba, bb, ra, rb
      <3>9. f[k] < 2 * P
        BY <3>6, <3>7, <3>8
      <3>10. f[k] = 0 <=> ra + P * ba = rb + P * bb
        <4>1. CASE ba = bb
          BY <3>5, <3>6, <3>7, <3>8, <4>1
        <4>2. CASE ba = 0 /\ bb = 1
          BY <3>5, <3>6, <3>7, <3>8, <4>2
        <4>3. CASE ba = 1 /\ bb = 0
          BY <3>5, <3>6, <3>7, <3>8, <4>3
        <4>4. QED
          BY <3>5, <4>1, <4>2, <4>3
      <3>11. Good(k)
        BY <3>4, <3>8, <3>9, <3>10 DEF Good
      <3>12. QED
        BY <2>2, <3>11
    <2>5. QED
      BY <2>3, <2>4
  <1>3. Good(ByteBits)
    BY <1>0, <1>2
  <1>4. a % 2^ByteBits = a /\ b % 2^ByteBits = b
    <2>1. a \in 0..(2^ByteBits - 1) /\ b \in 0..(2^ByteBits - 1)
      BY DEF Byte
    <2>2. QED
      BY <1>0, <2>1
  <1>5. f[ByteBits] \in Nat
    BY <1>0, <1>11
  <1>6. QED
    <2>1. f[ByteBits] < 2^ByteBits /\ (f[ByteBits] = 0 <=> a = b)
      BY <1>3, <1>4
    <2>2. f[ByteBits] \in 0..(2^ByteBits - 1)
      BY <1>0, <1>5, <2>1
    <2>3. QED
      BY <1>1, <2>1, <2>2 DEF Byte

\* The distance is symmetric.
LEMMA XorByteSymmetric ==
  ASSUME NEW a, NEW b
  PROVE  XorByte(a, b) = XorByte(b, a)
  <1>0. ByteBits \in Nat
    BY NodeIdsAssumption
  <1>1. PICK f : BitSums(f, a, b) /\ XorByte(a, b) = f[ByteBits]
    BY XorByteIs
  <1>2. PICK g : BitSums(g, b, a) /\ XorByte(b, a) = g[ByteBits]
    BY XorByteIs
  <1>21. f[0] = g[0] /\ \A i \in 1..ByteBits : f[i - 1] = g[i - 1] => f[i] = g[i]
    BY <1>1, <1>2 DEF BitSums
  <1> DEFINE Bad == {l \in 0..ByteBits : f[l] # g[l]}
  <1>3. CASE Bad = {}
    BY <1>0, <1>1, <1>2, <1>3
  <1>4. CASE Bad # {}
    <2>0. Bad \in SUBSET Nat
      BY <1>0
    <2>1. PICK k \in Bad : \A l \in Bad : k <= l
      BY <1>4, <2>0, LeastNat
    <2>2. k \in 0..ByteBits /\ f[k] # g[k]
      OBVIOUS
    <2>3. k # 0
      BY <1>21, <2>2
    <2>4. k - 1 \in 0..ByteBits /\ ~ (k <= k - 1) /\ k \in 1..ByteBits
      BY <1>0, <2>2, <2>3
    <2>5. f[k - 1] = g[k - 1]
      BY <2>1, <2>4
    <2>6. QED
      BY <1>21, <2>2, <2>4, <2>5
  <1>5. QED
    BY <1>3, <1>4

\* z leading zeros: what u8::leading_zeros is chosen by.
Zeros(b, z) ==
  /\ z \in 0..ByteBits
  /\ b < 2^(ByteBits - z) /\ (z < ByteBits => b >= 2^(ByteBits - z - 1))

\* u8::leading_zeros counts the zeros in front of the highest bit.
LEMMA LeadingZerosIs ==
  ASSUME NEW b \in Byte
  PROVE  Zeros(b, ByteLeadingZeros(b))
  <1>0. ByteBits \in Nat /\ b \in Nat /\ b < 2^ByteBits /\ ByteBits \in 0..ByteBits
    BY NodeIdsAssumption DEF Byte
  <1> DEFINE T == {i \in 0..ByteBits : b < 2^i}
  <1>01. ByteBits \in T
    BY <1>0
  <1>02. 0..ByteBits \subseteq Nat
    BY <1>0
  <1>1. T \in SUBSET Nat /\ T # {}
    BY <1>01, <1>02, Zenon
  <1>2. PICK m \in T : \A l \in T : m <= l
    BY <1>1, LeastNat
  <1>3. m \in 0..ByteBits /\ b < 2^m
    OBVIOUS
  <1> DEFINE z == ByteBits - m
  <1>4. z \in 0..ByteBits /\ ByteBits - z = m /\ ByteBits - z - 1 = m - 1
    BY <1>0, <1>3
  <1>5. z < ByteBits => b >= 2^(m - 1)
    <2> SUFFICES ASSUME z < ByteBits PROVE b >= 2^(m - 1)
      OBVIOUS
    <2>1. m - 1 \in 0..ByteBits /\ ~ (m <= m - 1)
      BY <1>0, <1>3
    <2>2. ~ (b < 2^(m - 1))
      BY <1>2, <2>1
    <2>3. 2^(m - 1) \in Nat
      BY <2>1, PowersAssumption
    <2>4. QED
      BY <1>0, <2>2, <2>3
  <1>6. Zeros(b, z)
    BY <1>3, <1>4, <1>5 DEF Zeros
  <1> HIDE DEF z
  <1>7. \E y \in 0..ByteBits : b < 2^(ByteBits - y) /\ (y < ByteBits => b >= 2^(ByteBits - y - 1))
    BY <1>6 DEF Zeros
  <1>8. QED
    BY <1>7 DEF Zeros, ByteLeadingZeros

\* A larger byte has no more leading zeros, and only 0 has all of them.
LEMMA LeadingZerosOrdered ==
  ASSUME NEW b \in Byte, NEW c \in Byte
  PROVE  /\ ByteLeadingZeros(b) \in 0..ByteBits
         /\ b # 0 => ByteLeadingZeros(b) < ByteBits
         /\ b < c => ByteLeadingZeros(c) <= ByteLeadingZeros(b)
  <1> DEFINE y == ByteLeadingZeros(b)
             z == ByteLeadingZeros(c)
  <1>0. ByteBits \in Nat /\ b \in Nat /\ c \in Nat
    BY NodeIdsAssumption DEF Byte
  <1>1. Zeros(b, y) /\ Zeros(c, z)
    BY LeadingZerosIs
  <1> HIDE DEF y, z
  <1>2. /\ y \in 0..ByteBits /\ z \in 0..ByteBits
        /\ b < 2^(ByteBits - y) /\ (y < ByteBits => b >= 2^(ByteBits - y - 1))
        /\ c < 2^(ByteBits - z)
    BY <1>1 DEF Zeros
  <1>3. b # 0 => y < ByteBits
    <2> SUFFICES ASSUME y = ByteBits PROVE b = 0
      BY <1>0, <1>2
    <2>1. ByteBits - y = 0 /\ 2^0 = 1
      BY <1>0, PowersAssumption
    <2>2. b < 1
      BY <1>2, <2>1
    <2>3. QED
      BY <1>0, <2>2
  <1>4. b < c => z <= y
    <2> SUFFICES ASSUME b < c, ~ (z <= y) PROVE FALSE
      OBVIOUS
    <2>1. y < ByteBits /\ ByteBits - z \in 0..ByteBits /\ ByteBits - y - 1 \in 0..ByteBits
          /\ ByteBits - z <= ByteBits - y - 1
      BY <1>0, <1>2
    <2>2. 2^(ByteBits - z) <= 2^(ByteBits - y - 1)
      BY <2>1, PowersGrow
    <2>3. 2^(ByteBits - z) \in Nat /\ 2^(ByteBits - y - 1) \in Nat
      BY <2>1, PowersAssumption
    <2>4. c < 2^(ByteBits - z) /\ b >= 2^(ByteBits - y - 1)
      BY <1>2, <2>1
    <2>5. QED
      BY <1>0, <2>2, <2>3, <2>4
  <1>5. QED
    BY <1>2, <1>3, <1>4 DEF y, z

\* The first position at which an id is not 0, which CHOOSE finds.
FirstAt(x, i) == i \in 1..IdBytes /\ x[i] # 0 /\ \A j \in 1..(i - 1) : x[j] = 0

\* An id that is not zero has a first byte that is not.
LEMMA FirstIs ==
  ASSUME NEW x, ~ \A i \in 1..IdBytes : x[i] = 0
  PROVE  \E i : FirstAt(x, i)
  <1> DEFINE T == {i \in 1..IdBytes : x[i] # 0}
  <1>0. IdBytes \in Nat
    BY NodeIdsAssumption
  <1>1. T \in SUBSET Nat /\ T # {}
    BY <1>0
  <1>2. PICK i \in T : \A l \in T : i <= l
    BY <1>1, LeastNat
  <1>3. i \in 1..IdBytes /\ x[i] # 0
    OBVIOUS
  <1>4. \A j \in 1..(i - 1) : j \in 1..IdBytes /\ ~ (i <= j)
    BY <1>0, <1>3
  <1>5. QED
    BY <1>2, <1>3, <1>4 DEF FirstAt

\* There is one such position.
LEMMA FirstUnique ==
  ASSUME NEW x, NEW i, NEW j, FirstAt(x, i), FirstAt(x, j)
  PROVE  i = j
  <1>1. /\ i \in 1..IdBytes /\ j \in 1..IdBytes /\ x[i] # 0 /\ x[j] # 0
        /\ (\A k \in 1..(i - 1) : x[k] = 0) /\ (\A k \in 1..(j - 1) : x[k] = 0)
    BY DEF FirstAt
  <1>2. IdBytes \in Nat
    BY NodeIdsAssumption
  <1>3. ~ (i < j)
    <2>1. i < j => i \in 1..(j - 1)
      BY <1>1, <1>2
    <2>2. QED
      BY <1>1, <2>1
  <1>4. ~ (j < i)
    <2>1. j < i => j \in 1..(i - 1)
      BY <1>1, <1>2
    <2>2. QED
      BY <1>1, <2>1
  <1>5. QED
    BY <1>1, <1>2, <1>3, <1>4

\* Bits of the bytes up to i.
LEMMA WholeBytes ==
  ASSUME NEW i \in Nat, NEW n \in Nat, NEW m \in Nat, i \in 1..n
  PROVE  (i - 1) * m \in Nat /\ (i - 1) * m + m <= n * m
  <1>1. PICK k \in Nat : n = i + k
    <2>1. n - i \in Nat /\ n = i + (n - i)
      OBVIOUS
    <2>2. QED
      BY <2>1
  <1>2. PICK l \in Nat : i = l + 1
    <2>1. i - 1 \in Nat /\ i = (i - 1) + 1
      OBVIOUS
    <2>2. QED
      BY <2>1
  <1>3. (l + 1) * m = l * m + m /\ n * m = (l + 1) * m + k * m /\ l * m \in Nat /\ k * m \in Nat
    BY <1>1, <1>2
  <1>4. i - 1 = l
    BY <1>2
  <1>5. QED
    BY <1>3, <1>4

\* So Id::leading_zeros counts up to it.
LEMMA LeadingZerosAt ==
  ASSUME NEW x, NEW i, FirstAt(x, i)
  PROVE  leading_zeros(x) = (i - 1) * ByteBits + ByteLeadingZeros(x[i])
  <1> DEFINE c == CHOOSE k \in 1..IdBytes : x[k] # 0 /\ \A j \in 1..(k - 1) : x[j] = 0
  <1>1. ~ \A k \in 1..IdBytes : x[k] = 0
    BY DEF FirstAt
  <1>2. \E k \in 1..IdBytes : x[k] # 0 /\ \A j \in 1..(k - 1) : x[j] = 0
    BY DEF FirstAt
  <1>3. c \in 1..IdBytes /\ x[c] # 0 /\ \A j \in 1..(c - 1) : x[j] = 0
    BY <1>2
  <1>4. leading_zeros(x) = (c - 1) * ByteBits + ByteLeadingZeros(x[c])
    BY <1>1 DEF leading_zeros
  <1> HIDE DEF c
  <1>5. c = i
    <2>1. FirstAt(x, c)
      BY <1>3 DEF FirstAt
    <2>2. QED
      BY <2>1, FirstUnique
  <1>6. QED
    BY <1>4, <1>5

\* The byte x[i] is 0 where the ids agree.
Differs(x, a, b) ==
  /\ x \in Ids
  /\ \A i \in 1..IdBytes : x[i] = XorByte(a[i], b[i]) /\ (x[i] = 0 <=> a[i] = b[i])

\* A distance of ids is made of bytes, 0 where the ids agree.
LEMMA XorIs ==
  ASSUME NEW a \in Ids, NEW b \in Ids
  PROVE  /\ xor(a, b) = xor(b, a) /\ xor(a, b) = xor_distance(a, b)
         /\ Differs(xor(a, b), a, b)
  <1>1. ASSUME NEW i \in 1..IdBytes
        PROVE  /\ XorByte(a[i], b[i]) \in Byte /\ (XorByte(a[i], b[i]) = 0 <=> a[i] = b[i])
               /\ XorByte(a[i], b[i]) = XorByte(b[i], a[i])
    <2>1. a[i] \in Byte /\ b[i] \in Byte
      BY DEF Ids
    <2>2. QED
      BY <2>1, XorByteFacts, XorByteSymmetric
  <1>2. xor(a, b) = xor(b, a)
    BY <1>1 DEF xor
  <1>3. xor(a, b) \in Ids
    BY <1>1 DEF xor, Ids
  <1>4. xor(a, b) = xor_distance(a, b)
    BY DEF xor, xor_distance
  <1>5. \A i \in 1..IdBytes : xor(a, b)[i] = XorByte(a[i], b[i])
    BY DEF xor
  <1>6. QED
    BY <1>1, <1>2, <1>3, <1>4, <1>5 DEF Differs

\* Ids are the same when their bytes are.
LEMMA SameBytes ==
  ASSUME NEW a \in Ids, NEW b \in Ids
  PROVE  (\A i \in 1..IdBytes : a[i] = b[i]) <=> a = b
  <1>1. a = [i \in 1..IdBytes |-> a[i]] /\ b = [i \in 1..IdBytes |-> b[i]]
    BY DEF Ids
  <1>2. (\A i \in 1..IdBytes : a[i] = b[i]) =>
          [i \in 1..IdBytes |-> a[i]] = [i \in 1..IdBytes |-> b[i]]
    OBVIOUS
  <1>3. QED
    BY <1>1, <1>2

\* How many bits an id has in front of its first 1, and that it has no more
\* than all of them.
LEMMA LeadingZerosBound ==
  ASSUME NEW x \in Ids
  PROVE  /\ leading_zeros(x) \in Nat /\ leading_zeros(x) <= IdBytes * ByteBits
         /\ leading_zeros(x) = IdBytes * ByteBits <=> \A i \in 1..IdBytes : x[i] = 0
  <1>0. IdBytes \in Nat /\ ByteBits \in Nat /\ IdBytes * ByteBits \in Nat
    <2>1. IdBytes \in Nat /\ ByteBits \in Nat
      BY NodeIdsAssumption
    <2>2. QED
      BY <2>1
  <1>1. CASE \A i \in 1..IdBytes : x[i] = 0
    <2>1. leading_zeros(x) = IdBytes * ByteBits
      BY <1>1 DEF leading_zeros
    <2>2. QED
      BY <1>0, <1>1, <2>1
  <1>2. CASE ~ \A i \in 1..IdBytes : x[i] = 0
    <2>1. PICK i : FirstAt(x, i)
      BY <1>2, FirstIs
    <2>2. i \in 1..IdBytes /\ x[i] # 0 /\ x[i] \in Byte
      BY <2>1 DEF FirstAt, Ids
    <2> DEFINE z == ByteLeadingZeros(x[i])
    <2>3. z \in 0..ByteBits /\ z < ByteBits
      BY <2>2, LeadingZerosOrdered
    <2>4. leading_zeros(x) = (i - 1) * ByteBits + z
      BY <2>1, LeadingZerosAt
    <2> HIDE DEF z
    <2>5. (i - 1) * ByteBits \in Nat /\ (i - 1) * ByteBits + ByteBits <= IdBytes * ByteBits
      BY <1>0, <2>2, WholeBytes
    <2>6. leading_zeros(x) \in Nat /\ leading_zeros(x) < IdBytes * ByteBits
      BY <1>0, <2>3, <2>4, <2>5
    <2>7. QED
      BY <1>0, <1>2, <2>6
  <1>3. QED
    BY <1>1, <1>2

\* Id::distance and Id::bucket_distance are the same number.
LEMMA SameBucket ==
  ASSUME NEW a \in Ids, NEW b \in Ids
  PROVE  distance(a, b) = bucket_distance(a, b)
  <1> DEFINE x == xor(a, b)
  <1>0. IdBytes \in Nat /\ ByteBits \in Nat /\ IdBytes * ByteBits \in Nat
    <2>1. IdBytes \in Nat /\ ByteBits \in Nat
      BY NodeIdsAssumption
    <2>2. QED
      BY <2>1
  <1>1. x \in Ids /\ \A i \in 1..IdBytes : x[i] = XorByte(a[i], b[i]) /\ (x[i] = 0 <=> a[i] = b[i])
    <2>1. Differs(x, a, b)
      BY XorIs
    <2>2. QED
      BY <2>1 DEF Differs
  <1>2. distance(a, b) = IdBytes * ByteBits - leading_zeros(x)
    BY DEF distance
  <1> HIDE DEF x
  <1>3. CASE a = b
    <2>1. \A i \in 1..IdBytes : x[i] = 0
      BY <1>1, <1>3
    <2>2. leading_zeros(x) = IdBytes * ByteBits
      BY <2>1 DEF leading_zeros
    <2>3. QED
      BY <1>0, <1>2, <1>3, <2>2 DEF bucket_distance
  <1>4. CASE a # b
    <2> DEFINE c == CHOOSE i \in 1..IdBytes : a[i] # b[i] /\ \A j \in 1..(i - 1) : a[j] = b[j]
    <2>1. \E i \in 1..IdBytes : a[i] # b[i]
      BY <1>4, SameBytes
    <2>2. PICK i : FirstAt(x, i)
      BY <1>1, <2>1, FirstIs
    <2>3. i \in 1..IdBytes /\ x[i] # 0 /\ \A j \in 1..(i - 1) : x[j] = 0 /\ j \in 1..IdBytes
      BY <1>0, <2>2 DEF FirstAt
    <2>4. a[i] # b[i] /\ \A j \in 1..(i - 1) : a[j] = b[j]
      BY <1>1, <2>3
    <2>5. c \in 1..IdBytes /\ a[c] # b[c] /\ \A j \in 1..(c - 1) : a[j] = b[j]
      BY <2>3, <2>4
    <2>6. bucket_distance(a, b) =
            IdBytes * ByteBits - (c - 1) * ByteBits - ByteLeadingZeros(XorByte(a[c], b[c]))
      BY <1>4 DEF bucket_distance
    <2> HIDE DEF c
    <2>7. c = i
      <3>1. \A j \in 1..(c - 1) : j \in 1..IdBytes
        BY <1>0, <2>5
      <3>2. FirstAt(x, c)
        BY <1>1, <2>5, <3>1 DEF FirstAt
      <3>3. QED
        BY <2>2, <3>2, FirstUnique
    <2>8. leading_zeros(x) = (i - 1) * ByteBits + ByteLeadingZeros(x[i]) /\ x[i] = XorByte(a[i], b[i])
      BY <1>1, <2>2, <2>3, LeadingZerosAt
    <2> DEFINE z == ByteLeadingZeros(x[i])
    <2>9. z \in Nat
      <3>1. x[i] \in Byte
        BY <1>1, <2>3 DEF Ids
      <3>2. z \in 0..ByteBits
        BY <3>1, LeadingZerosOrdered
      <3>3. QED
        BY <1>0, <3>2
    <2>10. (i - 1) * ByteBits \in Nat
      BY <1>0, <2>3, WholeBytes
    <2> HIDE DEF z
    <2>11. leading_zeros(x) = (i - 1) * ByteBits + z
      BY <2>8 DEF z
    <2>12. bucket_distance(a, b) = IdBytes * ByteBits - (i - 1) * ByteBits - z
      BY <2>6, <2>7, <2>8 DEF z
    <2>13. \A n, p, q \in Nat : n - (p + q) = n - p - q
      OBVIOUS
    <2>14. QED
      BY <1>0, <1>2, <2>9, <2>10, <2>11, <2>12, <2>13
  <1>5. QED
    BY <1>3, <1>4

\* What is closer has no fewer leading zeros.
LEMMA CloserHasMoreZeros ==
  ASSUME NEW x \in Ids, NEW y \in Ids, Closer(x, y)
  PROVE  leading_zeros(y) <= leading_zeros(x)
  <1>0. IdBytes \in Nat /\ ByteBits \in Nat
    BY NodeIdsAssumption
  <1>1. PICK i \in 1..IdBytes : x[i] < y[i] /\ \A j \in 1..(i - 1) : x[j] = y[j]
    BY DEF Closer
  <1>2. \A j \in 1..IdBytes : x[j] \in Byte /\ y[j] \in Byte /\ x[j] \in Nat /\ y[j] \in Nat
    BY NodeIdsAssumption DEF Ids, Byte
  <1>3. y[i] # 0 /\ \A j \in 1..(i - 1) : j \in 1..IdBytes
    BY <1>0, <1>1, <1>2
  <1>4. CASE \A j \in 1..IdBytes : x[j] = 0
    <2>1. leading_zeros(x) = IdBytes * ByteBits
      BY <1>4 DEF leading_zeros
    <2>2. QED
      BY <2>1, LeadingZerosBound
  <1>5. CASE ~ \A j \in 1..IdBytes : x[j] = 0
    <2>1. PICK k : FirstAt(x, k)
      BY <1>5, FirstIs
    <2>2. k \in 1..IdBytes /\ x[k] # 0 /\ \A j \in 1..(k - 1) : x[j] = 0
      BY <2>1 DEF FirstAt
    <2>3. leading_zeros(x) = (k - 1) * ByteBits + ByteLeadingZeros(x[k])
      BY <2>1, LeadingZerosAt
    <2>4. CASE k < i
      <3>1. k \in 1..(i - 1) /\ \A j \in 1..(k - 1) : j \in 1..(i - 1)
        BY <1>0, <2>2, <2>4
      <3>2. y[k] = x[k] /\ \A j \in 1..(k - 1) : y[j] = 0
        BY <1>1, <2>2, <3>1
      <3>3. FirstAt(y, k)
        BY <2>2, <3>2 DEF FirstAt
      <3>4. leading_zeros(y) = (k - 1) * ByteBits + ByteLeadingZeros(x[k])
        BY <3>2, <3>3, LeadingZerosAt
      <3>5. leading_zeros(x) \in Nat
        BY LeadingZerosBound
      <3>6. QED
        BY <2>3, <3>4, <3>5
    <2>5. CASE ~ (k < i)
      <3>1. \A j \in 1..(i - 1) : j \in 1..(k - 1)
        BY <1>0, <2>2, <2>5
      <3>2. FirstAt(y, i)
        BY <1>1, <1>3, <2>2, <3>1 DEF FirstAt
      <3> DEFINE u == ByteLeadingZeros(x[k])
                 v == ByteLeadingZeros(y[i])
      <3>3. leading_zeros(y) = (i - 1) * ByteBits + v
        BY <3>2, LeadingZerosAt
      <3>4. u \in 0..ByteBits /\ v \in 0..ByteBits
        BY <1>2, <2>2, LeadingZerosOrdered
      <3>5. CASE k = i
        <4>1. x[i] \in Byte /\ y[i] \in Byte /\ x[i] < y[i]
          BY <1>1, <1>2
        <4>2. ByteLeadingZeros(y[i]) <= ByteLeadingZeros(x[i])
          BY <4>1, LeadingZerosOrdered
        <4>3. v <= u
          BY <3>5, <4>2
        <4>4. (i - 1) * ByteBits \in Nat
          BY <1>0, WholeBytes
        <4> HIDE DEF u, v
        <4>5. leading_zeros(x) = (i - 1) * ByteBits + u
          BY <2>3, <3>5 DEF u
        <4>6. QED
          BY <1>0, <3>3, <3>4, <4>3, <4>4, <4>5
      <3>6. CASE k # i
        <4>1. i \in 1..(k - 1) /\ k - 1 \in Nat /\ k \in Nat
          BY <1>0, <2>2, <2>5, <3>6
        <4>2. (i - 1) * ByteBits \in Nat /\ (i - 1) * ByteBits + ByteBits <= (k - 1) * ByteBits
          BY <1>0, <4>1, WholeBytes
        <4>3. (k - 1) * ByteBits \in Nat
          BY <1>0, <4>1
        <4> HIDE DEF u, v
        <4>4. leading_zeros(x) = (k - 1) * ByteBits + u
          BY <2>3 DEF u
        <4>5. QED
          BY <1>0, <3>3, <3>4, <4>2, <4>3, <4>4
      <3>7. QED
        BY <3>5, <3>6
    <2>6. QED
      BY <2>4, <2>5
  <1>6. QED
    BY <1>4, <1>5

\* What BucketsFollowXor says of two ids.
LEMMA DistanceIs ==
  ASSUME NEW a \in Ids, NEW b \in Ids
  PROVE  /\ distance(a, b) = bucket_distance(a, b) /\ distance(a, b) = distance(b, a)
         /\ distance(a, b) = 0 <=> b = a
         /\ \A c \in Ids : Closer(xor_distance(a, b), xor_distance(a, c))
                             => distance(a, b) <= distance(a, c)
  <1>0. IdBytes \in Nat /\ ByteBits \in Nat /\ IdBytes * ByteBits \in Nat
    <2>1. IdBytes \in Nat /\ ByteBits \in Nat
      BY NodeIdsAssumption
    <2>2. QED
      BY <2>1
  <1> DEFINE N == IdBytes * ByteBits
  <1>1. distance(a, b) = bucket_distance(a, b)
    BY SameBucket
  <1>2. distance(a, b) = distance(b, a)
    <2>1. xor(a, b) = xor(b, a)
      BY XorIs
    <2>2. QED
      BY <2>1 DEF distance
  <1>3. distance(a, b) = 0 <=> b = a
    <2>0. Differs(xor(a, b), a, b)
      BY XorIs
    <2>1. xor(a, b) \in Ids /\ \A i \in 1..IdBytes : xor(a, b)[i] = 0 <=> a[i] = b[i]
      BY <2>0 DEF Differs
    <2> DEFINE z == leading_zeros(xor(a, b))
    <2>2. z \in Nat /\ z <= N /\ (z = N <=> \A i \in 1..IdBytes : xor(a, b)[i] = 0)
      BY <2>1, LeadingZerosBound
    <2>3. distance(a, b) = N - z
      BY DEF distance
    <2>4. (\A i \in 1..IdBytes : a[i] = b[i]) <=> b = a
      BY SameBytes
    <2> HIDE DEF z, N
    <2>5. N \in Nat
      BY <1>0 DEF N
    <2>6. N - z = 0 <=> z = N
      BY <2>2, <2>5
    <2>7. QED
      BY <2>1, <2>2, <2>3, <2>4, <2>6
  <1>4. ASSUME NEW c \in Ids, Closer(xor_distance(a, b), xor_distance(a, c))
        PROVE  distance(a, b) <= distance(a, c)
    <2> DEFINE x == xor(a, b)
               y == xor(a, c)
               u == leading_zeros(x)
               v == leading_zeros(y)
    <2>1. x \in Ids /\ y \in Ids /\ x = xor_distance(a, b) /\ y = xor_distance(a, c)
      BY XorIs DEF Differs
    <2>2. distance(a, b) = N - u /\ distance(a, c) = N - v
      BY DEF distance
    <2> HIDE DEF x, y, N
    <2>3. Closer(x, y)
      BY <1>4, <2>1
    <2>4. v <= u /\ u \in Nat /\ v \in Nat
      BY <2>1, <2>3, CloserHasMoreZeros, LeadingZerosBound
    <2> HIDE DEF u, v
    <2>5. N \in Nat
      BY <1>0 DEF N
    <2>6. QED
      BY <2>2, <2>4, <2>5
  <1>5. QED
    BY <1>1, <1>2, <1>3, <1>4

\* Replacing the low bits of a number by others leaves its high bits alone.
LEMMA LowBitsReplaced ==
  ASSUME NEW m \in Nat \ {0}, NEW x \in Nat, NEW y \in Nat
  PROVE  ((x - (x % m)) + (y % m)) % m = y % m
  <1>1. PICK q \in Nat : x = m * q + (x % m)
    <2>1. x = m * (x \div m) + (x % m) /\ x \div m \in Nat
      OBVIOUS
    <2>2. QED
      BY <2>1
  <1>2. y % m \in 0..(m - 1)
    OBVIOUS
  <1>3. ASSUME NEW r \in 0..(m - 1) PROVE (m * q + r) % m = r
    OBVIOUS
  <1>4. (x - (x % m)) + (y % m) = m * q + (y % m)
    BY <1>1
  <1>5. QED
    BY <1>2, <1>3, <1>4

\* A byte is made of whole groups of low bits.
LEMMA LowBitsDivide == \E k \in Nat : 2^ByteBits = k * 2^RandomBits
  <1>0. ByteBits \in Nat /\ RandomBits \in 0..ByteBits /\ 2^RandomBits \in Nat
    BY NodeIdsAssumption
  <1> DEFINE Good(j) == \E k \in Nat : 2^j = k * 2^RandomBits
             Bad == {j \in RandomBits..ByteBits : ~ Good(j)}
  <1> SUFFICES ASSUME ~ Good(ByteBits) PROVE FALSE
    OBVIOUS
  <1> HIDE DEF Good
  <1>1. ByteBits \in Bad
    BY <1>0
  <1>2. RandomBits..ByteBits \subseteq Nat
    BY <1>0
  <1>3. Bad \in SUBSET Nat /\ Bad # {}
    BY <1>1, <1>2, Zenon
  <1>4. PICK j \in Bad : \A l \in Bad : j <= l
    BY <1>3, LeastNat
  <1>5. j \in RandomBits..ByteBits /\ ~ Good(j)
    OBVIOUS
  <1>6. Good(RandomBits)
    <2>1. 1 \in Nat /\ 2^RandomBits = 1 * 2^RandomBits
      BY <1>0
    <2>2. QED
      BY <2>1 DEF Good
  <1>7. j # RandomBits
    BY <1>5, <1>6
  <1>8. /\ j - 1 \in RandomBits..ByteBits /\ ~ (j <= j - 1) /\ (j - 1) + 1 = j
        /\ j - 1 \in 0..ByteBits /\ j - 1 < ByteBits
    BY <1>0, <1>5, <1>7
  <1>9. Good(j - 1)
    BY <1>4, <1>8
  <1>10. PICK k \in Nat : 2^(j - 1) = k * 2^RandomBits
    BY <1>9 DEF Good
  <1>11. 2^j = 2 * 2^(j - 1)
    BY <1>8, PowersAssumption
  <1>12. 2 * k \in Nat /\ 2 * (k * 2^RandomBits) = (2 * k) * 2^RandomBits
    BY <1>0
  <1>13. 2^j = (2 * k) * 2^RandomBits
    BY <1>10, <1>11, <1>12
  <1>14. Good(j)
    BY <1>12, <1>13 DEF Good
  <1>15. QED
    BY <1>5, <1>14

\* A number is its quotient and its remainder.
LEMMA DivMod ==
  ASSUME NEW m \in Nat \ {0}, NEW x \in Nat
  PROVE  \E q \in Nat, r \in 0..(m - 1) : x = m * q + r /\ r = x % m
  <1>1. x = m * (x \div m) + (x % m) /\ x \div m \in Nat
    OBVIOUS
  <1>2. x % m \in 0..(m - 1)
    OBVIOUS
  <1>3. QED
    BY <1>1, <1>2, Zenon

\* The high bits of one byte with the low bits of another.
LEMMA MixedByte ==
  ASSUME NEW x \in Byte, NEW y \in Byte
  PROVE  /\ HighBits(x) + LowBits(y) \in Byte
         /\ HighBits(HighBits(x) + LowBits(y)) = HighBits(x)
  <1> DEFINE m == 2^RandomBits
             n == 2^ByteBits
  <1>0. m \in Nat \ {0} /\ n \in Nat \ {0} /\ x \in 0..(n - 1) /\ y \in 0..(n - 1)
    BY NodeIdsAssumption DEF Byte
  <1>1. PICK k \in Nat : n = k * m
    BY LowBitsDivide
  <1> HIDE DEF m, n
  <1>01. x \in Nat /\ y \in Nat /\ m \in Nat \ {0}
    BY <1>0
  <1>2. PICK q \in Nat, r \in 0..(m - 1) : x = m * q + r /\ r = x % m
    BY <1>0, <1>01, DivMod
  <1>3. y % m \in 0..(m - 1)
    BY <1>01, DivMod
  <1>4. q < k
    <2> SUFFICES ASSUME ~ (q < k) PROVE FALSE
      OBVIOUS
    <2>1. PICK l \in Nat : q = k + l
      <3>1. q - k \in Nat /\ q = k + (q - k)
        OBVIOUS
      <3>2. QED
        BY <3>1
    <2>2. m * (k + l) = k * m + m * l /\ m * l \in Nat
      BY <1>0
    <2>3. x = n + m * l + r
      BY <1>1, <1>2, <2>1, <2>2
    <2>4. QED
      BY <1>0, <2>2, <2>3
  <1>5. m * q + m <= n
    <2>1. PICK l \in Nat : k = q + 1 + l
      <3>1. k - q - 1 \in Nat /\ k = q + 1 + (k - q - 1)
        BY <1>4
      <3>2. QED
        BY <3>1
    <2>2. (q + 1 + l) * m = m * q + m + m * l /\ m * l \in Nat /\ m * q \in Nat
      BY <1>0
    <2>3. QED
      BY <1>0, <1>1, <2>1, <2>2
  <1> DEFINE h == m * q
             l == y % m
  <1>6. h \in Nat /\ x - (x % m) = h
    <2>1. h \in Nat
      BY <1>01
    <2>2. x = h + r
      BY <1>2
    <2> HIDE DEF h
    <2>3. x - r = h
      BY <1>2, <2>1, <2>2
    <2>4. QED
      BY <1>2, <2>1, <2>3, Zenon
  <1>7. ((x - (x % m)) + (y % m)) % m = y % m
    BY <1>01, LowBitsReplaced
  <1>8. h + m <= n /\ l \in 0..(m - 1)
    BY <1>3, <1>5
  <1>9. HighBits(x) = h /\ LowBits(y) = l
    BY <1>6, Zenon DEF HighBits, LowBits, m
  <1>10. (h + l) % m = l
    BY <1>6, <1>7, Zenon
  <1> HIDE DEF h, l
  <1>11. h + l \in 0..(n - 1)
    BY <1>0, <1>6, <1>8
  <1>12. HighBits(h + l) = (h + l) - l
    BY <1>10 DEF HighBits, LowBits, m
  <1>13. (h + l) - l = h
    BY <1>6, <1>8, <1>01
  <1>14. QED
    BY <1>9, <1>11, <1>12, <1>13 DEF Byte, n

\* The checksum returns bytes.
LEMMA CrcType ==
  ASSUME NEW ip \in Ips, NEW r \in Byte
  PROVE  Crc[<<ip.masked, LowBits(r)>>] \in [1..3 -> Byte]
  <1>1. LowBits(r) \in 0..(2^RandomBits - 1)
    BY NodeIdsAssumption DEF LowBits, Byte
  <1>2. ip.masked \in MaskedIps
    BY DEF Ips
  <1>3. <<ip.masked, LowBits(r)>> \in MaskedIps \X (0..(2^RandomBits - 1))
    BY <1>1, <1>2
  <1>4. QED
    BY <1>3, NodeIdsAssumption

\* Both crates accept the same contacts.
LEMMA SameJudgement ==
  ASSUME NEW id \in Ids, NEW ip \in Ips
  PROVE  is_valid_for_ip(id, ip) <=> try_from(id, ip)
  <1> DEFINE c == Crc[<<ip.masked, LowBits(id[IdBytes])>>]
  <1>1. id_prefix(ip, id[IdBytes]) = <<c[1], c[2], HighBits(c[3])>>
    BY DEF id_prefix
  <1>2. id_prefix_ipv4(ip, id[IdBytes]) = c
    BY DEF id_prefix_ipv4
  <1> HIDE DEF c
  <1>3. is_valid_for_ip(id, ip) <=>
          ip.exempt \/ <<id[1], id[2], HighBits(id[3])>> = <<c[1], c[2], HighBits(c[3])>>
    BY <1>2 DEF is_valid_for_ip, first_21_bits
  <1>4. try_from(id, ip) <=>
          ip.exempt \/ (id[1] = c[1] /\ id[2] = c[2] /\ HighBits(id[3]) = HighBits(c[3]))
    BY <1>1 DEF try_from, id_matches_ipv4
  <1>5. QED
    BY <1>3, <1>4

\* Id::from_ipv4 yields an id that mainline-next accepts.
LEMMA OldIdAccepted ==
  ASSUME NEW bytes \in Ids, NEW ip \in Ips, NEW r \in Byte
  PROVE  from_ipv4_and_r(bytes, ip, r) \in Ids /\ try_from(from_ipv4_and_r(bytes, ip, r), ip)
  <1> DEFINE c == Crc[<<ip.masked, LowBits(r)>>]
             id == from_ipv4_and_r(bytes, ip, r)
  <1>0. IdBytes \in Nat /\ IdBytes > 3
    BY NodeIdsAssumption
  <1>1. c \in [1..3 -> Byte]
    BY CrcType
  <1>2. id = [bytes EXCEPT ![1] = c[1], ![2] = c[2],
                           ![3] = HighBits(c[3]) + LowBits(bytes[3]), ![IdBytes] = r]
    BY DEF from_ipv4_and_r, id_prefix_ipv4
  <1>3. bytes[3] \in Byte /\ c[1] \in Byte /\ c[2] \in Byte /\ c[3] \in Byte
    BY <1>0, <1>1 DEF Ids
  <1>4. /\ HighBits(c[3]) + LowBits(bytes[3]) \in Byte
        /\ HighBits(HighBits(c[3]) + LowBits(bytes[3])) = HighBits(c[3])
    BY <1>3, MixedByte
  <1> DEFINE e == HighBits(c[3]) + LowBits(bytes[3])
  <1>5. id = [bytes EXCEPT ![1] = c[1], ![2] = c[2], ![3] = e, ![IdBytes] = r]
    BY <1>2
  <1>6. c = Crc[<<ip.masked, LowBits(r)>>] /\ e \in Byte /\ HighBits(e) = HighBits(c[3])
    BY <1>4
  <1> HIDE DEF id, e, c
  <1>7. id \in Ids
    BY <1>0, <1>3, <1>5, <1>6 DEF Ids
  <1>8. id[1] = c[1] /\ id[2] = c[2] /\ id[3] = e /\ id[IdBytes] = r
    BY <1>0, <1>5 DEF Ids
  <1>9. id_prefix(ip, id[IdBytes]) = <<c[1], c[2], HighBits(c[3])>>
    BY <1>6, <1>8 DEF id_prefix
  <1>10. try_from(id, ip)
    BY <1>6, <1>8, <1>9 DEF try_from, id_matches_ipv4
  <1>11. QED
    BY <1>7, <1>10 DEF id

\* Bep42NodeContact::generate yields a contact that is accepted.
LEMMA NewIdAccepted ==
  ASSUME NEW bytes \in Ids, NEW ip \in Ips
  PROVE  from_random_bytes(ip, bytes) \in Ids /\ try_from(from_random_bytes(ip, bytes), ip)
  <1> DEFINE r == bytes[IdBytes]
             c == Crc[<<ip.masked, LowBits(r)>>]
             id == from_random_bytes(ip, bytes)
             e == HighBits(c[3]) + LowBits(bytes[3])
  <1>0. IdBytes \in Nat /\ IdBytes > 3
    BY NodeIdsAssumption
  <1>1. r \in Byte /\ bytes[3] \in Byte
    BY <1>0 DEF Ids
  <1>2. c \in [1..3 -> Byte]
    BY <1>1, CrcType
  <1>3. c[1] \in Byte /\ c[2] \in Byte /\ c[3] \in Byte
    BY <1>2
  <1>4. e \in Byte /\ HighBits(e) = HighBits(c[3])
    BY <1>1, <1>3, MixedByte
  <1>5. id_prefix(ip, r) = <<c[1], c[2], HighBits(c[3])>>
    BY DEF id_prefix
  <1>6. id = [bytes EXCEPT ![1] = c[1], ![2] = c[2], ![3] = e]
    <2>1. id = [bytes EXCEPT ![1] = id_prefix(ip, r)[1], ![2] = id_prefix(ip, r)[2],
                             ![3] = id_prefix(ip, r)[3] + LowBits(bytes[3])]
      BY DEF from_random_bytes
    <2> HIDE DEF id
    <2>2. QED
      BY <1>5, <2>1
  <1> HIDE DEF id, e, c
  <1>7. id \in Ids
    BY <1>0, <1>3, <1>4, <1>6 DEF Ids
  <1>8. id[1] = c[1] /\ id[2] = c[2] /\ id[3] = e /\ id[IdBytes] = r
    BY <1>0, <1>6 DEF Ids
  <1>9. try_from(id, ip)
    BY <1>4, <1>5, <1>8 DEF try_from, id_matches_ipv4
  <1>10. QED
    BY <1>7, <1>9 DEF id

\* A contact has an id and an IP, and one that was not made by another
\* implementation is accepted.
ContactInv ==
  contact # None =>
    /\ contact.id \in Ids /\ contact.ip \in Ips
    /\ contact.by # "foreign" => try_from(contact.id, contact.ip)

\* Once a contact's id is well formed, the two crates treat it alike.
LEMMA ContactsJudged == ContactInv => ContactsTreatedAlike
  <1> SUFFICES ASSUME ContactInv, contact # None PROVE ContactsTreatedAlike
    BY DEF ContactsTreatedAlike, ContactsAgree, BucketsFollowXor
  <1>1. contact.id \in Ids /\ contact.ip \in Ips
    BY DEF ContactInv
  <1>2. ContactsAgree
    BY <1>1, SameJudgement DEF ContactInv, ContactsAgree
  <1>3. Peers \subseteq Ids
    BY PeersAssumption
  <1> DEFINE id == contact.id
  <1>4. ASSUME NEW p \in Peers
        PROVE  /\ distance(id, p) = bucket_distance(id, p) /\ distance(id, p) = distance(p, id)
               /\ distance(id, p) = 0 <=> p = id
               /\ \A q \in Peers : Closer(xor_distance(id, p), xor_distance(id, q))
                                   => distance(id, p) <= distance(id, q)
    <2>1. p \in Ids /\ id \in Ids
      BY <1>1, <1>3
    <2> HIDE DEF id
    <2>2. /\ distance(id, p) = bucket_distance(id, p) /\ distance(id, p) = distance(p, id)
          /\ distance(id, p) = 0 <=> p = id
          /\ \A q \in Ids : Closer(xor_distance(id, p), xor_distance(id, q))
                              => distance(id, p) <= distance(id, q)
      BY <2>1, DistanceIs
    <2>3. QED
      BY <1>3, <2>2
  <1>5. BucketsFollowXor
    BY <1>4 DEF BucketsFollowXor
  <1>6. QED
    BY <1>2, <1>5 DEF ContactsTreatedAlike

\* Each step that sets contact sets it to such a contact.
LEMMA ContactStep == ContactInv /\ [Next]_vars => ContactInv'
  <1> SUFFICES ASSUME ContactInv, [Next]_vars PROVE ContactInv'
    OBVIOUS
  <1>1. ASSUME NEW by, NEW id \in Ids, NEW ip \in Ips, Met(by, id, ip),
               by # "foreign" => try_from(id, ip)
        PROVE  ContactInv'
    BY <1>1 DEF Met, ContactInv
  <1>2. CASE contact' = contact
    BY <1>2 DEF ContactInv
  <1>3. CASE MeetOld
    <2>1. PICK ip \in Ips, bytes \in Ids, r \in Byte : Met("old", from_ipv4_and_r(bytes, ip, r), ip)
      BY <1>3 DEF MeetOld
    <2>2. from_ipv4_and_r(bytes, ip, r) \in Ids /\ try_from(from_ipv4_and_r(bytes, ip, r), ip)
      BY OldIdAccepted
    <2>3. QED
      BY <1>1, <2>1, <2>2
  <1>4. CASE MeetNew
    <2>1. PICK ip \in Ips, bytes \in Ids : Met("new", from_random_bytes(ip, bytes), ip)
      BY <1>4 DEF MeetNew
    <2>2. from_random_bytes(ip, bytes) \in Ids /\ try_from(from_random_bytes(ip, bytes), ip)
      BY NewIdAccepted
    <2>3. QED
      BY <1>1, <2>1, <2>2
  <1>5. CASE MeetForeign
    <2>1. PICK ip \in Ips, id \in Ids : Met("foreign", id, ip)
      BY <1>5 DEF MeetForeign
    <2>2. QED
      BY <1>1, <2>1
  <1>6. ASSUME NEW by, NEW msg, NEW w, Sent(by, msg, w) PROVE contact' = contact
    BY <1>6 DEF Sent
  <1>7. CASE SendOld \/ SendNew \/ SendForeignQuery \/ SendForeignResponse \/ SendForeignEnvelope
    <2>1. \E by, msg, w : Sent(by, msg, w)
      BY <1>7, Zenon DEF SendOld, SendNew, SendForeignQuery, SendForeignResponse, SendForeignEnvelope
    <2>2. QED
      BY <1>2, <1>6, <2>1
  <1>8. CASE ReadOld \/ ReadNew
    BY <1>2, <1>8 DEF ReadOld, ReadNew
  <1>9. CASE UNCHANGED vars
    BY <1>2, <1>9 DEF vars
  <1>10. QED
    BY <1>3, <1>4, <1>5, <1>7, <1>8, <1>9 DEF Next

\* Both crates judge a contact alike and put it in the same bucket, whatever
\* the checksum: Id::is_valid_for_ip and Bep42NodeContact accept the same ids,
\* and Id::distance and Id::bucket_distance follow the XOR metric.
THEOREM ContactsAreTreatedAlike == Spec => []ContactsTreatedAlike
  <1>1. Init => ContactInv
    BY DEF Init, ContactInv
  <1>2. QED
    BY <1>1, ContactStep, ContactsJudged, PTL DEF Spec

-----------------------------------------------------------------------------
(* A datagram that both codecs have read.                                    *)

\* What is kept of a datagram once it is read is what the codecs made of it.
DatagramInv ==
  /\ old = None \/ (wire # None /\ old = Old!from_serde_message(wire))
  /\ new = None \/ (old # None /\ new = New!Decode(wire))

\* No step changes a datagram that was read, or what was made of it.
LEMMA DatagramStep == DatagramInv /\ [Next]_vars => DatagramInv'
  <1> SUFFICES ASSUME DatagramInv, [Next]_vars PROVE DatagramInv'
    OBVIOUS
  <1>1. ASSUME wire' = wire, old' = old, new' = new PROVE DatagramInv'
    BY <1>1 DEF DatagramInv
  <1>2. CASE UNCHANGED vars
    BY <1>1, <1>2 DEF vars
  <1>3. CASE MeetOld \/ MeetNew \/ MeetForeign
    <2>1. \E by, id, ip : Met(by, id, ip)
      BY <1>3, Zenon DEF MeetOld, MeetNew, MeetForeign
    <2>2. QED
      BY <1>1, <2>1 DEF Met
  <1>4. CASE SendOld \/ SendNew \/ SendForeignQuery \/ SendForeignResponse \/ SendForeignEnvelope
    <2>1. Idle /\ \E by, msg, w : Sent(by, msg, w)
      BY <1>4, Zenon DEF SendOld, SendNew, SendForeignQuery, SendForeignResponse, SendForeignEnvelope
    <2>2. wire = None /\ old' = old /\ new' = new
      BY <2>1 DEF Sent, Idle
    <2>3. old = None /\ new = None
      BY <2>2 DEF DatagramInv
    <2>4. QED
      BY <2>2, <2>3 DEF DatagramInv
  <1>5. CASE ReadOld
    BY <1>5 DEF ReadOld, DatagramInv
  <1>6. CASE ReadNew
    BY <1>6 DEF ReadNew, DatagramInv
  <1>7. QED
    BY <1>2, <1>3, <1>4, <1>5, <1>6 DEF Next

\* What the two codecs made of it.
LEMMA WhatWasRead ==
  ASSUME DatagramInv, Read
  PROVE  old = Old!from_serde_message(wire) /\ new = New!Decode(wire)
  BY DEF DatagramInv, Read

\* A message that the mainline crate accepts has the parts that its body was
\* decoded to, under an envelope it can read.
OldBody(w) ==
  CASE w.y = "q" -> Old!DecodeRequest(w.q, w.args)
    [] w.y = "r" -> Old!DecodeResponse(w.args)
    [] w.y = "e" -> Old!DecodeError(w.args)
    [] OTHER -> Refused

\* Message::from_serde_message accepts a datagram if the envelope and the body
\* can be read, and what it makes of them.
LEMMA OldAccepts ==
  ASSUME NEW w
  PROVE  LET m == Old!from_serde_message(w)
             body == OldBody(w)
         IN /\ Accepted(m) <=> Old!EnvelopeReads(w) /\ body # Refused
            /\ Accepted(m) =>
                 m = [transaction_id |-> Old!AsBytes(w.t),
                      version        |-> {Old!AsBytes(x) : x \in w.v},
                      requester_ip   |-> {Old!bytes_to_sockaddr(Old!AsBytes(x)) : x \in w.ip},
                      read_only      |-> \E x \in w.ro : x.int > 0,
                      type           |-> w.y,
                      kind           |-> body.kind,
                      args           |-> body.args]
  <1> DEFINE body == OldBody(w)
             env == Old!EnvelopeReads(w)
             tid == Old!AsBytes(w.t)
             version == {Old!AsBytes(x) : x \in w.v}
             ip == {Old!bytes_to_sockaddr(Old!AsBytes(x)) : x \in w.ip}
             ro == \E x \in w.ro : x.int > 0
             rec == [transaction_id |-> tid, version |-> version, requester_ip |-> ip,
                     read_only |-> ro, type |-> w.y, kind |-> body.kind, args |-> body.args]
  <1>1. Old!from_serde_message(w) = IF ~ env \/ body = Refused THEN Refused ELSE rec
    BY Zenon DEF Old!from_serde_message, OldBody, Old!Refused, Refused
  <1>2. rec # Refused /\ rec # None /\ Refused # None
    <2> HIDE DEF tid, version, ip, ro, body
    <2>1. "type" \in DOMAIN rec /\ "type" \notin DOMAIN Refused /\ "type" \notin DOMAIN None
      BY DEF Refused, None
    <2>2. "refused" \in DOMAIN Refused /\ "refused" \notin DOMAIN None
      BY DEF Refused, None
    <2>3. QED
      BY <2>1, <2>2
  <1> HIDE DEF env, rec, body
  <1>3. /\ Accepted(Old!from_serde_message(w)) <=> env /\ body # Refused
        /\ Accepted(Old!from_serde_message(w)) => Old!from_serde_message(w) = rec
    BY <1>1, <1>2 DEF Accepted
  <1>4. QED
    BY <1>3 DEF env, rec, body

\* A put is decoded from all the fields that its struct has.
LEMMA PutDecoded ==
  ASSUME NEW dict, Old!DecodeRequest("put", dict) # Refused
  PROVE  /\ Old!Deserializes(dict, Old!DHTPutValueRequestArguments)
         /\ LET args == Old!Deserialized(dict, Old!DHTPutValueRequestArguments)
            IN Old!DecodeRequest("put", dict) = Old!DecodePut(args)
  <1> DEFINE args == Old!Deserialized(dict, Old!DHTPutValueRequestArguments)
             ok == Old!Deserializes(dict, Old!DHTPutValueRequestArguments)
             put == Old!DecodePut(args)
  <1>1. "put" \in DOMAIN Old!DHTRequestSpecific
        /\ Old!DHTRequestSpecific["put"] = Old!DHTPutValueRequestArguments
    BY DEF Old!DHTRequestSpecific
  <1>2. Old!DecodeRequest("put", dict) = IF ~ ok THEN Refused ELSE put
    <2> HIDE DEF put
    <2>1. QED
      BY <1>1 DEF Old!DecodeRequest, put, Old!Refused, Refused
  <1>3. QED
    BY <1>2, Zenon

\* Whatever a put has, if it is accepted it is decoded with all of it.
LEMMA PutKept ==
  ASSUME DatagramInv PROVE PutKeepsItsFields
  <1> SUFFICES ASSUME Read, wire.y = "q", wire.q = "put", Accepted(old)
               PROVE  DOMAIN old.args =
                        DOMAIN wire.args \cap Old!Fields(Old!DHTPutValueRequestArguments)
    BY DEF PutKeepsItsFields
  <1> DEFINE body == OldBody(wire)
             args == Old!Deserialized(wire.args, Old!DHTPutValueRequestArguments)
  <1>1. old = Old!from_serde_message(wire)
    BY WhatWasRead
  <1>2. body = Old!DecodeRequest("put", wire.args)
    BY DEF OldBody
  <1>3. body # Refused /\ old.args = body.args
    <2>1. Accepted(old) <=> Old!EnvelopeReads(wire) /\ body # Refused
      BY <1>1, OldAccepts
    <2>2. Accepted(old) =>
                 old = [transaction_id |-> Old!AsBytes(wire.t),
                      version        |-> {Old!AsBytes(x) : x \in wire.v},
                      requester_ip   |-> {Old!bytes_to_sockaddr(Old!AsBytes(x)) : x \in wire.ip},
                      read_only      |-> \E x \in wire.ro : x.int > 0,
                      type           |-> wire.y,
                      kind           |-> body.kind,
                      args           |-> body.args]
      BY <1>1, OldAccepts
    <2> HIDE DEF body
    <2>3. QED
      BY <2>1, <2>2
  <1>4. body = Old!DecodePut(args)
    BY <1>2, <1>3, PutDecoded
  <1> HIDE DEF body
  <1>5. body.args = args
    <2> HIDE DEF args
    <2>1. QED
      BY <1>3, <1>4 DEF Old!DecodePut, Old!Refused, Refused
  <1>6. DOMAIN args = DOMAIN wire.args \cap Old!Fields(Old!DHTPutValueRequestArguments)
    BY DEF Old!Deserialized
  <1>7. QED
    BY <1>3, <1>5, <1>6

-----------------------------------------------------------------------------
(* The untagged enum.                                                        *)

\* The position of the first variant that fits a dictionary, which is taken.
FitsAt(dict, i) ==
  i \in 1..7 /\ Old!Deserializes(dict, Old!DHTResponseSpecific[i].shape)

\* The variant that the untagged enum takes: the first that fits.
FirstFit(dict, i) == FitsAt(dict, i) /\ \A j \in 1..7 : FitsAt(dict, j) => i <= j

\* A response that is accepted is decoded by the first variant that fits, and its
\* nodes and peers have whole lengths.
LEMMA ResponseDecoded ==
  ASSUME NEW dict, Old!DecodeResponse(dict) # Refused
  PROVE  \E i \in 1..7 :
           LET v == Old!DHTResponseSpecific[i]
               args == Old!Deserialized(dict, v.shape)
           IN /\ FirstFit(dict, i)
              /\ "nodes" \in DOMAIN args => Old!WholeNodes(args.nodes)
              /\ "values" \in DOMAIN args => Old!WholePeers(args.values)
              /\ Old!DecodeResponse(dict) =
                   [kind |-> v.kind,
                    args |-> [f \in DOMAIN args |->
                       CASE f = "nodes" -> Old!bytes_to_nodes4(args[f])
                         [] f = "values" -> [k \in DOMAIN args[f] |-> Old!bytes_to_sockaddr(args[f][k])]
                         [] OTHER -> args[f]]]
  <1> DEFINE fits == {i \in DOMAIN Old!DHTResponseSpecific :
                        Old!Deserializes(dict, Old!DHTResponseSpecific[i].shape)}
             first == CHOOSE i \in fits : \A j \in fits : i <= j
             args == Old!Deserialized(dict, Old!DHTResponseSpecific[first].shape)
             res == [kind |-> Old!DHTResponseSpecific[first].kind,
                     args |-> [f \in DOMAIN args |->
                       CASE f = "nodes" -> Old!bytes_to_nodes4(args[f])
                         [] f = "values" -> [k \in DOMAIN args[f] |-> Old!bytes_to_sockaddr(args[f][k])]
                         [] OTHER -> args[f]]]
             badNodes == "nodes" \in DOMAIN args /\ ~ Old!WholeNodes(args.nodes)
             badPeers == "values" \in DOMAIN args /\ ~ Old!WholePeers(args.values)
  <1>1. Old!DecodeResponse(dict) =
          IF fits = {} THEN Refused ELSE IF badNodes THEN Refused ELSE IF badPeers THEN Refused ELSE res
    BY Zenon DEF Old!DecodeResponse, Old!Refused, Refused
  <1>2. fits # {} /\ ~ badNodes /\ ~ badPeers /\ Old!DecodeResponse(dict) = res
    <2> HIDE DEF fits, badNodes, badPeers, res
    <2>1. QED
      BY <1>1
  <1>3. DOMAIN Old!DHTResponseSpecific = 1..7
    BY DEF Old!DHTResponseSpecific
  <1>4. fits \in SUBSET Nat
    BY <1>3
  <1>5. first \in fits /\ \A j \in fits : first <= j
    <2>1. \E i \in fits : \A j \in fits : i <= j
      <3> HIDE DEF fits
      <3>1. QED
        BY <1>2, <1>4, LeastNat
    <2>2. QED
      BY <2>1
  <1>6. \A i : i \in fits <=> FitsAt(dict, i)
    BY <1>3 DEF FitsAt
  <1>7. first \in 1..7 /\ FirstFit(dict, first)
    <2> HIDE DEF fits
    <2>1. QED
      BY <1>5, <1>6 DEF FirstFit, FitsAt
  <1> HIDE DEF first, fits
  <1>8. QED
    BY <1>2, <1>7, Zenon

\* What variant i of DHTResponseSpecific needs.
Needed(i) == Old!DHTResponseSpecific[i].shape.required

\* What variant i may have.
Known(i) == Old!Fields(Old!DHTResponseSpecific[i].shape)

\* What a response read as variant i becomes.
Kind(i) == Old!DHTResponseSpecific[i].kind

\* The seven variants of DHTResponseSpecific, in their order.
LEMMA Variants ==
  /\ Kind(1) = "GetMutable" /\ Needed(1) = {"id", "token", "v", "k", "sig", "seq"}
       /\ Known(1) = {"id", "token", "v", "k", "sig", "seq", "nodes"}
  /\ Kind(2) = "NoMoreRecentValue" /\ Needed(2) = {"id", "token", "seq"}
       /\ Known(2) = {"id", "token", "seq", "nodes"}
  /\ Kind(3) = "GetImmutable" /\ Needed(3) = {"id", "token", "v"}
       /\ Known(3) = {"id", "token", "v", "nodes"}
  /\ Kind(4) = "GetPeers" /\ Needed(4) = {"id", "token", "values"}
       /\ Known(4) = {"id", "token", "values", "nodes"}
  /\ Kind(5) = "NoValues" /\ Needed(5) = {"id", "token"} /\ Known(5) = {"id", "token", "nodes"}
  /\ Kind(6) = "FindNode" /\ Needed(6) = {"id", "nodes"} /\ Known(6) = {"id", "nodes"}
  /\ Kind(7) = "Ping" /\ Needed(7) = {"id"} /\ Known(7) = {"id"}
  <1> USE DEF Needed, Known, Kind, Old!DHTResponseSpecific, Old!Fields, Old!Shape
  <1>1. Kind(1) = "GetMutable" /\ Needed(1) = {"id", "token", "v", "k", "sig", "seq"}
       /\ Known(1) = {"id", "token", "v", "k", "sig", "seq", "nodes"}
    BY DEF Old!DHTGetMutableResponseArguments
  <1>2. Kind(2) = "NoMoreRecentValue" /\ Needed(2) = {"id", "token", "seq"}
       /\ Known(2) = {"id", "token", "seq", "nodes"}
    BY DEF Old!DHTNoMoreRecentValueResponseArguments
  <1>3. Kind(3) = "GetImmutable" /\ Needed(3) = {"id", "token", "v"}
       /\ Known(3) = {"id", "token", "v", "nodes"}
    BY DEF Old!DHTGetImmutableResponseArguments
  <1>4. Kind(4) = "GetPeers" /\ Needed(4) = {"id", "token", "values"}
       /\ Known(4) = {"id", "token", "values", "nodes"}
    BY DEF Old!DHTGetPeersResponseArguments
  <1>5. Kind(5) = "NoValues" /\ Needed(5) = {"id", "token"} /\ Known(5) = {"id", "token", "nodes"}
    BY DEF Old!DHTNoValuesResponseArguments
  <1>6. Kind(6) = "FindNode" /\ Needed(6) = {"id", "nodes"} /\ Known(6) = {"id", "nodes"}
    BY DEF Old!DHTFindNodeResponseArguments
  <1>7. Kind(7) = "Ping" /\ Needed(7) = {"id"} /\ Known(7) = {"id"}
    BY DEF Old!DHTPingResponseArguments
  <1>8. QED
    BY <1>1, <1>2, <1>3, <1>4, <1>5, <1>6, <1>7

\* A variant fits when it has what it needs and can read what it knows.
LEMMA FitsIs ==
  ASSUME NEW dict, NEW i \in 1..7
  PROVE  FitsAt(dict, i) <=>
           /\ Needed(i) \subseteq DOMAIN dict
           /\ \A f \in DOMAIN dict \cap Known(i) : Old!Reads(f, dict[f])
  BY DEF FitsAt, Needed, Known, Old!Deserializes

\* Each variant needs a field that no later one knows: they are ordered "from
\* most to least detailed" (internal.rs).
LEMMA MostDetailedFirst ==
  ASSUME NEW i \in 1..7, NEW j \in 1..7, i < j
  PROVE  \E f \in Needed(i) : f \notin Known(j)
  <1>1. j \in {2, 3, 4, 5, 6, 7}
    OBVIOUS
  <1>2. CASE i = 1
    <2>1. "k" \in Needed(i) /\ "k" \notin Known(j)
      BY <1>1, <1>2, Variants
    <2>2. QED
      BY <2>1
  <1>3. CASE i = 2
    <2>1. "seq" \in Needed(i) /\ "seq" \notin Known(j)
      BY <1>1, <1>3, Variants
    <2>2. QED
      BY <2>1
  <1>4. CASE i = 3
    <2>1. "v" \in Needed(i) /\ "v" \notin Known(j)
      BY <1>1, <1>4, Variants
    <2>2. QED
      BY <2>1
  <1>5. CASE i = 4
    <2>1. "values" \in Needed(i) /\ "values" \notin Known(j)
      BY <1>1, <1>5, Variants
    <2>2. QED
      BY <2>1
  <1>6. CASE i = 5
    <2>1. "token" \in Needed(i) /\ "token" \notin Known(j)
      BY <1>1, <1>6, Variants
    <2>2. QED
      BY <2>1
  <1>7. CASE i = 6
    <2>1. "nodes" \in Needed(i) /\ "nodes" \notin Known(j)
      BY <1>1, <1>7, Variants
    <2>2. QED
      BY <2>1
  <1>8. i \in {1, 2, 3, 4, 5, 6}
    OBVIOUS
  <1>9. QED
    BY <1>2, <1>3, <1>4, <1>5, <1>6, <1>7, <1>8

\* What an accepted response was taken for.
LEMMA ResponseAccepted ==
  ASSUME NEW w, w.y = "r", Accepted(Old!from_serde_message(w))
  PROVE  \E i \in 1..7 :
           LET m == Old!from_serde_message(w)
           IN /\ FirstFit(w.args, i) /\ m.type = "r" /\ m.kind = Kind(i)
              /\ DOMAIN m.args = DOMAIN w.args \cap Known(i)
              /\ \A f \in DOMAIN m.args \ {"nodes", "values"} : m.args[f] = Old!Read(f, w.args[f])
              /\ "nodes" \in DOMAIN m.args =>
                   /\ m.args["nodes"] = Old!bytes_to_nodes4(Old!Read("nodes", w.args["nodes"]))
                   /\ Old!WholeNodes(Old!Read("nodes", w.args["nodes"]))
              /\ "values" \in DOMAIN m.args =>
                   LET l == Old!Read("values", w.args["values"])
                   IN /\ m.args["values"] = [k \in DOMAIN l |-> Old!bytes_to_sockaddr(l[k])]
                      /\ Old!WholePeers(l)
  <1> DEFINE m == Old!from_serde_message(w)
             body == OldBody(w)
             dict == w.args
  <1>1. body = Old!DecodeResponse(dict)
    BY DEF OldBody
  <1>2. body # Refused /\ m.type = w.y /\ m.kind = body.kind /\ m.args = body.args
    <2>1. Accepted(m) => body # Refused
      BY OldAccepts
    <2>2. Accepted(m) =>
                 m = [transaction_id |-> Old!AsBytes(w.t),
                      version        |-> {Old!AsBytes(x) : x \in w.v},
                      requester_ip   |-> {Old!bytes_to_sockaddr(Old!AsBytes(x)) : x \in w.ip},
                      read_only      |-> \E x \in w.ro : x.int > 0,
                      type           |-> w.y,
                      kind           |-> body.kind,
                      args           |-> body.args]
      BY OldAccepts
    <2> HIDE DEF body, m
    <2>3. Accepted(m)
      BY DEF m
    <2>4. QED
      BY <2>1, <2>2, <2>3
  <1> HIDE DEF body, m
  <1>3. PICK i \in 1..7 :
           LET v == Old!DHTResponseSpecific[i]
               args == Old!Deserialized(dict, v.shape)
           IN /\ FirstFit(dict, i)
              /\ "nodes" \in DOMAIN args => Old!WholeNodes(args.nodes)
              /\ "values" \in DOMAIN args => Old!WholePeers(args.values)
              /\ body =
                   [kind |-> v.kind,
                    args |-> [f \in DOMAIN args |->
                       CASE f = "nodes" -> Old!bytes_to_nodes4(args[f])
                         [] f = "values" -> [k \in DOMAIN args[f] |-> Old!bytes_to_sockaddr(args[f][k])]
                         [] OTHER -> args[f]]]
    BY <1>1, <1>2, ResponseDecoded
  <1> DEFINE D == DOMAIN dict \cap Known(i)
             args == Old!Deserialized(dict, Old!DHTResponseSpecific[i].shape)
             res == [f \in DOMAIN args |->
                       CASE f = "nodes" -> Old!bytes_to_nodes4(args[f])
                         [] f = "values" -> [k \in DOMAIN args[f] |-> Old!bytes_to_sockaddr(args[f][k])]
                         [] OTHER -> args[f]]
  <1>4. DOMAIN args = D /\ \A f \in D : args[f] = Old!Read(f, dict[f])
    BY DEF Old!Deserialized, Known
  <1>5. FirstFit(dict, i) /\ body.kind = Kind(i) /\ body.args = res
    <2> HIDE DEF args
    <2>1. QED
      BY <1>3 DEF Kind, args
  <1>6. /\ "nodes" \in DOMAIN args => Old!WholeNodes(args["nodes"])
        /\ "values" \in DOMAIN args => Old!WholePeers(args["values"])
    BY <1>3
  <1> HIDE DEF D, args
  <1>7. /\ DOMAIN res = D
        /\ \A f \in D \ {"nodes", "values"} : res[f] = args[f]
        /\ "nodes" \in D => res["nodes"] = Old!bytes_to_nodes4(args["nodes"])
        /\ "values" \in D => res["values"] =
              [k \in DOMAIN args["values"] |-> Old!bytes_to_sockaddr(args["values"][k])]
    BY <1>4
  <1> HIDE DEF res
  <1>8. m.args = res /\ m.kind = Kind(i) /\ m.type = "r"
    BY <1>2, <1>5
  <1>9. /\ FirstFit(w.args, i) /\ m.type = "r" /\ m.kind = Kind(i)
        /\ DOMAIN m.args = DOMAIN w.args \cap Known(i)
        /\ \A f \in DOMAIN m.args \ {"nodes", "values"} : m.args[f] = Old!Read(f, w.args[f])
    BY <1>4, <1>5, <1>7, <1>8 DEF D
  <1>10. "nodes" \in DOMAIN m.args =>
                   /\ m.args["nodes"] = Old!bytes_to_nodes4(Old!Read("nodes", w.args["nodes"]))
                   /\ Old!WholeNodes(Old!Read("nodes", w.args["nodes"]))
    BY <1>4, <1>6, <1>7, <1>8
  <1>11. "values" \in DOMAIN m.args =>
                   LET l == Old!Read("values", w.args["values"])
                   IN /\ m.args["values"] = [k \in DOMAIN l |-> Old!bytes_to_sockaddr(l[k])]
                      /\ Old!WholePeers(l)
    BY <1>4, <1>6, <1>7, <1>8
  <1>12. QED
    BY <1>9, <1>10, <1>11 DEF m

\* The untagged enum makes the most of a response, and never less than the
\* lookup needs.
LEMMA DetailIsKept ==
  ASSUME DatagramInv PROVE DetailKept
  <1> SUFFICES ASSUME Read, wire.y = "r", Accepted(old) PROVE DetailKept
    BY DEF DetailKept, MostDetailedVariant, FallbackKeepsNodesAndToken
  <1> DEFINE dict == wire.args
  <1>1. old = Old!from_serde_message(wire)
    BY WhatWasRead
  <1>2. PICK i \in 1..7 :
          /\ FirstFit(dict, i) /\ old.type = "r" /\ old.kind = Kind(i)
          /\ DOMAIN old.args = DOMAIN dict \cap Known(i)
          /\ \A f \in DOMAIN old.args \ {"nodes", "values"} : old.args[f] = Old!Read(f, dict[f])
    BY <1>1, ResponseAccepted
  <1> HIDE DEF dict
  <1>3. /\ FitsAt(dict, i) /\ \A j \in 1..7 : FitsAt(dict, j) => i <= j
        /\ Needed(i) \subseteq DOMAIN dict
        /\ \A f \in DOMAIN dict \cap Known(i) : Old!Reads(f, dict[f])
    BY <1>2, FitsIs DEF FirstFit
  <1>4. "id" \in Needed(i) /\ "id" \in Known(i)
    <2>1. i \in {1, 2, 3, 4, 5, 6, 7}
      OBVIOUS
    <2>2. QED
      BY <2>1, Variants
  <1>5. "id" \in DOMAIN dict /\ Old!Reads("id", dict["id"])
    BY <1>3, <1>4
  <1>6. ASSUME NEW j \in DOMAIN Old!DHTResponseSpecific,
               Old!Deserializes(dict, Old!DHTResponseSpecific[j].shape)
        PROVE  ~ (DOMAIN old.args \subseteq Known(j) \cap DOMAIN dict
                  /\ DOMAIN old.args # Known(j) \cap DOMAIN dict)
    <2>1. j \in 1..7
      BY DEF Old!DHTResponseSpecific
    <2>2. i <= j
      BY <1>3, <1>6, <2>1 DEF FitsAt
    <2>3. CASE i = j
      BY <1>2, <2>3
    <2>4. CASE i < j
      <3>1. PICK f \in Needed(i) : f \notin Known(j)
        BY <2>1, <2>4, MostDetailedFirst
      <3>2. f \in Known(i)
        BY <3>1 DEF Needed, Known, Old!Fields
      <3>3. QED
        BY <1>2, <1>3, <3>1, <3>2
    <2>5. QED
      BY <2>1, <2>2, <2>3, <2>4
  <1>7. MostDetailedVariant
    BY <1>6 DEF MostDetailedVariant, Known, dict
  <1>8. ASSUME "nodes" \in DOMAIN dict, Old!Reads("nodes", dict["nodes"])
        PROVE  Old!get_closer_nodes(old) # {}
    <2>1. FitsAt(dict, 6)
      <3>1. Needed(6) = {"id", "nodes"} /\ Known(6) = {"id", "nodes"}
        BY Variants
      <3>2. Needed(6) \subseteq DOMAIN dict
        BY <1>5, <1>8, <3>1
      <3>3. \A f \in DOMAIN dict \cap Known(6) : Old!Reads(f, dict[f])
        BY <1>5, <1>8, <3>1
      <3>4. QED
        BY <3>2, <3>3, FitsIs
    <2>2. i \in {1, 2, 3, 4, 5, 6}
      BY <1>3, <2>1
    <2>3. old.kind # "Ping" /\ "nodes" \in Known(i)
      BY <1>2, <2>2, Variants
    <2>4. "nodes" \in DOMAIN old.args
      BY <1>2, <1>8, <2>3
    <2>5. QED
      BY <1>2, <2>3, <2>4 DEF Old!get_closer_nodes
  <1>9. ASSUME "token" \in DOMAIN dict, Old!Reads("token", dict["token"]),
               "nodes" \in DOMAIN dict => Old!Reads("nodes", dict["nodes"])
        PROVE  \E t \in Old!get_token(old) : t.token = Old!AsBytes(dict["token"])
    <2>1. FitsAt(dict, 5)
      <3>1. Needed(5) = {"id", "token"} /\ Known(5) = {"id", "token", "nodes"}
        BY Variants
      <3>2. Needed(5) \subseteq DOMAIN dict
        BY <1>5, <1>9, <3>1
      <3>3. \A f \in DOMAIN dict \cap Known(5) : Old!Reads(f, dict[f])
        BY <1>5, <1>9, <3>1
      <3>4. QED
        BY <3>2, <3>3, FitsIs
    <2>2. i \in {1, 2, 3, 4, 5}
      BY <1>3, <2>1
    <2>3. old.kind \notin {"Ping", "FindNode"} /\ "token" \in Known(i)
      BY <1>2, <2>2, Variants
    <2>4. old.args["token"] = Old!Read("token", dict["token"])
      BY <1>2, <1>9, <2>3
    <2>5. Old!Read("token", dict["token"]) = Old!AsBytes(dict["token"])
      BY DEF Old!Read, Old!ByteFields
    <2>6. Old!get_token(old) = {[id |-> old.args.id, token |-> old.args.token]}
      BY <1>2, <2>3 DEF Old!get_token
    <2>7. QED
      BY <2>4, <2>5, <2>6
  <1>10. FallbackKeepsNodesAndToken
    BY <1>8, <1>9 DEF FallbackKeepsNodesAndToken, dict
  <1>11. QED
    BY <1>7, <1>10 DEF DetailKept

-----------------------------------------------------------------------------
(* Compact addresses and nodes.                                              *)

\* The lengths of arrays are numbers, and there is more than one byte.
LEMMA Sizes ==
  /\ IdSize \in Nat \ {0} /\ IpSize \in Nat \ {0} /\ KeySize \in Nat /\ SigSize \in Nat /\ TidSize \in Nat
  /\ ByteBase \in Nat \ {0} /\ ByteBase > 1 /\ I32Max \in Nat \ {0}
  BY BencodeAssumption

\* An array is a byte string of its length.
LEMMA ArrayIs ==
  ASSUME NEW S, NEW n \in Nat, NEW s
  PROVE  s \in [1..n -> S] <=> s \in Seq(S) /\ Len(s) = n
  <1>1. s \in [1..n -> S] => s \in Seq(S) /\ Len(s) = n
    OBVIOUS
  <1>2. s \in Seq(S) /\ Len(s) = n => s \in [1..n -> S]
    OBVIOUS
  <1>3. QED
    BY <1>1, <1>2

\* A part of a byte string.
LEMMA PartIs ==
  ASSUME NEW s \in Seq(ByteValues), NEW i \in Nat, NEW n \in Nat, i + n <= Len(s)
  PROVE  /\ SubSeq(s, i + 1, i + n) \in [1..n -> ByteValues]
         /\ \A j \in 1..n : SubSeq(s, i + 1, i + n)[j] = s[i + j]
  <1> DEFINE p == i + 1
             q == i + n
  <1>0. Len(s) \in Nat /\ DOMAIN s = 1..Len(s)
    OBVIOUS
  <1>1. p \in Int /\ q \in Int /\ \A j \in p..q : j \in 1..Len(s)
    BY <1>0
  <1>2. \A j \in p..q : s[j] \in ByteValues
    BY <1>0, <1>1
  <1>3. (p <= q => q - p + 1 = n) /\ (~ (p <= q) => n = 0) /\ q - p + 1 = n
        /\ \A j \in 1..n : p + j - 1 = i + j
    OBVIOUS
  <1> DEFINE u == SubSeq(s, p, q)
  <1> HIDE DEF p, q
  <1>4. u \in Seq(ByteValues) /\ Len(u) = (IF p <= q THEN q - p + 1 ELSE 0)
        /\ \A j \in 1..q - p + 1 : u[j] = s[p + j - 1]
    BY <1>1, <1>2, SubSeqProperties
  <1> HIDE DEF u
  <1>5. Len(u) = n /\ \A j \in 1..n : u[j] = s[i + j]
    BY <1>3, <1>4
  <1>6. u \in [1..n -> ByteValues]
    BY <1>4, <1>5, ArrayIs
  <1>7. QED
    BY <1>5, <1>6 DEF u, p, q

\* Two arrays after one another.
LEMMA JoinIs ==
  ASSUME NEW m \in Nat, NEW n \in Nat, NEW s \in [1..m -> ByteValues], NEW t \in [1..n -> ByteValues]
  PROVE  /\ s \o t \in [1..(m + n) -> ByteValues]
         /\ \A j \in 1..m : (s \o t)[j] = s[j]
         /\ \A j \in 1..n : (s \o t)[m + j] = t[j]
  <1>1. s \in Seq(ByteValues) /\ t \in Seq(ByteValues) /\ Len(s) = m /\ Len(t) = n
    BY ArrayIs
  <1> DEFINE u == s \o t
  <1>2. u \in Seq(ByteValues) /\ Len(u) = Len(s) + Len(t)
        /\ \A i \in 1..Len(s) + Len(t) : u[i] = IF i <= Len(s) THEN s[i] ELSE t[i - Len(s)]
    BY <1>1, ConcatProperties, Zenon
  <1> HIDE DEF u
  <1>3. Len(u) = m + n /\ \A i \in 1..m + n : u[i] = IF i <= m THEN s[i] ELSE t[i - m]
    BY <1>1, <1>2
  <1>4. u \in [1..(m + n) -> ByteValues]
    BY <1>2, <1>3, ArrayIs, SMTT(30)
  <1>5. \A j \in 1..m : u[j] = s[j]
    BY <1>3
  <1>6. \A j \in 1..n : u[m + j] = t[j]
    <2>1. \A j \in 1..n : m + j \in 1..m + n /\ ~ (m + j <= m) /\ (m + j) - m = j
      OBVIOUS
    <2>2. QED
      BY <1>3, <2>1
  <1>7. QED
    BY <1>4, <1>5, <1>6 DEF u

\* The port in two bytes, in network byte order.
LEMMA PortBytes ==
  ASSUME NEW B \in Nat \ {0}, NEW p \in 0..(B * B - 1)
  PROVE  /\ p \div B \in 0..(B - 1) /\ p % B \in 0..(B - 1)
         /\ (p \div B) * B + (p % B) = p
  <1>1. PICK q \in Nat, r \in 0..(B - 1) : p = B * q + r /\ q = p \div B /\ r = p % B
    <2>1. p = B * (p \div B) + (p % B) /\ p \div B \in Nat
      OBVIOUS
    <2>2. p % B \in 0..(B - 1)
      OBVIOUS
    <2>3. QED
      BY <2>1, <2>2, Zenon
  <1>2. q < B
    <2> SUFFICES ASSUME ~ (q < B) PROVE FALSE
      OBVIOUS
    <2>1. PICK l \in Nat : q = B + l
      <3>1. q - B \in Nat /\ q = B + (q - B)
        OBVIOUS
      <3>2. QED
        BY <3>1
    <2>2. B * (B + l) = B * B + B * l /\ B * l \in Nat /\ B * B \in Nat
      OBVIOUS
    <2>3. p = B * B + B * l + r
      BY <1>1, <2>1, <2>2
    <2>4. QED
      BY <2>2, <2>3
  <1>3. q \in 0..(B - 1) /\ q * B + r = p
    BY <1>1, <1>2
  <1>4. QED
    BY <1>1, <1>3, Zenon

\* The two bytes of a port, and the port again.
LEMMA PortOf ==
  ASSUME NEW a \in Address
  PROVE  /\ a.port \div ByteBase \in ByteValues /\ a.port % ByteBase \in ByteValues
         /\ (a.port \div ByteBase) * ByteBase + (a.port % ByteBase) = a.port
  <1>1. ByteBase \in Nat \ {0}
    BY Sizes
  <1>2. a.port \in 0..(ByteBase * ByteBase - 1)
    BY DEF Address
  <1>3. /\ a.port \div ByteBase \in 0..(ByteBase - 1) /\ a.port % ByteBase \in 0..(ByteBase - 1)
        /\ (a.port \div ByteBase) * ByteBase + (a.port % ByteBase) = a.port
    BY <1>1, <1>2, PortBytes, Zenon
  <1>4. QED
    BY <1>3, Zenon DEF ByteValues

\* The length of a compact address: the IP and two bytes of port.
AddrSize == IpSize + 2

\* An address in bytes.
LEMMA AddressBytes ==
  ASSUME NEW a \in Address
  PROVE  LET s == Old!sockaddr_to_bytes(a)
         IN /\ s \in ByteArray(AddrSize)
            /\ \A j \in 1..IpSize : s[j] = a.ip[j]
            /\ s[IpSize + 1] = a.port \div ByteBase /\ s[IpSize + 2] = a.port % ByteBase
  <1> DEFINE t == <<a.port \div ByteBase, a.port % ByteBase>>
  <1>1. a.ip \in [1..IpSize -> ByteValues] /\ a.port \in 0..(ByteBase * ByteBase - 1)
    BY DEF Address, ByteArray
  <1>2. a.port \div ByteBase \in ByteValues /\ a.port % ByteBase \in ByteValues
    BY PortOf
  <1>3. t \in [1..2 -> ByteValues] /\ t[1] = a.port \div ByteBase /\ t[2] = a.port % ByteBase
    <2> DEFINE x == a.port \div ByteBase
               y == a.port % ByteBase
    <2>1. x \in ByteValues /\ y \in ByteValues
      BY <1>2
    <2>2. t = <<x, y>>
      OBVIOUS
    <2> HIDE DEF x, y, t
    <2>3. t \in [1..2 -> ByteValues] /\ t[1] = x /\ t[2] = y
      BY <2>1, <2>2
    <2>4. QED
      BY <2>3 DEF x, y
  <1> HIDE DEF t
  <1>4. IpSize \in Nat /\ 2 \in Nat
    BY Sizes
  <1>5. /\ a.ip \o t \in [1..(IpSize + 2) -> ByteValues]
        /\ \A j \in 1..IpSize : (a.ip \o t)[j] = a.ip[j]
        /\ \A j \in 1..2 : (a.ip \o t)[IpSize + j] = t[j]
    <2> DEFINE ip == a.ip
    <2>1. ip \in [1..IpSize -> ByteValues] /\ t \in [1..2 -> ByteValues]
      BY <1>1, <1>3
    <2> HIDE DEF ip
    <2>2. /\ ip \o t \in [1..(IpSize + 2) -> ByteValues]
          /\ \A j \in 1..IpSize : (ip \o t)[j] = ip[j]
          /\ \A j \in 1..2 : (ip \o t)[IpSize + j] = t[j]
      BY ONLY <1>4, <2>1, JoinIs
    <2>3. QED
      BY <2>2 DEF ip
  <1>6. Old!sockaddr_to_bytes(a) = a.ip \o t
    BY DEF Old!sockaddr_to_bytes, t
  <1>7. 1 \in 1..2 /\ 2 \in 1..2
    OBVIOUS
  <1>8. (a.ip \o t)[IpSize + 1] = t[1] /\ (a.ip \o t)[IpSize + 2] = t[2]
    BY <1>5, <1>7, Zenon
  <1> DEFINE u == a.ip \o t
  <1>9. /\ u \in [1..(IpSize + 2) -> ByteValues] /\ \A j \in 1..IpSize : u[j] = a.ip[j]
        /\ u[IpSize + 1] = a.port \div ByteBase /\ u[IpSize + 2] = a.port % ByteBase
        /\ Old!sockaddr_to_bytes(a) = u
    BY <1>3, <1>5, <1>6, <1>8, Zenon
  <1> HIDE DEF u
  <1>10. QED
    BY <1>9, Zenon DEF ByteArray, AddrSize

\* What is read from the bytes of an address.
LEMMA AddressRead ==
  ASSUME NEW s \in ByteArray(AddrSize)
  PROVE  /\ Old!bytes_to_sockaddr(s) \in Address
         /\ \A j \in 1..IpSize : Old!bytes_to_sockaddr(s).ip[j] = s[j]
         /\ Old!bytes_to_sockaddr(s).port = s[IpSize + 1] * ByteBase + s[IpSize + 2]
         /\ Old!bytes_to_sockaddr(s) = [ip |-> Old!bytes_to_sockaddr(s).ip, port |-> Old!bytes_to_sockaddr(s).port]
  <1>0. IpSize \in Nat /\ AddrSize \in Nat /\ AddrSize = IpSize + 2
    BY Sizes DEF AddrSize
  <1>1. s \in Seq(ByteValues) /\ Len(s) = AddrSize
    BY <1>0, ArrayIs DEF ByteArray
  <1> DEFINE ip == SubSeq(s, 1, IpSize)
             port == s[IpSize + 1] * ByteBase + s[IpSize + 2]
  <1>2. SubSeq(s, 0 + 1, 0 + IpSize) \in [1..IpSize -> ByteValues]
        /\ \A j \in 1..IpSize : SubSeq(s, 0 + 1, 0 + IpSize)[j] = s[0 + j]
    <2>1. 0 \in Nat /\ IpSize \in Nat /\ s \in Seq(ByteValues) /\ 0 + IpSize <= Len(s)
      BY <1>0, <1>1
    <2>2. QED
      BY ONLY <2>1, PartIs
  <1>3. ip \in [1..IpSize -> ByteValues] /\ \A j \in 1..IpSize : ip[j] = s[j]
    <2>1. 0 + 1 = 1 /\ 0 + IpSize = IpSize /\ \A j \in 1..IpSize : 0 + j = j
      BY <1>0
    <2>2. QED
      BY <1>2, <2>1
  <1>4. port \in 0..(ByteBase * ByteBase - 1)
    <2> DEFINE x == s[IpSize + 1]
               y == s[IpSize + 2]
    <2>1. x \in 0..(ByteBase - 1) /\ y \in 0..(ByteBase - 1)
      BY <1>0 DEF ByteArray, ByteValues
    <2> HIDE DEF x, y
    <2>2. ByteBase \in Nat \ {0}
      BY Sizes
    <2>3. x * ByteBase \in Nat /\ x * ByteBase + ByteBase <= ByteBase * ByteBase
      <3>1. x + 1 \in Nat /\ x + 1 \in 1..ByteBase /\ (x + 1) - 1 = x
        BY <2>1, <2>2
      <3>2. ((x + 1) - 1) * ByteBase \in Nat /\ ((x + 1) - 1) * ByteBase + ByteBase <= ByteBase * ByteBase
        BY <2>2, <3>1, WholeBytes
      <3>3. QED
        BY <3>1, <3>2
    <2>4. ByteBase * ByteBase \in Nat
      BY <2>2
    <2>5. x * ByteBase + y \in 0..(ByteBase * ByteBase - 1)
      BY <2>1, <2>2, <2>3, <2>4
    <2>6. QED
      BY <2>5 DEF x, y
  <1>5. Old!bytes_to_sockaddr(s) = [ip |-> ip, port |-> port]
    BY DEF Old!bytes_to_sockaddr
  <1> HIDE DEF ip, port
  <1>6. [ip |-> ip, port |-> port] \in Address
    BY <1>3, <1>4 DEF Address, ByteArray
  <1>7. QED
    BY <1>3, <1>5, <1>6 DEF port

\* An address survives sockaddr_to_bytes and bytes_to_sockaddr.
LEMMA AddressRoundTrip ==
  ASSUME NEW a \in Address
  PROVE  Old!bytes_to_sockaddr(Old!sockaddr_to_bytes(a)) = a
  <1> DEFINE s == Old!sockaddr_to_bytes(a)
             b == Old!bytes_to_sockaddr(s)
  <1>1. /\ s \in ByteArray(AddrSize) /\ \A j \in 1..IpSize : s[j] = a.ip[j]
        /\ s[IpSize + 1] = a.port \div ByteBase /\ s[IpSize + 2] = a.port % ByteBase
    BY AddressBytes
  <1> HIDE DEF s
  <1>2. /\ b \in Address /\ \A j \in 1..IpSize : b.ip[j] = s[j]
        /\ b.port = s[IpSize + 1] * ByteBase + s[IpSize + 2]
        /\ b = [ip |-> b.ip, port |-> b.port]
    BY <1>1, AddressRead
  <1> HIDE DEF b
  <1>3. a.port \in 0..(ByteBase * ByteBase - 1)
    BY DEF Address
  <1>4. b.port = a.port
    <2>1. (a.port \div ByteBase) * ByteBase + (a.port % ByteBase) = a.port
      BY PortOf
    <2>2. QED
      BY <1>1, <1>2, <2>1, Zenon
  <1>5. b.ip = a.ip
    <2>1. b.ip \in [1..IpSize -> ByteValues] /\ a.ip \in [1..IpSize -> ByteValues]
      BY <1>2 DEF Address, ByteArray
    <2>2. b.ip = [j \in 1..IpSize |-> b.ip[j]] /\ a.ip = [j \in 1..IpSize |-> a.ip[j]]
      BY <2>1
    <2>3. QED
      BY <1>1, <1>2, <2>2
  <1>6. a = [ip |-> a.ip, port |-> a.port]
    BY DEF Address
  <1>7. b = a
    BY <1>2, <1>4, <1>5, <1>6
  <1>8. QED
    BY <1>7 DEF b, s

\* Two arrays are the same when their elements are.
LEMMA SameArrays ==
  ASSUME NEW S, NEW n, NEW a \in [1..n -> S], NEW b \in [1..n -> S], \A j \in 1..n : a[j] = b[j]
  PROVE  a = b
  <1>1. a = [j \in 1..n |-> a[j]] /\ b = [j \in 1..n |-> b[j]]
    OBVIOUS
  <1>2. [j \in 1..n |-> a[j]] = [j \in 1..n |-> b[j]]
    OBVIOUS
  <1>3. QED
    BY <1>1, <1>2, Zenon

\* Two byte arrays of one length are the same when their bytes are.
LEMMA SameByteArrays ==
  ASSUME NEW n, NEW a \in ByteArray(n), NEW b \in ByteArray(n), \A j \in 1..n : a[j] = b[j]
  PROVE  a = b
  <1>1. a = [j \in 1..n |-> a[j]] /\ b = [j \in 1..n |-> b[j]]
    BY DEF ByteArray
  <1>2. [j \in 1..n |-> a[j]] = [j \in 1..n |-> b[j]]
    OBVIOUS
  <1>3. QED
    BY <1>1, <1>2, Zenon

\* The quotient and the remainder of a position.
LEMMA Position ==
  ASSUME NEW m \in Nat \ {0}, NEW q \in Nat, NEW r \in 0..(m - 1)
  PROVE  q * m + r \in Nat /\ (q * m + r) \div m = q /\ (q * m + r) % m = r
  <1> DEFINE x == q * m + r
             p == x \div m
             e == x % m
  <1>1. m * q \in Nat /\ x = m * q + r
    OBVIOUS
  <1>2. x \in Nat
    BY <1>1
  <1>3. x = m * p + e /\ p \in Nat /\ e \in 0..(m - 1)
    <2> HIDE DEF x
    <2>1. x = m * (x \div m) + (x % m) /\ x \div m \in Nat
      BY <1>2
    <2>2. x % m \in 0..(m - 1)
      BY <1>2
    <2>3. QED
      BY <2>1, <2>2, Zenon
  <1> HIDE DEF x, p, e
  <1>4. ASSUME NEW a \in Nat, NEW b \in Nat, NEW c \in 0..(m - 1), NEW d \in 0..(m - 1),
               m * a + c = m * b + d
        PROVE  ~ (a < b)
    <2> SUFFICES ASSUME a < b PROVE FALSE
      OBVIOUS
    <2>1. PICK k \in Nat : b = a + (1 + k)
      <3>1. b - a - 1 \in Nat /\ b = a + (1 + (b - a - 1))
        OBVIOUS
      <3>2. QED
        BY <3>1
    <2>2. m * (a + (1 + k)) = m * a + m * (1 + k) /\ m * (1 + k) = m + m * k /\ m * k \in Nat /\ m * a \in Nat
      OBVIOUS
    <2>3. m * b = m * a + m + m * k
      BY <2>1, <2>2
    <2>4. QED
      BY <1>4, <2>2, <2>3
  <1>5. m * p + e = m * q + r
    BY <1>1, <1>3
  <1>6. ~ (p < q) /\ ~ (q < p)
    <2>1. ~ (p < q)
      BY <1>3, <1>4, <1>5
    <2>2. ~ (q < p)
      BY <1>3, <1>4, <1>5
    <2>3. QED
      BY <2>1, <2>2
  <1>7. p = q
    BY <1>3, <1>6
  <1>8. e = r
    BY <1>1, <1>3, <1>5, <1>7
  <1>9. QED
    BY <1>2, <1>7, <1>8 DEF x, p, e

\* A node and its address in bytes.
NodeSize == IdSize + AddrSize

\* The bytes that nodes4_to_bytes writes for one node.
OneNode(c) == c.id \o Old!sockaddr_to_bytes(c.address)

\* Both crates give compact addresses and compact nodes the same length.
LEMMA SizesOfNodes ==
  /\ IdSize \in Nat \ {0} /\ IpSize \in Nat \ {0} /\ AddrSize \in Nat /\ NodeSize \in Nat \ {0}
  /\ AddrSize = IpSize + 2 /\ NodeSize = IdSize + AddrSize
  /\ Old!AddrSize = AddrSize /\ Old!NodeByteSize = NodeSize
  /\ New!AddrBytes = AddrSize /\ New!ContactBytes = NodeSize
  BY Sizes DEF AddrSize, NodeSize, Old!AddrSize, Old!NodeByteSize, New!AddrBytes, New!ContactBytes

\* Where the id and the address are in the bytes of a node.
LEMMA NodeBytes ==
  ASSUME NEW c \in NodeContact
  PROVE  /\ OneNode(c) \in ByteArray(NodeSize)
         /\ \A j \in 1..IdSize : OneNode(c)[j] = c.id[j]
         /\ \A j \in 1..AddrSize : OneNode(c)[IdSize + j] = Old!sockaddr_to_bytes(c.address)[j]
  <1> DEFINE t == Old!sockaddr_to_bytes(c.address)
             id == c.id
  <1>1. c.address \in Address /\ id \in [1..IdSize -> ByteValues]
    BY DEF NodeContact, ByteArray
  <1>2. t \in [1..AddrSize -> ByteValues]
    BY <1>1, AddressBytes DEF ByteArray
  <1>3. IdSize \in Nat /\ AddrSize \in Nat
    BY SizesOfNodes
  <1> HIDE DEF t, id
  <1>4. /\ id \o t \in [1..(IdSize + AddrSize) -> ByteValues]
        /\ \A j \in 1..IdSize : (id \o t)[j] = id[j]
        /\ \A j \in 1..AddrSize : (id \o t)[IdSize + j] = t[j]
    BY ONLY <1>1, <1>2, <1>3, JoinIs
  <1>5. OneNode(c) = id \o t
    BY DEF OneNode, id, t
  <1>6. /\ OneNode(c) \in ByteArray(NodeSize)
        /\ \A j \in 1..IdSize : OneNode(c)[j] = id[j]
        /\ \A j \in 1..AddrSize : OneNode(c)[IdSize + j] = t[j]
    BY <1>4, <1>5, Zenon DEF ByteArray, NodeSize
  <1>7. QED
    BY <1>6, Zenon DEF id, t

\* Where a byte of a list of nodes comes from.
LEMMA WhichNode ==
  ASSUME NEW m \in Nat \ {0}, NEW n \in Nat, NEW i \in 1..(n * m)
  PROVE  ((i - 1) \div m) + 1 \in 1..n /\ ((i - 1) % m) + 1 \in 1..m
  <1> DEFINE x == i - 1
  <1>1. n * m \in Nat /\ m * n = n * m
    OBVIOUS
  <1>2. x \in Nat /\ x < n * m
    BY <1>1
  <1> HIDE DEF x
  <1>3. x = m * (x \div m) + (x % m) /\ x \div m \in Nat
    BY <1>2
  <1>4. x % m \in 0..(m - 1)
    BY <1>2
  <1> DEFINE q == x \div m
             r == x % m
  <1>5. x = m * q + r /\ q \in Nat /\ r \in 0..(m - 1)
    BY <1>3, <1>4
  <1> HIDE DEF q, r
  <1>6. q < n
    <2> SUFFICES ASSUME ~ (q < n) PROVE FALSE
      OBVIOUS
    <2>1. PICK k \in Nat : q = n + k
      <3>1. q - n \in Nat /\ q = n + (q - n)
        BY <1>5
      <3>2. QED
        BY <3>1
    <2>2. m * (n + k) = m * n + m * k /\ m * k \in Nat
      OBVIOUS
    <2>3. x = n * m + m * k + r
      BY <1>1, <1>5, <2>1, <2>2
    <2>4. QED
      BY <1>1, <1>2, <1>5, <2>2, <2>3
  <1>7. q + 1 \in 1..n /\ r + 1 \in 1..m
    BY <1>5, <1>6
  <1>8. QED
    BY <1>7 DEF q, r, x

\* A list of nodes in bytes.
LEMMA NodesBytes ==
  ASSUME NEW ns \in Seq(NodeContact)
  PROVE  LET s == Old!nodes4_to_bytes(ns)
         IN /\ s \in Seq(ByteValues) /\ Len(s) = Len(ns) * NodeSize /\ Len(s) \in Nat
            /\ \A k \in 1..Len(ns), j \in 1..NodeSize : s[(k - 1) * NodeSize + j] = OneNode(ns[k])[j]
  <1> DEFINE s == Old!nodes4_to_bytes(ns)
             N == NodeSize
             L == Len(ns)
             T == L * N
             at(i) == OneNode(ns[((i - 1) \div N) + 1])[((i - 1) % N) + 1]
  <1>0. N \in Nat \ {0} /\ L \in Nat /\ \A k \in 1..L : ns[k] \in NodeContact
    BY SizesOfNodes
  <1>1. s = [i \in 1..T |-> at(i)]
    BY SizesOfNodes, Zenon DEF Old!nodes4_to_bytes, OneNode
  <1> HIDE DEF s
  <1>2. T \in Nat
    <2> HIDE DEF N, L
    <2>1. QED
      BY <1>0
  <1>3. \A i \in 1..T : at(i) \in ByteValues
    <2> SUFFICES ASSUME NEW i \in 1..T PROVE at(i) \in ByteValues
      OBVIOUS
    <2> DEFINE k == ((i - 1) \div N) + 1
               j == ((i - 1) % N) + 1
    <2>1. k \in 1..L /\ j \in 1..N
      <3> HIDE DEF N, L
      <3>1. QED
        BY <1>0, WhichNode
    <2> HIDE DEF k, j
    <2>2. OneNode(ns[k]) \in [1..N -> ByteValues]
      BY <1>0, <2>1, NodeBytes DEF ByteArray
    <2>3. OneNode(ns[k])[j] \in ByteValues
      BY <2>1, <2>2
    <2>4. QED
      BY <2>3 DEF k, j
  <1>4. s \in [1..T -> ByteValues]
    <2> HIDE DEF at, T
    <2>1. QED
      BY <1>1, <1>3
  <1>5. s \in Seq(ByteValues) /\ Len(s) = T
    <2> HIDE DEF T
    <2>1. QED
      BY <1>2, <1>4, ArrayIs
  <1>6. ASSUME NEW k \in 1..L, NEW j \in 1..N
        PROVE  s[(k - 1) * N + j] = OneNode(ns[k])[j]
    <2> DEFINE i == (k - 1) * N + j
               q == k - 1
               r == j - 1
    <2> HIDE DEF N, L
    <2>1. q \in Nat /\ r \in 0..(N - 1) /\ N \in Nat \ {0} /\ L \in Nat
      BY <1>0
    <2>2. q * N + r \in Nat /\ (q * N + r) \div N = q /\ (q * N + r) % N = r
      <3> HIDE DEF q, r
      <3>1. QED
        BY <2>1, Position
    <2>3. q * N \in Nat /\ q * N + N <= L * N
      BY <2>1, WholeBytes
    <2>4. i - 1 = q * N + r /\ i \in 1..T
      <3>1. (k - 1) * N = q * N
        OBVIOUS
      <3> HIDE DEF q
      <3>2. i = q * N + j
        BY <3>1
      <3> HIDE DEF i
      <3>3. QED
        BY <1>2, <2>1, <2>3, <3>2
    <2>5. at(i) = OneNode(ns[k])[j]
      <3>1. ((i - 1) \div N) + 1 = q + 1 /\ ((i - 1) % N) + 1 = r + 1
        <4> HIDE DEF i, q, r
        <4>1. QED
          BY <2>2, <2>4
      <3>2. q + 1 = k /\ r + 1 = j
        OBVIOUS
      <3> HIDE DEF i, q, r
      <3>3. ((i - 1) \div N) + 1 = k /\ ((i - 1) % N) + 1 = j
        BY <3>1, <3>2, Zenon
      <3>4. QED
        BY <3>3, Zenon
    <2>6. s[i] = at(i)
      <3> HIDE DEF i, at, T
      <3>1. QED
        BY <1>1, <2>4
    <2>7. QED
      BY <2>5, <2>6, Zenon
  <1>7. QED
    BY <1>2, <1>5, <1>6 DEF s

\* The node at an offset of a byte string.
NodeAt(s, i) ==
  [id |-> SubSeq(s, i + 1, i + IdSize),
   address |-> Old!bytes_to_sockaddr(SubSeq(s, i + IdSize + 1, i + NodeSize))]

\* A byte string that is long enough has a node at an offset.
LEMMA NodeThere ==
  ASSUME NEW s \in Seq(ByteValues), NEW i \in Nat, i + NodeSize <= Len(s)
  PROVE  /\ SubSeq(s, i + 1, i + IdSize) \in ByteArray(IdSize)
         /\ \A j \in 1..IdSize : SubSeq(s, i + 1, i + IdSize)[j] = s[i + j]
         /\ SubSeq(s, i + IdSize + 1, i + NodeSize) \in ByteArray(AddrSize)
         /\ \A j \in 1..AddrSize : SubSeq(s, i + IdSize + 1, i + NodeSize)[j] = s[i + (IdSize + j)]
         /\ NodeAt(s, i) \in NodeContact
  <1> DEFINE id == SubSeq(s, i + 1, i + IdSize)
             t == SubSeq(s, i + IdSize + 1, i + NodeSize)
             o == i + IdSize
  <1>1. IdSize \in Nat /\ AddrSize \in Nat /\ NodeSize = IdSize + AddrSize /\ Len(s) \in Nat
    BY SizesOfNodes
  <1>2. o \in Nat /\ o + AddrSize <= Len(s) /\ i + IdSize <= Len(s) /\ i + NodeSize = o + AddrSize
    BY <1>1
  <1>3. id \in [1..IdSize -> ByteValues] /\ \A j \in 1..IdSize : id[j] = s[i + j]
    BY <1>1, <1>2, PartIs
  <1>4. t \in [1..AddrSize -> ByteValues] /\ \A j \in 1..AddrSize : t[j] = s[o + j]
    <2>1. t = SubSeq(s, o + 1, o + AddrSize)
      BY <1>2
    <2> HIDE DEF t, o
    <2>2. QED
      BY <1>1, <1>2, <2>1, PartIs
  <1>5. \A j \in 1..AddrSize : o + j = i + (IdSize + j)
    BY <1>1
  <1> HIDE DEF id, t, o
  <1>6. Old!bytes_to_sockaddr(t) \in Address
    BY <1>4, AddressRead DEF ByteArray
  <1>7. NodeAt(s, i) \in NodeContact
    BY <1>3, <1>6 DEF NodeAt, NodeContact, ByteArray, id, t
  <1>8. \A j \in 1..AddrSize : t[j] = s[i + (IdSize + j)]
    BY <1>4, <1>5
  <1>9. QED
    BY <1>3, <1>4, <1>7, <1>8, Zenon DEF ByteArray, id, t

\* What is read from the bytes of a list of nodes.
LEMMA NodesRead ==
  ASSUME NEW s \in Seq(ByteValues)
  PROVE  LET ns == Old!bytes_to_nodes4(s)
             n == Len(s) \div NodeSize
         IN /\ n \in Nat /\ ns = [k \in 1..n |-> NodeAt(s, (k - 1) * NodeSize)]
            /\ ns \in Seq(NodeContact) /\ Len(ns) = n
            /\ \A k \in 1..n : (k - 1) * NodeSize \in Nat /\ (k - 1) * NodeSize + NodeSize <= Len(s)
  <1> DEFINE N == NodeSize
             T == Len(s)
             n == T \div N
             ns == Old!bytes_to_nodes4(s)
             at(k) == NodeAt(s, (k - 1) * N)
  <1>0. N \in Nat \ {0} /\ T \in Nat
    BY SizesOfNodes
  <1>1. ns = [k \in 1..n |-> at(k)]
    BY SizesOfNodes, Zenon DEF Old!bytes_to_nodes4, NodeAt
  <1>2. n \in Nat /\ n * N <= T
    <2> HIDE DEF N, T
    <2>1. T = N * (T \div N) + (T % N) /\ T \div N \in Nat
      BY <1>0
    <2>2. T % N \in 0..(N - 1)
      BY <1>0
    <2>3. n * N = N * n /\ N * n \in Nat
      BY <1>0, <2>1
    <2> HIDE DEF n
    <2>4. T = N * n + (T % N)
      BY <2>1 DEF n
    <2>5. QED
      BY <1>0, <2>1, <2>2, <2>3, <2>4 DEF n
  <1> HIDE DEF n, ns
  <1>3. ASSUME NEW k \in 1..n
        PROVE  (k - 1) * N \in Nat /\ (k - 1) * N + N <= T /\ at(k) \in NodeContact
    <2>1. (k - 1) * N \in Nat /\ (k - 1) * N + N <= n * N /\ n * N \in Nat
      <3> HIDE DEF N, T
      <3>1. k \in Nat /\ n * N \in Nat
        BY <1>0, <1>2
      <3>2. QED
        BY <1>0, <1>2, <3>1, WholeBytes
    <2> DEFINE i == (k - 1) * N
    <2>2. i \in Nat /\ i + N <= T
      <3> HIDE DEF i, N, T
      <3>1. i + N <= n * N /\ i \in Nat /\ n * N \in Nat
        BY <2>1 DEF i
      <3>2. QED
        BY <1>0, <1>2, <3>1
    <2>3. NodeAt(s, i) \in NodeContact
      <3> HIDE DEF i
      <3>1. QED
        BY <2>2, NodeThere
    <2>4. QED
      BY <2>2, <2>3, Zenon
  <1>4. ns \in [1..n -> NodeContact]
    <2> HIDE DEF at
    <2>1. QED
      BY <1>1, <1>3
  <1>5. ns \in Seq(NodeContact) /\ Len(ns) = n
    BY <1>2, <1>4, ArrayIs
  <1>6. QED
    BY <1>1, <1>2, <1>3, <1>5, Zenon DEF n, ns

\* Nodes survive nodes4_to_bytes and bytes_to_nodes4, in their order.
LEMMA NodesRoundTrip ==
  ASSUME NEW ns \in Seq(NodeContact)
  PROVE  /\ Old!bytes_to_nodes4(Old!nodes4_to_bytes(ns)) = ns
         /\ Len(Old!nodes4_to_bytes(ns)) % NodeSize = 0
  <1> DEFINE s == Old!nodes4_to_bytes(ns)
             N == NodeSize
             L == Len(ns)
             back == Old!bytes_to_nodes4(s)
  <1>0. N \in Nat \ {0} /\ L \in Nat /\ (\A k \in 1..L : ns[k] \in NodeContact) /\ ns \in [1..L -> NodeContact]
    BY SizesOfNodes
  <1>1. /\ s \in Seq(ByteValues) /\ Len(s) = L * N /\ Len(s) \in Nat
        /\ \A k \in 1..L, j \in 1..N : s[(k - 1) * N + j] = OneNode(ns[k])[j]
    BY NodesBytes
  <1> HIDE DEF s
  <1>2. Len(s) \div N = L /\ Len(s) % N = 0
    <2> HIDE DEF N, L
    <2>1. 0 \in 0..(N - 1) /\ L * N + 0 = L * N
      BY <1>0
    <2>2. (L * N + 0) \div N = L /\ (L * N + 0) % N = 0
      BY <1>0, <2>1, Position
    <2>3. QED
      BY <1>1, <2>1, <2>2
  <1>3. /\ back = [k \in 1..L |-> NodeAt(s, (k - 1) * N)] /\ back \in Seq(NodeContact) /\ Len(back) = L
        /\ \A k \in 1..L : (k - 1) * N \in Nat /\ (k - 1) * N + N <= Len(s)
    BY <1>1, <1>2, NodesRead
  <1>4. ASSUME NEW k \in 1..L PROVE NodeAt(s, (k - 1) * N) = ns[k]
    <2> DEFINE i == (k - 1) * N
               c == ns[k]
               id == SubSeq(s, i + 1, i + IdSize)
               t == SubSeq(s, i + IdSize + 1, i + NodeSize)
               u == Old!sockaddr_to_bytes(c.address)
    <2>1. i \in Nat /\ i + N <= Len(s) /\ \A j \in 1..N : s[i + j] = OneNode(c)[j]
      BY <1>1, <1>3
    <2>2. c \in NodeContact
      BY <1>0
    <2> HIDE DEF i, c
    <2>3. /\ id \in ByteArray(IdSize) /\ \A j \in 1..IdSize : id[j] = s[i + j]
          /\ t \in ByteArray(AddrSize) /\ \A j \in 1..AddrSize : t[j] = s[i + (IdSize + j)]
      BY <1>1, <2>1, NodeThere
    <2>4. /\ \A j \in 1..IdSize : OneNode(c)[j] = c.id[j]
          /\ \A j \in 1..AddrSize : OneNode(c)[IdSize + j] = u[j]
      BY <2>2, NodeBytes
    <2>5. c.id \in ByteArray(IdSize) /\ c.address \in Address /\ c = [id |-> c.id, address |-> c.address]
      BY <2>2 DEF NodeContact
    <2>6. u \in ByteArray(AddrSize)
      BY <2>5, AddressBytes
    <2>7. NodeAt(s, i) = [id |-> id, address |-> Old!bytes_to_sockaddr(t)]
      BY DEF NodeAt
    <2> HIDE DEF id, t, u
    <2>8. (\A j \in 1..IdSize : j \in 1..N) /\ \A j \in 1..AddrSize : IdSize + j \in 1..N
      BY SizesOfNodes
    <2>9. id = c.id
      <3>1. \A j \in 1..IdSize : id[j] = c.id[j]
        BY <2>1, <2>3, <2>4, <2>8, Zenon
      <3>2. QED
        BY <2>3, <2>5, <3>1, SameByteArrays, Zenon
    <2>10. t = u
      <3>1. \A j \in 1..AddrSize : t[j] = u[j]
        BY <2>1, <2>3, <2>4, <2>8, Zenon
      <3>2. QED
        BY <2>3, <2>6, <3>1, SameByteArrays, Zenon
    <2>11. Old!bytes_to_sockaddr(t) = c.address
      <3>1. Old!bytes_to_sockaddr(u) = c.address
        BY <2>5, AddressRoundTrip DEF u
      <3>2. QED
        BY <2>10, <3>1, Zenon
    <2>12. QED
      BY <2>5, <2>7, <2>9, <2>11, Zenon DEF i, c
  <1>5. \A k \in 1..L : back[k] = ns[k]
    BY <1>3, <1>4
  <1>6. back \in [1..L -> NodeContact]
    BY <1>0, <1>3, ArrayIs
  <1>7. back = ns
    BY <1>0, <1>5, <1>6, SameArrays
  <1>8. QED
    BY <1>2, <1>7 DEF s

\* mainline-next puts addresses and nodes into the same bytes, and takes them
\* out of the same places.
LEMMA SameBytesWritten ==
  /\ \A a : New!AddressToBytes(a) = Old!sockaddr_to_bytes(a)
  /\ \A s : New!AddressFromBytes(s) = Old!bytes_to_sockaddr(s)
  /\ \A ns : New!NodesToBytes(ns) = Old!nodes4_to_bytes(ns)
  <1>1. \A a : New!AddressToBytes(a) = Old!sockaddr_to_bytes(a)
    BY DEF New!AddressToBytes, Old!sockaddr_to_bytes
  <1>2. \A s : New!AddressFromBytes(s) = Old!bytes_to_sockaddr(s)
    BY DEF New!AddressFromBytes, Old!bytes_to_sockaddr
  <1>3. ASSUME NEW ns PROVE New!NodesToBytes(ns) = Old!nodes4_to_bytes(ns)
    <2>1. New!ContactBytes = Old!NodeByteSize
      BY SizesOfNodes
    <2>2. QED
      BY <1>1, <2>1, Zenon DEF New!NodesToBytes, Old!nodes4_to_bytes
  <1>4. QED
    BY <1>1, <1>2, <1>3

\* CompactNodes of mainline-next reads the nodes that bytes_to_nodes4 reads.
LEMMA SameNodesRead ==
  ASSUME NEW s \in Seq(ByteValues)
  PROVE  New!NodesFromBytes(s) = Old!bytes_to_nodes4(s)
  <1> DEFINE N == NodeSize
             n == Len(s) \div N
             mine(k) == LET contact_ == SubSeq(s, (k - 1) * N + 1, k * N)
                        IN [id |-> SubSeq(contact_, 1, IdSize),
                            address |-> New!AddressFromBytes(SubSeq(contact_, IdSize + 1, N))]
             theirs(k) == NodeAt(s, (k - 1) * N)
  <1>1. New!NodesFromBytes(s) = [k \in 1..n |-> mine(k)]
    BY SizesOfNodes, Zenon DEF New!NodesFromBytes
  <1>2. /\ Old!bytes_to_nodes4(s) = [k \in 1..n |-> theirs(k)] /\ n \in Nat
        /\ \A k \in 1..n : (k - 1) * N \in Nat /\ (k - 1) * N + N <= Len(s)
    BY NodesRead
  <1>3. ASSUME NEW k \in 1..n PROVE mine(k) = theirs(k)
    <2> DEFINE i == (k - 1) * N
               c == SubSeq(s, i + 1, i + N)
               id == SubSeq(s, i + 1, i + IdSize)
               t == SubSeq(s, i + IdSize + 1, i + N)
               id2 == SubSeq(c, 1, IdSize)
               t2 == SubSeq(c, IdSize + 1, N)
    <2>1. i \in Nat /\ i + N <= Len(s)
      BY <1>2
    <2>2. k * N = i + N
      <3>1. k \in Nat /\ N \in Nat
        BY <1>2, SizesOfNodes
      <3> HIDE DEF N, n
      <3>2. QED
        BY <3>1
    <2>3. mine(k) = [id |-> id2, address |-> Old!bytes_to_sockaddr(t2)]
      <3> HIDE DEF i
      <3>1. SubSeq(s, (k - 1) * N + 1, k * N) = c
        BY <2>2, Zenon DEF i
      <3> HIDE DEF c
      <3>2. QED
        BY <3>1, SameBytesWritten, Zenon
    <2>4. theirs(k) = [id |-> id, address |-> Old!bytes_to_sockaddr(t)]
      BY Zenon DEF NodeAt
    <2> HIDE DEF i, mine, theirs
    <2>5. IdSize \in Nat /\ AddrSize \in Nat /\ N = IdSize + AddrSize /\ N \in Nat
      BY SizesOfNodes
    <2>6. /\ id \in [1..IdSize -> ByteValues] /\ \A j \in 1..IdSize : id[j] = s[i + j]
          /\ t \in [1..AddrSize -> ByteValues] /\ \A j \in 1..AddrSize : t[j] = s[i + (IdSize + j)]
      BY <2>1, NodeThere DEF ByteArray
    <2>7. c \in [1..N -> ByteValues] /\ \A j \in 1..N : c[j] = s[i + j]
      <3> HIDE DEF N
      <3>1. QED
        BY <2>1, <2>5, PartIs
    <2> HIDE DEF c, id, t
    <2>8. c \in Seq(ByteValues) /\ Len(c) = N
      <3> HIDE DEF N
      <3>1. QED
        BY <2>5, <2>7, ArrayIs
    <2>9. id2 \in [1..IdSize -> ByteValues] /\ \A j \in 1..IdSize : id2[j] = c[j]
      <3>1. 0 + IdSize <= Len(c) /\ 0 \in Nat
        BY <2>5, <2>8
      <3>2. SubSeq(c, 0 + 1, 0 + IdSize) \in [1..IdSize -> ByteValues]
            /\ \A j \in 1..IdSize : SubSeq(c, 0 + 1, 0 + IdSize)[j] = c[0 + j]
        BY <2>5, <2>8, <3>1, PartIs
      <3>3. 0 + 1 = 1 /\ 0 + IdSize = IdSize /\ \A j \in 1..IdSize : 0 + j = j
        BY <2>5
      <3>4. QED
        BY <3>2, <3>3
    <2>10. t2 \in [1..AddrSize -> ByteValues] /\ \A j \in 1..AddrSize : t2[j] = c[IdSize + j]
      <3>1. IdSize + AddrSize <= Len(c) /\ N = IdSize + AddrSize
        BY <2>5, <2>8
      <3>2. SubSeq(c, IdSize + 1, IdSize + AddrSize) \in [1..AddrSize -> ByteValues]
            /\ \A j \in 1..AddrSize : SubSeq(c, IdSize + 1, IdSize + AddrSize)[j] = c[IdSize + j]
        BY <2>5, <2>8, <3>1, PartIs
      <3>3. QED
        BY <3>1, <3>2
    <2>11. (\A j \in 1..IdSize : j \in 1..N) /\ \A j \in 1..AddrSize : IdSize + j \in 1..N
      BY <2>5
    <2> HIDE DEF id2, t2
    <2>12. id2 = id
      <3>1. \A j \in 1..IdSize : id2[j] = id[j]
        BY <2>6, <2>7, <2>9, <2>11, Zenon
      <3>2. id2 \in ByteArray(IdSize) /\ id \in ByteArray(IdSize)
        BY <2>6, <2>9, Zenon DEF ByteArray
      <3>3. QED
        BY <3>1, <3>2, SameByteArrays, Zenon
    <2>13. t2 = t
      <3>1. \A j \in 1..AddrSize : t2[j] = t[j]
        BY <2>6, <2>7, <2>10, <2>11, Zenon
      <3>2. t2 \in ByteArray(AddrSize) /\ t \in ByteArray(AddrSize)
        BY <2>6, <2>10, Zenon DEF ByteArray
      <3>3. QED
        BY <3>1, <3>2, SameByteArrays, Zenon
    <2>14. QED
      BY <2>3, <2>4, <2>12, <2>13, Zenon
  <1> HIDE DEF mine, theirs, n
  <1>4. [k \in 1..n |-> mine(k)] = [k \in 1..n |-> theirs(k)]
    BY <1>3
  <1>5. QED
    BY <1>1, <1>2, <1>4, Zenon

-----------------------------------------------------------------------------
(* Dictionaries and structs.                                                 *)

\* A dictionary over S with values from V.
IsDict(d, S, V) == d = [g \in S |-> d[g]] /\ \A g \in S : d[g] \in V[g]

\* A finite set without one of its members is smaller.
LEMMA OneLess ==
  ASSUME NEW S, IsFiniteSet(S), NEW x \in S
  PROVE  /\ IsFiniteSet(S \ {x}) /\ Cardinality(S) \in Nat /\ Cardinality(S \ {x}) \in Nat
         /\ Cardinality(S \ {x}) < Cardinality(S)
  <1>1. IsFiniteSet(S \ {x}) /\ Cardinality(S \ {x}) = Cardinality(S) - 1
    BY FS_RemoveElement
  <1>2. QED
    BY <1>1, FS_CardinalityType

\* All dictionaries over S, as a set of functions.
AllDicts(S, V) == {d \in [S -> UNION {V[g] : g \in S}] : \A g \in S : d[g] \in V[g]}

\* One more field f, whatever the other dictionaries hold.
WithField(S, f, Ds, V) == {[g \in S |-> IF g = f THEN x ELSE d[g]] : d \in Ds, x \in V[f]}

\* They are built one field at a time.
LEMMA OneMoreField ==
  ASSUME NEW S, NEW V, NEW f \in S
  PROVE  AllDicts(S, V) = WithField(S, f, AllDicts(S \ {f}, V), V)
  <1> DEFINE R == S \ {f}
             with(d, x) == [g \in S |-> IF g = f THEN x ELSE d[g]]
  <1>1. ASSUME NEW e \in AllDicts(S, V)
        PROVE  \E d \in AllDicts(R, V), x \in V[f] : e = with(d, x)
    <2> DEFINE d == [g \in R |-> e[g]]
    <2>1. e = [g \in S |-> e[g]] /\ \A g \in S : e[g] \in V[g]
      BY DEF AllDicts
    <2>2. \A g \in R : e[g] \in V[g] /\ V[g] \in {V[h] : h \in R}
      BY <2>1
    <2>3. d \in AllDicts(R, V)
      BY <2>2 DEF AllDicts
    <2>4. \A g \in S : e[g] = IF g = f THEN e[f] ELSE d[g]
      OBVIOUS
    <2> HIDE DEF d
    <2>5. e = with(d, e[f])
      BY <2>1, <2>4
    <2>6. QED
      BY <2>1, <2>3, <2>5
  <1>2. ASSUME NEW d \in AllDicts(R, V), NEW x \in V[f]
        PROVE  with(d, x) \in AllDicts(S, V)
    <2> DEFINE e == with(d, x)
    <2>1. \A g \in R : d[g] \in V[g]
      BY DEF AllDicts
    <2>2. \A g \in S : e[g] \in V[g]
      BY <2>1
    <2>3. \A g \in S : V[g] \in {V[h] : h \in S}
      OBVIOUS
    <2>4. e = [g \in S |-> e[g]]
      OBVIOUS
    <2> HIDE DEF e
    <2>5. \A g \in S : e[g] \in UNION {V[h] : h \in S}
      BY <2>2, <2>3
    <2>6. e \in [S -> UNION {V[h] : h \in S}]
      BY <2>4, <2>5
    <2>7. e \in AllDicts(S, V)
      BY <2>2, <2>6 DEF AllDicts
    <2>8. QED
      BY <2>7 DEF e
  <1> HIDE DEF with
  <1>3. \A e : e \in AllDicts(S, V) <=> \E d \in AllDicts(R, V), x \in V[f] : e = with(d, x)
    BY <1>1, <1>2
  <1>4. AllDicts(S, V) = {with(d, x) : d \in AllDicts(R, V), x \in V[f]}
    BY <1>3
  <1>5. QED
    BY <1>4 DEF with, WithField

\* Dicts gives dictionaries: the keys D, each with one of its values.
LEMMA DictsAre ==
  ASSUME NEW D, IsFiniteSet(D), NEW V, NEW d \in Dicts(D, V)
  PROVE  IsDict(d, D, V)
  <1> DEFINE more(h, S, f) == WithField(S, f, h[S \ {f}], V)
             step(h, S) == IF S = {} THEN {<<>>} ELSE LET f == CHOOSE g \in S : TRUE IN more(h, S, f)
             Body(h) == [S \in SUBSET D |-> step(h, S)]
             F == CHOOSE h : h = Body(h)
             r == [S \in SUBSET D |-> AllDicts(S, V)]
  <1>0. AllDicts({}, V) = {<<>>}
    <2>1. \A e : e \in AllDicts({}, V) => e = <<>>
      BY DEF AllDicts
    <2>2. <<>> \in AllDicts({}, V)
      BY DEF AllDicts
    <2>3. QED
      BY <2>1, <2>2
  <1>1. r = Body(r)
    <2>0. \A S \in SUBSET D : r[S] = AllDicts(S, V)
      OBVIOUS
    <2>1. ASSUME NEW S \in SUBSET D PROVE r[S] = Body(r)[S]
      <3> HIDE DEF r
      <3>0. Body(r)[S] = step(r, S)
        <4> HIDE DEF step
        <4>1. QED
          OBVIOUS
      <3> HIDE DEF Body
      <3>1. CASE S = {}
        <4>1. step(r, S) = {<<>>}
          <5> HIDE DEF more
          <5>1. QED
            BY <3>1
        <4> HIDE DEF step
        <4>2. QED
          BY <1>0, <2>0, <3>0, <3>1, <4>1
      <3>2. CASE S # {}
        <4> DEFINE f == CHOOSE g \in S : TRUE
        <4>1. f \in S
          BY <3>2
        <4>2. step(r, S) = more(r, S, f)
          <5> HIDE DEF more
          <5>1. QED
            BY <3>2
        <4> HIDE DEF f, step
        <4>3. r[S \ {f}] = AllDicts(S \ {f}, V) /\ r[S] = AllDicts(S, V)
          <5>1. S \ {f} \in SUBSET D
            OBVIOUS
          <5>2. QED
            BY <2>0, <5>1, Zenon
        <4>4. AllDicts(S, V) = WithField(S, f, AllDicts(S \ {f}, V), V)
          BY <4>1, OneMoreField
        <4>5. QED
          BY <3>0, <4>2, <4>3, <4>4, Zenon
      <3>3. QED
        BY <3>1, <3>2
    <2>2. r = [S \in SUBSET D |-> r[S]] /\ Body(r) = [S \in SUBSET D |-> Body(r)[S]]
      OBVIOUS
    <2> HIDE DEF Body, r
    <2>3. QED
      BY <2>1, <2>2
  <1>2. F = Body(F)
    <2> HIDE DEF Body, r
    <2>1. QED
      BY <1>1
  <1>3. Dicts(D, V) = F[D]
    BY DEF Dicts, WithField
  <1>31. \A S \in SUBSET D : F[S] = step(F, S)
    <2> DEFINE G == Body(F)
    <2>1. \A S \in SUBSET D : G[S] = step(F, S)
      <3> HIDE DEF step, F
      <3>1. QED
        OBVIOUS
    <2>2. F = G
      BY <1>2
    <2> HIDE DEF F, G, step
    <2>3. QED
      BY <2>1, <2>2
  <1> HIDE DEF F, Body
  <1> DEFINE Good(S) == \A e \in F[S] : IsDict(e, S, V)
             Bad == {n \in Nat : \E S \in SUBSET D : Cardinality(S) = n /\ ~ Good(S)}
  <1> SUFFICES ASSUME ~ Good(D) PROVE FALSE
    BY <1>3
  <1> HIDE DEF Good
  <1>4. Cardinality(D) \in Bad
    BY FS_CardinalityType
  <1>5. Bad \in SUBSET Nat /\ Bad # {}
    BY <1>4
  <1>6. PICK n \in Bad : \A m \in Bad : n <= m
    BY <1>5, LeastNat
  <1>7. PICK S \in SUBSET D : Cardinality(S) = n /\ ~ Good(S)
    BY <1>6
  <1>8. IsFiniteSet(S)
    BY FS_Subset
  <1>9. CASE S = {}
    <2>1. F[S] = {<<>>}
      <3>2. step(F, S) = {<<>>}
        <4> HIDE DEF more
        <4>1. QED
          BY <1>9
      <3> HIDE DEF step
      <3>3. QED
        BY <1>31, <3>2
    <2>2. IsDict(<<>>, S, V)
      BY <1>9 DEF IsDict
    <2>3. QED
      BY <1>7, <2>1, <2>2 DEF Good
  <1>10. CASE S # {}
    <2> DEFINE f == CHOOSE g \in S : TRUE
    <2>1. f \in S
      BY <1>10
    <2>3. F[S] = more(F, S, f)
      <3>1. step(F, S) = more(F, S, f)
        <4> HIDE DEF more
        <4>1. QED
          BY <1>10
      <3> HIDE DEF step
      <3>2. QED
        BY <1>31, <3>1, Zenon
    <2> HIDE DEF f
    <2>4. Good(S \ {f})
      <3>1. S \ {f} \in SUBSET D /\ Cardinality(S \ {f}) \in Nat /\ ~ (n <= Cardinality(S \ {f}))
        BY <1>7, <1>8, <2>1, OneLess, SMTT(30)
      <3>2. Cardinality(S \ {f}) \notin Bad
        BY <1>6, <3>1
      <3>3. QED
        BY <3>1, <3>2
    <2>5. ASSUME NEW e \in F[S \ {f}], NEW x \in V[f]
          PROVE  IsDict([g \in S |-> IF g = f THEN x ELSE e[g]], S, V)
      <3>1. \A g \in S \ {f} : e[g] \in V[g]
        BY <2>4, <2>5 DEF Good, IsDict
      <3>2. QED
        BY <2>1, <2>5, <3>1 DEF IsDict
    <2>6. Good(S)
      <3>1. \A d2 \in F[S] : \E e \in F[S \ {f}], x \in V[f] : d2 = [g \in S |-> IF g = f THEN x ELSE e[g]]
        <4> DEFINE Ds == F[S \ {f}]
        <4>1. F[S] = WithField(S, f, Ds, V)
          BY <2>3
        <4> HIDE DEF Ds
        <4>2. \A d2 \in WithField(S, f, Ds, V) :
                \E e \in Ds, x \in V[f] : d2 = [g \in S |-> IF g = f THEN x ELSE e[g]]
          BY DEF WithField
        <4>3. QED
          BY <4>1, <4>2, ZenonT(60) DEF Ds
      <3>2. QED
        BY <2>5, <3>1, ZenonT(60) DEF Good
    <2>7. QED
      BY <1>7, <2>6
  <1>11. QED
    BY <1>9, <1>10

\* A struct has its fields, and none but its own.
LEMMA StructsAre ==
  ASSUME NEW shape, IsFiniteSet(shape.required), IsFiniteSet(shape.optional), NEW V,
         NEW d \in Structs(shape, V)
  PROVE  /\ shape.required \subseteq DOMAIN d /\ DOMAIN d \subseteq shape.required \cup shape.optional
         /\ d = [f \in DOMAIN d |-> d[f]] /\ \A f \in DOMAIN d : d[f] \in V[f]
  <1>1. PICK S \in SUBSET shape.optional : d \in Dicts(shape.required \cup S, V)
    BY DEF Structs
  <1>2. IsFiniteSet(shape.required \cup S)
    BY FS_Subset, FS_Union
  <1>3. IsDict(d, shape.required \cup S, V)
    BY <1>1, <1>2, DictsAre
  <1>4. DOMAIN d = shape.required \cup S
    BY <1>3 DEF IsDict
  <1>5. QED
    BY <1>3, <1>4 DEF IsDict

-----------------------------------------------------------------------------
(* Fields, written and read.                                                 *)

\* The three kinds of bencoded values are told apart, and each holds what it was
\* made of, in both codecs.
LEMMA Constructors ==
  /\ \A s : /\ IsBytes(Bytes(s)) /\ ~ IsInt(Bytes(s)) /\ ~ IsList(Bytes(s)) /\ Bytes(s).bytes = s
            /\ Old!IsBytes(Bytes(s)) /\ New!IsBytes(Bytes(s)) /\ ~ Old!IsList(Bytes(s))
            /\ Old!Bytes(s) = Bytes(s) /\ New!Bytes(s) = Bytes(s)
  /\ \A n : /\ IsInt(Num(n)) /\ ~ IsBytes(Num(n)) /\ ~ IsList(Num(n)) /\ Num(n).int = n
            /\ Old!IsInt(Num(n)) /\ New!IsInt(Num(n)) /\ ~ Old!IsBytes(Num(n)) /\ ~ Old!IsList(Num(n))
            /\ Old!Num(n) = Num(n) /\ New!Num(n) = Num(n)
  /\ \A l : /\ IsList(List(l)) /\ ~ IsBytes(List(l)) /\ ~ IsInt(List(l)) /\ List(l).list = l
            /\ Old!IsList(List(l)) /\ New!IsList(List(l)) /\ ~ Old!IsBytes(List(l))
            /\ Old!List(l) = List(l) /\ New!List(l) = List(l)
  <1>1. /\ \A s : IsBytes(Bytes(s)) /\ ~ IsInt(Bytes(s)) /\ ~ IsList(Bytes(s)) /\ Bytes(s).bytes = s
        /\ \A n : IsInt(Num(n)) /\ ~ IsBytes(Num(n)) /\ ~ IsList(Num(n)) /\ Num(n).int = n
        /\ \A l : IsList(List(l)) /\ ~ IsBytes(List(l)) /\ ~ IsInt(List(l)) /\ List(l).list = l
    BY DEF Bytes, Num, List, IsBytes, IsInt, IsList
  <1>2. \A x : /\ (Old!IsBytes(x) <=> IsBytes(x)) /\ (New!IsBytes(x) <=> IsBytes(x))
               /\ (Old!IsInt(x) <=> IsInt(x)) /\ (New!IsInt(x) <=> IsInt(x))
               /\ (Old!IsList(x) <=> IsList(x)) /\ (New!IsList(x) <=> IsList(x))
               /\ Old!Bytes(x) = Bytes(x) /\ New!Bytes(x) = Bytes(x)
               /\ Old!Num(x) = Num(x) /\ New!Num(x) = Num(x)
               /\ Old!List(x) = List(x) /\ New!List(x) = List(x)
    BY DEF Old!IsBytes, New!IsBytes, IsBytes, Old!IsInt, New!IsInt, IsInt, Old!IsList, New!IsList, IsList,
           Old!Bytes, New!Bytes, Bytes, Old!Num, New!Num, Num, Old!List, New!List, List
  <1>3. QED
    BY <1>1, <1>2, Zenon

\* The kinds of a value exclude each other.
LEMMA OneKind ==
  ASSUME NEW x
  PROVE  /\ IsBytes(x) => ~ IsInt(x) /\ ~ IsList(x)
         /\ IsInt(x) => ~ IsList(x)
         /\ (Old!IsBytes(x) <=> IsBytes(x)) /\ (New!IsBytes(x) <=> IsBytes(x))
         /\ (Old!IsInt(x) <=> IsInt(x)) /\ (New!IsInt(x) <=> IsInt(x))
         /\ (Old!IsList(x) <=> IsList(x)) /\ (New!IsList(x) <=> IsList(x))
  <1>1. /\ IsBytes(x) => ~ IsInt(x) /\ ~ IsList(x)
        /\ IsInt(x) => ~ IsList(x)
    BY DEF IsBytes, IsInt, IsList
  <1>2. /\ (Old!IsBytes(x) <=> IsBytes(x)) /\ (New!IsBytes(x) <=> IsBytes(x))
        /\ (Old!IsInt(x) <=> IsInt(x)) /\ (New!IsInt(x) <=> IsInt(x))
        /\ (Old!IsList(x) <=> IsList(x)) /\ (New!IsList(x) <=> IsList(x))
    BY DEF Old!IsBytes, New!IsBytes, IsBytes, Old!IsInt, New!IsInt, IsInt, Old!IsList, New!IsList, IsList
  <1>3. QED
    BY <1>1, <1>2

\* Fields that are ids, and all the fields of a fixed length.
IdFields == {"id", "target", "info_hash"}
FixedFields == IdFields \cup {"k", "sig"}

\* What the structs of both crates hold in a field.
BothHold(f, x) ==
  /\ f \in FixedFields => x \in ByteArray(Old!FixedSize(f))
  /\ f \in {"token", "salt"} => x \in Seq(ByteValues)
  /\ f \in {"seq", "cas"} => x \in Int
  /\ f = "port" => x \in 0..(ByteBase * ByteBase - 1)
  /\ f = "nodes" => x \in Seq(NodeContact)
  /\ f = "values" => x \in Seq(Address)

\* What a field of a struct of messages.rs holds.
OldHolds(f, x) ==
  /\ BothHold(f, x)
  /\ f = "v" => x \in Seq(ByteValues)
  /\ f = "implied_port" => x \in {0, 1}

\* What a field of a struct of mainline-next holds.
NewHolds(f, x) ==
  /\ BothHold(f, x)
  /\ f = "v" => IsValue(x)
  /\ f = "implied_port" => x \in BOOLEAN

\* The field values of the model have the types of the structs.
LEMMA TypedFields ==
  ASSUME NEW V, Typed(V), NEW f \in ArgumentFields, NEW x \in V[f]
  PROVE  BothHold(f, x)
  <1>1. ASSUME f \in IdFields PROVE x \in ByteArray(Old!FixedSize(f))
    <2>1. Old!FixedSize(f) = IdSize
      BY <1>1 DEF Old!FixedSize, IdFields
    <2>2. V[f] \subseteq ByteArray(IdSize)
      BY <1>1 DEF Typed, IdFields
    <2>3. QED
      BY <2>1, <2>2
  <1>2. ASSUME f \in {"k", "sig"} PROVE x \in ByteArray(Old!FixedSize(f))
    <2>1. f = "k" => Old!FixedSize(f) = KeySize
      BY DEF Old!FixedSize
    <2>2. f = "sig" => Old!FixedSize(f) = SigSize
      BY DEF Old!FixedSize
    <2>3. V["k"] \subseteq ByteArray(KeySize) /\ V["sig"] \subseteq ByteArray(SigSize)
      BY DEF Typed
    <2>4. CASE f = "k"
      BY <2>1, <2>3, <2>4
    <2>5. CASE f = "sig"
      BY <2>2, <2>3, <2>5
    <2>6. QED
      BY <1>2, <2>4, <2>5
  <1>3. f \in {"token", "salt"} => x \in Seq(ByteValues)
    BY Zenon DEF Typed
  <1>4. f \in {"seq", "cas"} => x \in Int
    BY Zenon DEF Typed
  <1>5. f = "port" => x \in 0..(ByteBase * ByteBase - 1)
    BY Zenon DEF Typed
  <1>6. f = "nodes" => x \in Seq(NodeContact)
    BY Zenon DEF Typed
  <1>7. f = "values" => x \in Seq(Address)
    BY Zenon DEF Typed
  <1>8. QED
    BY <1>1, <1>2, <1>3, <1>4, <1>5, <1>6, <1>7, Zenon DEF BothHold, FixedFields

\* What the model puts in the structs of messages.rs is what they hold.
LEMMA OldTypes ==
  ASSUME NEW f \in ArgumentFields, NEW x \in OldValues[f] PROVE OldHolds(f, x)
  <1>1. BothHold(f, x)
    BY ValuesAssumption, TypedFields
  <1>2. QED
    BY <1>1, ValuesAssumption, Zenon DEF OldHolds

\* What the model puts in the structs of mainline-next is what they hold.
LEMMA NewTypes ==
  ASSUME NEW f \in ArgumentFields, NEW x \in NewValues[f] PROVE NewHolds(f, x)
  <1>1. BothHold(f, x)
    BY ValuesAssumption, TypedFields
  <1>2. QED
    BY <1>1, ValuesAssumption, Zenon DEF NewHolds

\* What the mainline crate hands on of a field it has read, and what must be
\* whole for that.
OldTaken(f, x) ==
  IF f = "nodes" THEN Old!bytes_to_nodes4(x)
  ELSE IF f = "values" THEN [i \in DOMAIN x |-> Old!bytes_to_sockaddr(x[i])] ELSE x

\* Nodes and peers of whole lengths, which from_serde_message insists on.
OldWhole(f, x) ==
  /\ f = "nodes" => Old!WholeNodes(x)
  /\ f = "values" => Old!WholePeers(x)

\* A field of the mainline crate as mainline-next holds it.
OneTranslated(f, x) == IF f = "implied_port" THEN x # 0 ELSE IF f = "v" THEN Bytes(x) ELSE x

\* A byte string is a bencoded value and is read as the bytes it has.
LEMMA ByteString ==
  ASSUME NEW s \in Seq(ByteValues)
  PROVE  /\ IsValue(Bytes(s)) /\ IsScalar(Bytes(s)) /\ Old!ReadsAsBytes(Bytes(s)) /\ Old!AsBytes(Bytes(s)) = s
  <1>1. IsBytes(Bytes(s)) /\ Bytes(s).bytes = s /\ Old!IsBytes(Bytes(s))
    BY Constructors
  <1>2. IsScalar(Bytes(s))
    BY <1>1, Zenon DEF IsScalar
  <1>3. QED
    BY <1>1, <1>2, Zenon DEF IsValue, Old!ReadsAsBytes, Old!AsBytes

\* An integer is a bencoded value.
LEMMA Number ==
  ASSUME NEW n \in Int
  PROVE  IsValue(Num(n)) /\ IsInt(Num(n)) /\ Num(n).int = n /\ Old!IsInt(Num(n)) /\ New!IsInt(Num(n))
  <1>1. IsInt(Num(n)) /\ Num(n).int = n /\ Old!IsInt(Num(n)) /\ New!IsInt(Num(n))
    BY Constructors
  <1>2. QED
    BY <1>1, Zenon DEF IsScalar, IsValue

\* A field as the mainline crate writes it, and as both crates read it again.
Survives(f, x) ==
  LET w == Old!Write(f, x)
  IN /\ IsValue(w)
     /\ Old!Reads(f, w) /\ OldWhole(f, Old!Read(f, w)) /\ OldTaken(f, Old!Read(f, w)) = x
     /\ New!Reads(f, w) /\ New!Read(f, w) = OneTranslated(f, x)

\* An id, a key or a signature survives being written and read.
LEMMA FixedSurvives ==
  ASSUME NEW f \in FixedFields, NEW x, OldHolds(f, x) PROVE Survives(f, x)
  <1> DEFINE n == Old!FixedSize(f)
  <1>0. n \in Nat
    <2>1. f \in IdFields => n = IdSize
      BY DEF Old!FixedSize, IdFields
    <2>2. f = "k" => n = KeySize
      BY DEF Old!FixedSize
    <2>3. f = "sig" => n = SigSize
      BY DEF Old!FixedSize
    <2>4. f \in IdFields \/ f = "k" \/ f = "sig"
      BY DEF FixedFields
    <2> HIDE DEF n
    <2>5. QED
      BY <2>1, <2>2, <2>3, <2>4, Sizes
  <1>1. x \in [1..n -> ByteValues]
    BY DEF OldHolds, BothHold, ByteArray
  <1> HIDE DEF n
  <1>2. x \in Seq(ByteValues) /\ Len(x) = n
    BY <1>0, <1>1, ArrayIs
  <1>3. f \in {"id", "target", "info_hash", "k", "sig"}
    BY DEF FixedFields, IdFields
  <1>4. Old!Write(f, x) = Bytes(x)
    <2>1. Old!Write(f, x) = Old!Bytes(x)
      BY <1>3 DEF Old!Write, Old!ByteFields
    <2>2. QED
      BY <2>1, Constructors, Zenon
  <1> DEFINE w == Bytes(x)
  <1>5. IsValue(w) /\ Old!ReadsAsBytes(w) /\ Old!AsBytes(w) = x /\ New!IsBytes(w) /\ w.bytes = x
    BY <1>2, ByteString, Constructors
  <1> HIDE DEF w
  <1>6. Old!Reads(f, w)
    <2>1. Old!Reads(f, w) <=> Old!ReadsAsBytes(w) /\ Len(Old!AsBytes(w)) = Old!FixedSize(f)
      BY <1>3 DEF Old!Reads
    <2>2. QED
      BY <1>2, <1>5, <2>1, Zenon DEF n
  <1>7. Old!Read(f, w) = x
    BY <1>3, <1>5 DEF Old!Read, Old!ByteFields
  <1>8. New!Reads(f, w)
    <2>1. f \in IdFields => (New!Reads(f, w) <=> New!IsBytesOf(IdSize, w)) /\ n = IdSize
      BY DEF New!Reads, n, Old!FixedSize, IdFields
    <2>2. f = "k" => (New!Reads(f, w) <=> New!IsBytesOf(KeySize, w)) /\ n = KeySize
      BY DEF New!Reads, n, Old!FixedSize
    <2>3. f = "sig" => (New!Reads(f, w) <=> New!IsBytesOf(SigSize, w)) /\ n = SigSize
      BY DEF New!Reads, n, Old!FixedSize
    <2>4. New!IsBytesOf(n, w)
      BY <1>2, <1>5, Zenon DEF New!IsBytesOf
    <2>5. QED
      BY <2>1, <2>2, <2>3, <2>4, Zenon DEF FixedFields
  <1>9. New!Read(f, w) = w.bytes
    BY <1>3 DEF New!Read
  <1>10. OneTranslated(f, x) = x /\ OldTaken(f, x) = x /\ OldWhole(f, x)
    BY <1>3 DEF OneTranslated, OldTaken, OldWhole
  <1>11. QED
    BY <1>4, <1>5, <1>6, <1>7, <1>8, <1>9, <1>10, Zenon DEF Survives, w

\* A token, a salt or a value survives being written and read.
LEMMA BytesSurvive ==
  ASSUME NEW f \in {"token", "salt", "v"}, NEW x, OldHolds(f, x) PROVE Survives(f, x)
  <1>1. x \in Seq(ByteValues)
    BY DEF OldHolds, BothHold
  <1>2. Old!Write(f, x) = Bytes(x)
    <2>1. Old!Write(f, x) = Old!Bytes(x)
      BY DEF Old!Write, Old!ByteFields
    <2>2. QED
      BY <2>1, Constructors, Zenon
  <1> DEFINE w == Bytes(x)
  <1>3. IsValue(w) /\ Old!ReadsAsBytes(w) /\ Old!AsBytes(w) = x /\ New!IsBytes(w) /\ w.bytes = x
    BY <1>1, ByteString, Constructors
  <1> HIDE DEF w
  <1>4. Old!Reads(f, w) /\ Old!Read(f, w) = x
    BY <1>3 DEF Old!Reads, Old!Read, Old!ByteFields
  <1>5. New!Reads(f, w)
    BY <1>3 DEF New!Reads
  <1>6. New!Read(f, w) = OneTranslated(f, x)
    <2>1. CASE f = "v"
      BY <2>1 DEF New!Read, OneTranslated, w
    <2>2. CASE f # "v"
      BY <1>3, <2>2 DEF New!Read, OneTranslated
    <2>3. QED
      BY <2>1, <2>2
  <1>7. OldTaken(f, x) = x /\ OldWhole(f, x)
    BY DEF OldTaken, OldWhole
  <1>8. QED
    BY <1>2, <1>3, <1>4, <1>5, <1>6, <1>7, Zenon DEF Survives, w

\* A number survives being written and read, and a flag as the number it is.
LEMMA NumberSurvives ==
  ASSUME NEW f \in {"seq", "cas", "port", "implied_port"}, NEW x, OldHolds(f, x) PROVE Survives(f, x)
  <1>0. ByteBase \in Nat /\ ByteBase > 1 /\ ByteBase * ByteBase \in Nat
    BY Sizes
  <1>1. /\ x \in Int
        /\ f = "port" => x \in 0..(ByteBase * ByteBase - 1)
        /\ f = "implied_port" => x \in 0..(ByteBase - 1)
    BY <1>0 DEF OldHolds, BothHold
  <1>2. Old!Write(f, x) = Num(x)
    <2>1. Old!Write(f, x) = Old!Num(x)
      BY DEF Old!Write, Old!ByteFields
    <2>2. QED
      BY <2>1, Constructors, Zenon
  <1> DEFINE w == Num(x)
  <1>3. IsValue(w) /\ Old!IsInt(w) /\ New!IsInt(w) /\ w.int = x
    BY <1>1, Number
  <1> HIDE DEF w
  <1>4. Old!Reads(f, w) /\ Old!Read(f, w) = x
    <2>1. Old!Read(f, w) = x
      BY <1>3 DEF Old!Read, Old!ByteFields
    <2>2. CASE f \in {"seq", "cas"}
      <3>1. Old!Reads(f, w) <=> Old!IsInt(w)
        BY <2>2 DEF Old!Reads
      <3>2. QED
        BY <1>3, <2>1, <3>1
    <2>3. CASE f = "port"
      <3>1. Old!Reads(f, w) <=> Old!IsU16(w)
        BY <2>3 DEF Old!Reads
      <3>2. Old!IsU16(w)
        BY <1>1, <1>3, <2>3 DEF Old!IsU16
      <3>3. QED
        BY <2>1, <3>1, <3>2
    <2>4. CASE f = "implied_port"
      <3>1. Old!Reads(f, w) <=> Old!IsU8(w)
        BY <2>4 DEF Old!Reads
      <3>2. Old!IsU8(w)
        BY <1>1, <1>3, <2>4 DEF Old!IsU8
      <3>3. QED
        BY <2>1, <3>1, <3>2
    <2>5. QED
      BY <2>1, <2>2, <2>3, <2>4
  <1>5. New!Reads(f, w)
    <2>1. CASE f # "port"
      BY <1>3, <2>1 DEF New!Reads
    <2>2. CASE f = "port"
      BY <1>1, <1>3, <2>2 DEF New!Reads, New!IsU16, New!IsInt
    <2>3. QED
      BY <2>1, <2>2
  <1>6. New!Read(f, w) = OneTranslated(f, x)
    BY <1>3 DEF New!Read, New!WireBool, OneTranslated
  <1>7. OldTaken(f, x) = x /\ OldWhole(f, x)
    BY DEF OldTaken, OldWhole
  <1>8. QED
    BY <1>2, <1>3, <1>4, <1>5, <1>6, <1>7, Zenon DEF Survives, w

\* Compact nodes survive being written and read.
LEMMA NodesSurvive ==
  ASSUME NEW x, OldHolds("nodes", x) PROVE Survives("nodes", x)
  <1> DEFINE s == Old!nodes4_to_bytes(x)
             w == Bytes(s)
  <1>1. x \in Seq(NodeContact)
    BY DEF OldHolds, BothHold
  <1>2. s \in Seq(ByteValues)
    BY <1>1, NodesBytes
  <1>3. Old!bytes_to_nodes4(s) = x /\ Len(s) % NodeSize = 0
    BY <1>1, NodesRoundTrip
  <1>4. New!NodesFromBytes(s) = x
    BY <1>2, <1>3, SameNodesRead
  <1> HIDE DEF s
  <1>5. IsValue(w) /\ Old!ReadsAsBytes(w) /\ Old!AsBytes(w) = s /\ New!IsBytes(w) /\ w.bytes = s
    BY <1>2, ByteString, Constructors
  <1>6. Old!Write("nodes", x) = w
    <2>1. Old!Write("nodes", x) = Old!Bytes(s)
      BY DEF Old!Write, Old!ByteFields, s
    <2>2. QED
      BY <2>1, Constructors, Zenon
  <1> HIDE DEF w
  <1>7. (Old!Reads("nodes", w) <=> Old!ReadsAsBytes(w)) /\ Old!Read("nodes", w) = s
    BY <1>5 DEF Old!Reads, Old!Read, Old!ByteFields
  <1>8. OldWhole("nodes", s) /\ OldTaken("nodes", s) = x
    BY <1>3, SizesOfNodes DEF OldWhole, Old!WholeNodes, OldTaken
  <1>9. (New!Reads("nodes", w) <=> New!IsBytes(w) /\ Len(w.bytes) % New!ContactBytes = 0)
        /\ New!Read("nodes", w) = New!NodesFromBytes(w.bytes)
    BY DEF New!Reads, New!Read
  <1>10. New!Reads("nodes", w) /\ New!Read("nodes", w) = x
    <2>1. New!ContactBytes = NodeSize
      BY SizesOfNodes
    <2>2. QED
      BY <1>3, <1>4, <1>5, <1>9, <2>1
  <1>11. OneTranslated("nodes", x) = x
    BY DEF OneTranslated
  <1>12. QED
    BY <1>5, <1>6, <1>7, <1>8, <1>10, <1>11, Zenon DEF Survives

\* A list of addresses in bytes.
LEMMA AddressList ==
  ASSUME NEW x \in Seq(Address)
  PROVE  LET l == [i \in DOMAIN x |-> Bytes(Old!sockaddr_to_bytes(x[i]))]
         IN /\ IsValue(List(l))
            /\ \A i \in DOMAIN x : /\ IsBytes(l[i]) /\ l[i].bytes = Old!sockaddr_to_bytes(x[i])
                                   /\ Old!ReadsAsBytes(l[i]) /\ Old!AsBytes(l[i]) = Old!sockaddr_to_bytes(x[i])
                                   /\ Len(l[i].bytes) = AddrSize
                                   /\ Old!bytes_to_sockaddr(l[i].bytes) = x[i]
  <1> DEFINE t(i) == Old!sockaddr_to_bytes(x[i])
             l == [i \in DOMAIN x |-> Bytes(t(i))]
  <1>1. DOMAIN x = 1..Len(x) /\ Len(x) \in Nat /\ \A i \in DOMAIN x : x[i] \in Address
    OBVIOUS
  <1>2. ASSUME NEW i \in DOMAIN x
        PROVE  /\ t(i) \in Seq(ByteValues) /\ Len(t(i)) = AddrSize /\ Old!bytes_to_sockaddr(t(i)) = x[i]
               /\ l[i] = Bytes(t(i))
    <2>1. x[i] \in Address
      BY <1>1
    <2> DEFINE a == x[i]
    <2> HIDE DEF a
    <2>2. Old!sockaddr_to_bytes(a) \in ByteArray(AddrSize)
      BY <2>1, AddressBytes DEF a
    <2>3. Old!sockaddr_to_bytes(a) \in Seq(ByteValues) /\ Len(Old!sockaddr_to_bytes(a)) = AddrSize
      BY <2>2, SizesOfNodes, ArrayIs DEF ByteArray
    <2>4. Old!bytes_to_sockaddr(Old!sockaddr_to_bytes(a)) = a
      BY <2>1, AddressRoundTrip DEF a
    <2>5. l[i] = Bytes(t(i))
      OBVIOUS
    <2>6. QED
      BY <2>3, <2>4, <2>5 DEF a
  <1>3. DOMAIN l = 1..Len(x)
    BY <1>1
  <1> HIDE DEF l, t
  <1>4. ASSUME NEW i \in DOMAIN x
        PROVE  /\ IsScalar(l[i]) /\ IsBytes(l[i]) /\ l[i].bytes = t(i)
               /\ Old!ReadsAsBytes(l[i]) /\ Old!AsBytes(l[i]) = t(i)
    <2>1. IsScalar(Bytes(t(i))) /\ Old!ReadsAsBytes(Bytes(t(i))) /\ Old!AsBytes(Bytes(t(i))) = t(i)
      BY <1>2, ByteString
    <2>2. IsBytes(Bytes(t(i))) /\ Bytes(t(i)).bytes = t(i)
      BY Constructors
    <2>3. QED
      BY <1>2, <2>1, <2>2, Zenon
  <1>5. IsValue(List(l))
    <2>1. IsList(List(l)) /\ List(l).list = l
      BY Constructors
    <2> DEFINE R == {l[i] : i \in DOMAIN l}
    <2>2. l \in Seq(R)
      <3>1. l \in [1..Len(x) -> R]
        <4>1. l = [i \in DOMAIN l |-> l[i]]
          BY DEF l
        <4>2. \A i \in 1..Len(x) : l[i] \in R
          BY <1>3
        <4>3. QED
          BY <1>3, <4>1, <4>2
      <3> HIDE DEF R
      <3>2. QED
        BY <1>1, <3>1, ArrayIs
    <2>3. \A i \in DOMAIN l : IsScalar(l[i])
      BY <1>1, <1>3, <1>4
    <2> DEFINE w == List(l)
    <2>4. w = List(w.list) /\ w.list = l /\ IsList(w)
      BY <2>1, Zenon
    <2> HIDE DEF w
    <2>5. IsValue(w)
      BY <2>2, <2>3, <2>4, Zenon DEF IsValue
    <2>6. QED
      BY <2>5 DEF w
  <1>6. QED
    BY <1>2, <1>4, <1>5, Zenon DEF l, t

\* Peers survive being written and read.
LEMMA ValuesSurvive ==
  ASSUME NEW x, OldHolds("values", x) PROVE Survives("values", x)
  <1> DEFINE l == [i \in DOMAIN x |-> Bytes(Old!sockaddr_to_bytes(x[i]))]
             w == List(l)
             t == [i \in DOMAIN l |-> Old!AsBytes(l[i])]
  <1>1. x \in Seq(Address)
    BY DEF OldHolds, BothHold
  <1>2. /\ IsValue(w)
        /\ \A i \in DOMAIN x : /\ IsBytes(l[i])
                               /\ Old!ReadsAsBytes(l[i]) /\ Old!AsBytes(l[i]) = l[i].bytes
                               /\ Len(l[i].bytes) = AddrSize
                               /\ Old!bytes_to_sockaddr(l[i].bytes) = x[i]
    <2>1. IsValue(w)
      BY <1>1, AddressList
    <2>2. \A i \in DOMAIN x : /\ IsBytes(l[i]) /\ l[i].bytes = Old!sockaddr_to_bytes(x[i])
                               /\ Old!ReadsAsBytes(l[i]) /\ Old!AsBytes(l[i]) = Old!sockaddr_to_bytes(x[i])
                               /\ Len(l[i].bytes) = AddrSize
                               /\ Old!bytes_to_sockaddr(l[i].bytes) = x[i]
      BY <1>1, AddressList
    <2> HIDE DEF w, l
    <2>3. QED
      BY <2>1, <2>2
  <1>3. DOMAIN l = DOMAIN x /\ x = [i \in DOMAIN x |-> x[i]]
    BY <1>1
  <1>4. IsList(w) /\ Old!IsList(w) /\ New!IsList(w) /\ w.list = l
    BY Constructors
  <1>5. Old!Write("values", x) = w
    <2>1. \A s : Old!Bytes(s) = Bytes(s)
      BY Constructors
    <2>2. Old!Write("values", x) = Old!List([i \in DOMAIN x |-> Old!Bytes(Old!sockaddr_to_bytes(x[i]))])
      BY DEF Old!Write, Old!ByteFields
    <2>3. [i \in DOMAIN x |-> Old!Bytes(Old!sockaddr_to_bytes(x[i]))] = l
      BY <2>1
    <2>4. Old!List(l) = w
      BY Constructors
    <2>5. QED
      BY <2>2, <2>3, <2>4, Zenon
  <1> HIDE DEF l, w
  <1>6. Old!Reads("values", w)
    <2>1. Old!Reads("values", w) <=> Old!IsList(w) /\ \A i \in DOMAIN w.list : Old!ReadsAsBytes(w.list[i])
      BY DEF Old!Reads
    <2>2. QED
      BY <1>2, <1>3, <1>4, <2>1
  <1>7. Old!Read("values", w) = t
    <2>1. Old!Read("values", w) = [i \in DOMAIN w.list |-> Old!AsBytes(w.list[i])]
      BY DEF Old!Read, Old!ByteFields
    <2>2. QED
      BY <1>4, <2>1
  <1>8. DOMAIN t = DOMAIN x /\ \A i \in DOMAIN x : t[i] = l[i].bytes
    BY <1>2, <1>3
  <1> HIDE DEF t
  <1>9. OldWhole("values", t)
    <2>1. Old!WholePeers(t)
      BY <1>2, <1>8, SizesOfNodes DEF Old!WholePeers
    <2>2. QED
      BY <2>1 DEF OldWhole
  <1>10. OldTaken("values", t) = x
    <2>1. OldTaken("values", t) = [i \in DOMAIN t |-> Old!bytes_to_sockaddr(t[i])]
      BY DEF OldTaken
    <2>2. [i \in DOMAIN t |-> Old!bytes_to_sockaddr(t[i])] = [i \in DOMAIN x |-> x[i]]
      BY <1>2, <1>8
    <2>3. QED
      BY <1>3, <2>1, <2>2
  <1>11. New!Reads("values", w)
    <2>1. New!Reads("values", w) <=> New!IsList(w)
                /\ \A i \in DOMAIN w.list : New!IsBytesOf(New!AddrBytes, w.list[i])
      BY DEF New!Reads
    <2>2. \A i \in DOMAIN l : New!IsBytesOf(New!AddrBytes, l[i])
      <3> SUFFICES ASSUME NEW i \in DOMAIN l PROVE New!IsBytesOf(New!AddrBytes, l[i])
        OBVIOUS
      <3>1. IsBytes(l[i]) /\ Len(l[i].bytes) = New!AddrBytes
        BY <1>2, <1>3, SizesOfNodes
      <3>2. New!IsBytes(l[i])
        BY <3>1, OneKind
      <3>3. QED
        BY <3>1, <3>2 DEF New!IsBytesOf
    <2>3. QED
      BY <1>4, <2>1, <2>2
  <1>12. New!Read("values", w) = x
    <2>1. New!Read("values", w) = [i \in DOMAIN w.list |-> New!AddressFromBytes(w.list[i].bytes)]
      BY DEF New!Read
    <2>2. \A i \in DOMAIN l : New!AddressFromBytes(l[i].bytes) = x[i]
      BY <1>2, <1>3, SameBytesWritten
    <2>3. [i \in DOMAIN l |-> New!AddressFromBytes(l[i].bytes)] = [i \in DOMAIN x |-> x[i]]
      BY <1>3, <2>2
    <2>4. QED
      BY <1>3, <1>4, <2>1, <2>3
  <1>13. OneTranslated("values", x) = x
    BY DEF OneTranslated
  <1>14. QED
    BY <1>2, <1>5, <1>6, <1>7, <1>9, <1>10, <1>11, <1>12, <1>13, Zenon DEF Survives

\* Every field survives: each crate reads what the mainline crate writes.
LEMMA FieldSurvives ==
  ASSUME NEW f \in ArgumentFields, NEW x, OldHolds(f, x) PROVE Survives(f, x)
  <1>1. f \in FixedFields \/ f \in {"token", "salt", "v"} \/ f \in {"seq", "cas", "port", "implied_port"}
        \/ f = "nodes" \/ f = "values"
    BY DEF ArgumentFields, FixedFields, IdFields
  <1>2. QED
    BY <1>1, FixedSurvives, BytesSurvive, NumberSurvives, NodesSurvive, ValuesSurvive, Zenon

\* A field of mainline-next as the mainline crate writes it.
Coded(f, x) == IF f = "implied_port" THEN (IF x THEN 1 ELSE 0) ELSE x

\* Both crates write a field in the same way, but for the value of an item.
LEMMA SameWritten ==
  ASSUME NEW f \in ArgumentFields, f # "v", NEW x, NewHolds(f, x)
  PROVE  /\ OldHolds(f, Coded(f, x)) /\ OneTranslated(f, Coded(f, x)) = x
         /\ New!Write(f, x) = Old!Write(f, Coded(f, x))
  <1> DEFINE y == Coded(f, x)
  <1>1. (f = "implied_port" => y = IF x THEN 1 ELSE 0) /\ (f # "implied_port" => y = x)
    BY DEF Coded
  <1>2. CASE f = "implied_port"
    <2>1. x \in BOOLEAN
      BY <1>2 DEF NewHolds
    <2>2. y \in {0, 1} /\ (y # 0) = x
      <3>1. CASE x = TRUE
        <4>1. y = 1
          BY <1>1, <1>2, <3>1
        <4> HIDE DEF y
        <4>2. (y # 0) = TRUE
          BY <4>1
        <4>3. y \in {0, 1}
          BY <4>1
        <4>4. QED
          BY <3>1, <4>2, <4>3, Zenon
      <3>2. CASE x = FALSE
        <4>1. y = 0
          BY <1>1, <1>2, <3>2
        <4> HIDE DEF y
        <4>2. (y # 0) = FALSE
          BY <4>1
        <4>3. y \in {0, 1}
          BY <4>1
        <4>4. QED
          BY <3>2, <4>2, <4>3, Zenon
      <3>3. QED
        BY <2>1, <3>1, <3>2
    <2> HIDE DEF y
    <2>3. OldHolds(f, y)
      BY <1>2, <2>2 DEF OldHolds, BothHold, FixedFields, IdFields
    <2>4. OneTranslated(f, y) = (y # 0)
      BY <1>2 DEF OneTranslated
    <2>5. New!Write(f, x) = New!Num(y)
      BY <1>1, <1>2 DEF New!Write
    <2>6. Old!Write(f, y) = Old!Num(y)
      BY <1>2 DEF Old!Write, Old!ByteFields
    <2>7. New!Num(y) = Old!Num(y)
      BY Constructors, Zenon
    <2>8. OldHolds(f, y) /\ OneTranslated(f, y) = x /\ New!Write(f, x) = Old!Write(f, y)
      BY <2>2, <2>3, <2>4, <2>5, <2>6, <2>7, Zenon
    <2>9. QED
      BY <2>8 DEF y
  <1>3. CASE f # "implied_port"
    <2>1. y = x
      BY <1>1, <1>3
    <2>2. OldHolds(f, x) /\ OneTranslated(f, x) = x
      BY <1>3 DEF NewHolds, OldHolds, OneTranslated
    <2>3. \A z : Old!Bytes(z) = New!Bytes(z) /\ Old!Num(z) = New!Num(z) /\ Old!List(z) = New!List(z)
      BY Constructors
    <2>4. New!Write(f, x) = Old!Write(f, x)
      <3>1. CASE f = "nodes"
        <4>1. New!Write(f, x) = New!Bytes(New!NodesToBytes(x))
          BY <3>1 DEF New!Write
        <4>2. Old!Write(f, x) = Old!Bytes(Old!nodes4_to_bytes(x))
          BY <3>1 DEF Old!Write, Old!ByteFields
        <4>3. QED
          BY <2>3, <4>1, <4>2, SameBytesWritten, Zenon
      <3>2. CASE f = "values"
        <4> DEFINE a == [i \in DOMAIN x |-> New!Bytes(New!AddressToBytes(x[i]))]
                   b == [i \in DOMAIN x |-> Old!Bytes(Old!sockaddr_to_bytes(x[i]))]
        <4>1. New!Write(f, x) = New!List(a)
          BY <3>2 DEF New!Write
        <4>2. Old!Write(f, x) = Old!List(b)
          BY <3>2 DEF Old!Write, Old!ByteFields
        <4>3. a = b
          <5>1. \A i \in DOMAIN x : New!Bytes(New!AddressToBytes(x[i])) = Old!Bytes(Old!sockaddr_to_bytes(x[i]))
            BY <2>3, SameBytesWritten, Zenon
          <5>2. QED
            BY <5>1
        <4>4. QED
          BY <2>3, <4>1, <4>2, <4>3, Zenon
      <3>3. CASE f \in {"seq", "cas", "port"}
        <4>1. New!Write(f, x) = New!Num(x)
          BY <3>3 DEF New!Write
        <4>2. Old!Write(f, x) = Old!Num(x)
          BY <3>3 DEF Old!Write, Old!ByteFields
        <4>3. QED
          BY <2>3, <4>1, <4>2, Zenon
      <3>4. CASE f \in FixedFields \cup {"token", "salt"}
        <4>0. f \in {"id", "target", "info_hash", "k", "sig", "token", "salt"}
          BY <3>4 DEF FixedFields, IdFields
        <4>1. New!Write(f, x) = New!Bytes(x)
          BY <4>0 DEF New!Write
        <4>2. Old!Write(f, x) = Old!Bytes(x)
          BY <4>0 DEF Old!Write, Old!ByteFields
        <4>3. QED
          BY <2>3, <4>1, <4>2, Zenon
      <3>5. f = "nodes" \/ f = "values" \/ f \in {"seq", "cas", "port"} \/ f \in FixedFields \cup {"token", "salt"}
        BY <1>3 DEF ArgumentFields, FixedFields, IdFields
      <3>6. QED
        BY <3>1, <3>2, <3>3, <3>4, <3>5
    <2>5. QED
      BY <2>1, <2>2, <2>4, Zenon
  <1>4. QED
    BY <1>2, <1>3

\* A field as mainline-next writes it: it reads it again itself, and so does
\* the mainline crate but for the value of an item, which may be anything.
LEMMA NewFieldSurvives ==
  ASSUME NEW f \in ArgumentFields, NEW x, NewHolds(f, x)
  PROVE  LET w == New!Write(f, x)
         IN /\ IsValue(w) /\ New!Reads(f, w) /\ New!Read(f, w) = x
            /\ f # "v" => /\ Old!Reads(f, w) /\ OldWhole(f, Old!Read(f, w))
                          /\ OldTaken(f, Old!Read(f, w)) = Coded(f, x)
  <1>1. CASE f = "v"
    <2>1. New!Write(f, x) = x /\ IsValue(x)
      BY <1>1 DEF New!Write, NewHolds
    <2>2. New!Reads(f, x) /\ New!Read(f, x) = x
      BY <1>1 DEF New!Reads, New!Read
    <2>3. QED
      BY <1>1, <2>1, <2>2
  <1>2. CASE f # "v"
    <2> DEFINE y == Coded(f, x)
    <2>1. OldHolds(f, y) /\ OneTranslated(f, y) = x /\ New!Write(f, x) = Old!Write(f, y)
      BY <1>2, SameWritten
    <2>2. Survives(f, y)
      BY <2>1, FieldSurvives
    <2> HIDE DEF y
    <2>3. QED
      BY <2>1, <2>2, Zenon DEF Survives, y
  <1>3. QED
    BY <1>1, <1>2

\* The bytes of a value.
LEMMA ValueBytes ==
  ASSUME NEW w, IsValue(w) \/ IsScalar(w), IsBytes(w)
  PROVE  w = Bytes(w.bytes) /\ w.bytes \in Seq(ByteValues)
  <1>1. ~ IsInt(w) /\ ~ IsList(w)
    BY OneKind
  <1>2. IsScalar(w)
    BY <1>1 DEF IsValue
  <1>3. QED
    BY <1>1, <1>2, Zenon DEF IsScalar

\* A bencoded integer holds an integer.
LEMMA ValueInt ==
  ASSUME NEW w, IsValue(w), IsInt(w)
  PROVE  w.int \in Int
  <1>1. ~ IsBytes(w) /\ ~ IsList(w)
    BY OneKind
  <1>2. QED
    BY <1>1, Zenon DEF IsValue, IsScalar

\* A bencoded list holds a sequence of scalars.
LEMMA ValueList ==
  ASSUME NEW w, IsValue(w), IsList(w)
  PROVE  /\ DOMAIN w.list = 1..Len(w.list) /\ Len(w.list) \in Nat
         /\ \A i \in DOMAIN w.list : IsScalar(w.list[i])
  <1>1. ~ IsBytes(w) /\ ~ IsInt(w)
    BY OneKind
  <1>2. w.list \in Seq({w.list[i] : i \in DOMAIN w.list}) /\ \A i \in DOMAIN w.list : IsScalar(w.list[i])
    BY <1>1, Zenon DEF IsValue, IsScalar
  <1> DEFINE R == {w.list[i] : i \in DOMAIN w.list}
             l == w.list
  <1>3. l \in Seq(R)
    BY <1>2
  <1> HIDE DEF R, l
  <1>4. DOMAIN l = 1..Len(l) /\ Len(l) \in Nat
    BY <1>3
  <1>5. QED
    BY <1>2, <1>4 DEF l

\* What mainline-next reads is what one of its structs holds.
LEMMA NewReadsTyped ==
  ASSUME NEW f \in ArgumentFields, NEW w, IsValue(w), New!Reads(f, w)
  PROVE  NewHolds(f, New!Read(f, w))
  <1> DEFINE x == New!Read(f, w)
  <1>0. (New!IsBytes(w) <=> IsBytes(w)) /\ (New!IsInt(w) <=> IsInt(w)) /\ (New!IsList(w) <=> IsList(w))
    BY OneKind
  <1>1. CASE f \in FixedFields
    <2> DEFINE n == Old!FixedSize(f)
    <2>1. New!IsBytesOf(n, w) /\ n \in Nat
      <3>1. f \in IdFields => (New!Reads(f, w) <=> New!IsBytesOf(IdSize, w)) /\ n = IdSize
        BY DEF New!Reads, Old!FixedSize, IdFields
      <3>2. f = "k" => (New!Reads(f, w) <=> New!IsBytesOf(KeySize, w)) /\ n = KeySize
        BY DEF New!Reads, Old!FixedSize
      <3>3. f = "sig" => (New!Reads(f, w) <=> New!IsBytesOf(SigSize, w)) /\ n = SigSize
        BY DEF New!Reads, Old!FixedSize
      <3>4. f \in IdFields \/ f = "k" \/ f = "sig"
        BY <1>1 DEF FixedFields
      <3> HIDE DEF n
      <3>5. n \in Nat
        BY <3>1, <3>2, <3>3, <3>4, Sizes
      <3>6. QED
        BY <3>1, <3>2, <3>3, <3>4, <3>5, Zenon
    <2> HIDE DEF n
    <2>2. IsBytes(w) /\ Len(w.bytes) = n
      BY <1>0, <2>1, Zenon DEF New!IsBytesOf
    <2>3. w.bytes \in ByteArray(n)
      BY <2>1, <2>2, ValueBytes, ArrayIs DEF ByteArray
    <2>4. f \in {"id", "target", "info_hash", "k", "sig"}
      BY <1>1 DEF FixedFields, IdFields
    <2>5. x = w.bytes
      BY <2>4 DEF New!Read
    <2> HIDE DEF x
    <2>6. NewHolds(f, x)
      BY <2>3, <2>4, <2>5 DEF NewHolds, BothHold, n
    <2>7. QED
      BY <2>6 DEF x
  <1>2. CASE f \in {"token", "salt"}
    <2>1. New!IsBytes(w) /\ x = w.bytes
      BY <1>2 DEF New!Reads, New!Read
    <2>2. w.bytes \in Seq(ByteValues)
      BY <1>0, <2>1, ValueBytes
    <2> HIDE DEF x
    <2>3. NewHolds(f, x)
      BY <1>2, <2>1, <2>2 DEF NewHolds, BothHold, FixedFields, IdFields
    <2>4. QED
      BY <2>3 DEF x
  <1>3. CASE f = "v"
    <2>1. x = w
      BY <1>3 DEF New!Read
    <2> HIDE DEF x
    <2>2. NewHolds(f, x)
      BY <1>3, <2>1 DEF NewHolds, BothHold, FixedFields, IdFields
    <2>3. QED
      BY <2>2 DEF x
  <1>4. CASE f \in {"seq", "cas"}
    <2>1. New!IsInt(w) /\ x = w.int
      BY <1>4 DEF New!Reads, New!Read
    <2>2. w.int \in Int
      BY <1>0, <2>1, ValueInt
    <2> HIDE DEF x
    <2>3. NewHolds(f, x)
      BY <1>4, <2>1, <2>2 DEF NewHolds, BothHold, FixedFields, IdFields
    <2>4. QED
      BY <2>3 DEF x
  <1>5. CASE f = "port"
    <2>1. New!IsU16(w) /\ x = w.int
      BY <1>5 DEF New!Reads, New!Read
    <2>2. w.int \in 0..(ByteBase * ByteBase - 1)
      BY <2>1 DEF New!IsU16
    <2> HIDE DEF x
    <2>3. NewHolds(f, x)
      BY <1>5, <2>1, <2>2, Zenon DEF NewHolds, BothHold, FixedFields, IdFields
    <2>4. QED
      BY <2>3 DEF x
  <1>6. CASE f = "implied_port"
    <2>1. x = New!WireBool(w)
      BY <1>6 DEF New!Read
    <2>2. New!WireBool(w) \in BOOLEAN
      BY DEF New!WireBool
    <2> HIDE DEF x
    <2>3. x \in BOOLEAN
      BY <2>1, <2>2, Zenon
    <2>4. NewHolds(f, x)
      BY <1>6, <2>3 DEF NewHolds, BothHold, FixedFields, IdFields
    <2>5. QED
      BY <2>4 DEF x
  <1>7. CASE f = "nodes"
    <2>1. New!IsBytes(w) /\ x = New!NodesFromBytes(w.bytes)
      BY <1>7 DEF New!Reads, New!Read
    <2>2. w.bytes \in Seq(ByteValues)
      BY <1>0, <2>1, ValueBytes
    <2> HIDE DEF x
    <2>3. x \in Seq(NodeContact)
      BY <2>1, <2>2, SameNodesRead, NodesRead
    <2>4. NewHolds(f, x)
      BY <1>7, <2>3 DEF NewHolds, BothHold, FixedFields, IdFields
    <2>5. QED
      BY <2>4 DEF x
  <1>8. CASE f = "values"
    <2> DEFINE l == w.list
               a(i) == New!AddressFromBytes(l[i].bytes)
    <2>1. New!IsList(w) /\ \A i \in DOMAIN l : New!IsBytesOf(New!AddrBytes, l[i])
      BY <1>8 DEF New!Reads
    <2>2. x = [i \in DOMAIN l |-> a(i)]
      BY <1>8 DEF New!Read
    <2>3. DOMAIN l = 1..Len(l) /\ Len(l) \in Nat /\ \A i \in DOMAIN l : IsScalar(l[i])
      BY <1>0, <2>1, ValueList
    <2> HIDE DEF l, x
    <2>4. ASSUME NEW i \in DOMAIN l PROVE a(i) \in Address
      <3>1. New!IsBytes(l[i]) /\ Len(l[i].bytes) = New!AddrBytes
        BY <2>1 DEF New!IsBytesOf
      <3>2. IsBytes(l[i]) /\ IsScalar(l[i])
        BY <2>3, <3>1, OneKind
      <3>3. l[i].bytes \in Seq(ByteValues)
        BY <3>2, ValueBytes
      <3>4. l[i].bytes \in ByteArray(AddrSize)
        BY <3>1, <3>3, SizesOfNodes, ArrayIs DEF ByteArray
      <3>5. QED
        BY <3>4, AddressRead, SameBytesWritten
    <2>5. x \in [1..Len(l) -> Address]
      BY <2>2, <2>3, <2>4
    <2>6. x \in Seq(Address)
      BY <2>3, <2>5, ArrayIs
    <2>7. NewHolds(f, x)
      BY <1>8, <2>6 DEF NewHolds, BothHold, FixedFields, IdFields
    <2>8. QED
      BY <2>7 DEF x
  <1>9. QED
    BY <1>1, <1>2, <1>3, <1>4, <1>5, <1>6, <1>7, <1>8 DEF ArgumentFields, FixedFields, IdFields

\* Where both crates read a field, they read the same.
LEMMA FieldsAgree ==
  ASSUME NEW f \in ArgumentFields, NEW w, IsValue(w), Old!Reads(f, w), New!Reads(f, w),
         ~ (f = "v" /\ IsList(w))
  PROVE  OneTranslated(f, OldTaken(f, Old!Read(f, w))) = New!Read(f, w)
  <1> DEFINE x == Old!Read(f, w)
  <1>0. /\ (New!IsBytes(w) <=> IsBytes(w)) /\ (New!IsInt(w) <=> IsInt(w)) /\ (New!IsList(w) <=> IsList(w))
        /\ (Old!IsBytes(w) <=> IsBytes(w)) /\ (Old!IsInt(w) <=> IsInt(w)) /\ (Old!IsList(w) <=> IsList(w))
    BY OneKind
  <1>1. ASSUME IsBytes(w) PROVE Old!AsBytes(w) = w.bytes
    BY <1>0, <1>1 DEF Old!AsBytes
  <1>2. CASE f \in FixedFields \cup {"token", "salt"}
    <2>1. f \in {"id", "target", "info_hash", "k", "sig", "token", "salt"}
      BY <1>2 DEF FixedFields, IdFields
    <2>2. New!IsBytes(w)
      BY <2>1 DEF New!Reads, New!IsBytesOf
    <2>3. x = Old!AsBytes(w) /\ New!Read(f, w) = w.bytes
      BY <2>1 DEF Old!Read, Old!ByteFields, New!Read
    <2> HIDE DEF x
    <2>4. OneTranslated(f, OldTaken(f, x)) = x
      BY <2>1 DEF OneTranslated, OldTaken
    <2>5. QED
      BY <1>0, <1>1, <2>2, <2>3, <2>4, Zenon DEF x
  <1>3. CASE f = "v"
    <2>1. IsBytes(w)
      <3>1. Old!ReadsAsBytes(w)
        BY <1>3 DEF Old!Reads
      <3>2. QED
        BY <1>0, <1>3, <3>1 DEF Old!ReadsAsBytes
    <2>2. w = Bytes(w.bytes)
      BY <2>1, ValueBytes
    <2>3. x = Old!AsBytes(w) /\ New!Read(f, w) = w
      BY <1>3 DEF Old!Read, Old!ByteFields, New!Read
    <2> HIDE DEF x
    <2>4. OneTranslated(f, OldTaken(f, x)) = Bytes(x)
      BY <1>3 DEF OneTranslated, OldTaken
    <2>5. x = w.bytes
      BY <1>1, <2>1, <2>3, Zenon
    <2>6. QED
      BY <2>2, <2>3, <2>4, <2>5, Zenon DEF x
  <1>4. CASE f \in {"seq", "cas", "port"}
    <2>1. x = w.int /\ New!Read(f, w) = w.int
      BY <1>4 DEF Old!Read, Old!ByteFields, New!Read
    <2> HIDE DEF x
    <2>2. OneTranslated(f, OldTaken(f, x)) = x
      BY <1>4 DEF OneTranslated, OldTaken
    <2>3. QED
      BY <2>1, <2>2, Zenon DEF x
  <1>5. CASE f = "implied_port"
    <2>1. x = w.int /\ New!Read(f, w) = (w.int # 0)
      BY <1>5 DEF Old!Read, Old!ByteFields, New!Read, New!WireBool
    <2> HIDE DEF x
    <2>2. OneTranslated(f, OldTaken(f, x)) = (x # 0)
      BY <1>5 DEF OneTranslated, OldTaken
    <2>3. QED
      BY <2>1, <2>2, Zenon DEF x
  <1>6. CASE f = "nodes"
    <2>1. New!IsBytes(w)
      BY <1>6 DEF New!Reads
    <2>2. x = Old!AsBytes(w) /\ New!Read(f, w) = New!NodesFromBytes(w.bytes)
      BY <1>6 DEF Old!Read, Old!ByteFields, New!Read
    <2> HIDE DEF x
    <2>3. OneTranslated(f, OldTaken(f, x)) = Old!bytes_to_nodes4(x)
      BY <1>6 DEF OneTranslated, OldTaken
    <2>4. x = w.bytes /\ w.bytes \in Seq(ByteValues)
      BY <1>0, <1>1, <2>1, <2>2, ValueBytes
    <2>5. New!NodesFromBytes(w.bytes) = Old!bytes_to_nodes4(w.bytes)
      BY <2>4, SameNodesRead
    <2>6. QED
      BY <2>2, <2>3, <2>4, <2>5, Zenon DEF x
  <1>7. CASE f = "values"
    <2> DEFINE l == w.list
    <2>1. \A i \in DOMAIN l : New!IsBytesOf(New!AddrBytes, l[i])
      BY <1>7 DEF New!Reads
    <2>2. x = [i \in DOMAIN l |-> Old!AsBytes(l[i])]
      BY <1>7 DEF Old!Read, Old!ByteFields
    <2>3. New!Read(f, w) = [i \in DOMAIN l |-> New!AddressFromBytes(l[i].bytes)]
      BY <1>7 DEF New!Read
    <2> HIDE DEF x, l
    <2>4. OneTranslated(f, OldTaken(f, x)) = [i \in DOMAIN x |-> Old!bytes_to_sockaddr(x[i])]
      BY <1>7 DEF OneTranslated, OldTaken
    <2>5. ASSUME NEW i \in DOMAIN l PROVE Old!bytes_to_sockaddr(x[i]) = New!AddressFromBytes(l[i].bytes)
      <3>1. New!IsBytes(l[i])
        BY <2>1 DEF New!IsBytesOf
      <3>2. Old!IsBytes(l[i])
        BY <3>1, OneKind
      <3>3. Old!AsBytes(l[i]) = l[i].bytes
        BY <3>2 DEF Old!AsBytes
      <3>4. x[i] = l[i].bytes
        BY <2>2, <3>3
      <3>5. QED
        BY <3>4, SameBytesWritten
    <2>6. DOMAIN x = DOMAIN l
      BY <2>2
    <2>7. [i \in DOMAIN x |-> Old!bytes_to_sockaddr(x[i])] = [i \in DOMAIN l |-> New!AddressFromBytes(l[i].bytes)]
      BY <2>5, <2>6
    <2>8. QED
      BY <2>3, <2>4, <2>7, Zenon DEF x
  <1>8. f \in FixedFields \cup {"token", "salt"} \/ f = "v" \/ f \in {"seq", "cas", "port"}
        \/ f = "implied_port" \/ f = "nodes" \/ f = "values"
    BY DEF ArgumentFields, FixedFields, IdFields
  <1>9. QED
    BY <1>2, <1>3, <1>4, <1>5, <1>6, <1>7, <1>8

-----------------------------------------------------------------------------
(* What was sent.                                                            *)

\* Every field of a body, those of errors too.
AllFields == ArgumentFields \cup {"code", "description"}

\* A dictionary has finitely many fields.
LEMMA FewFields ==
  ASSUME NEW S \in SUBSET AllFields PROVE IsFiniteSet(S)
  <1>1. \A a, b : IsFiniteSet({a} \cup {b})
    BY FS_Singleton, FS_AddElement
  <1>2. \A A, B : IsFiniteSet(A) /\ IsFiniteSet(B) => IsFiniteSet(A \cup B)
    BY FS_Union
  <1>3. \A a, b, c, d : IsFiniteSet(({a} \cup {b}) \cup ({c} \cup {d}))
    BY <1>1, <1>2, Zenon
  <1>4. IsFiniteSet({"id", "target", "info_hash", "token"})
    <2> DEFINE S4 == {"id", "target", "info_hash", "token"}
               T4 == ({"id"} \cup {"target"}) \cup ({"info_hash"} \cup {"token"})
    <2>1. IsFiniteSet(T4)
      BY <1>3, Zenon
    <2>2. S4 = T4
      OBVIOUS
    <2> HIDE DEF S4, T4
    <2>3. IsFiniteSet(S4)
      BY <2>1, <2>2
    <2>4. QED
      BY <2>3 DEF S4
  <1>5. IsFiniteSet({"salt", "v", "k", "sig"})
    <2> DEFINE S4 == {"salt", "v", "k", "sig"}
               T4 == ({"salt"} \cup {"v"}) \cup ({"k"} \cup {"sig"})
    <2>1. IsFiniteSet(T4)
      BY <1>3, Zenon
    <2>2. S4 = T4
      OBVIOUS
    <2> HIDE DEF S4, T4
    <2>3. IsFiniteSet(S4)
      BY <2>1, <2>2
    <2>4. QED
      BY <2>3 DEF S4
  <1>6. IsFiniteSet({"seq", "cas", "port", "implied_port"})
    <2> DEFINE S4 == {"seq", "cas", "port", "implied_port"}
               T4 == ({"seq"} \cup {"cas"}) \cup ({"port"} \cup {"implied_port"})
    <2>1. IsFiniteSet(T4)
      BY <1>3, Zenon
    <2>2. S4 = T4
      OBVIOUS
    <2> HIDE DEF S4, T4
    <2>3. IsFiniteSet(S4)
      BY <2>1, <2>2
    <2>4. QED
      BY <2>3 DEF S4
  <1>7. IsFiniteSet({"nodes", "values", "code", "description"})
    <2> DEFINE S4 == {"nodes", "values", "code", "description"}
               T4 == ({"nodes"} \cup {"values"}) \cup ({"code"} \cup {"description"})
    <2>1. IsFiniteSet(T4)
      BY <1>3, Zenon
    <2>2. S4 = T4
      OBVIOUS
    <2> HIDE DEF S4, T4
    <2>3. IsFiniteSet(S4)
      BY <2>1, <2>2
    <2>4. QED
      BY <2>3 DEF S4
  <1> DEFINE T == (({"id", "target", "info_hash", "token"} \cup {"salt", "v", "k", "sig"})
                   \cup ({"seq", "cas", "port", "implied_port"} \cup {"nodes", "values", "code", "description"}))
  <1>8. IsFiniteSet(T)
    BY <1>2, <1>4, <1>5, <1>6, <1>7, Zenon
  <1>9. AllFields \subseteq T
    BY DEF AllFields, ArgumentFields
  <1> HIDE DEF T
  <1>10. QED
    BY <1>8, <1>9, FS_Subset

\* A struct of either crate, with what it holds in its fields.
IsStruct(d, shape) ==
  /\ shape.required \subseteq DOMAIN d /\ DOMAIN d \subseteq Old!Fields(shape)
  /\ d = [f \in DOMAIN d |-> d[f]] /\ DOMAIN d \subseteq ArgumentFields

\* A struct of messages.rs, and one of mainline-next, with what they hold.
OldStruct(d, shape) == IsStruct(d, shape) /\ \A f \in DOMAIN d : OldHolds(f, d[f])
NewStruct(d, shape) == IsStruct(d, shape) /\ \A f \in DOMAIN d : NewHolds(f, d[f])

\* Structs gives structs of a shape, each field with one of its values.
LEMMA OneStruct ==
  ASSUME NEW shape, Old!Fields(shape) \subseteq ArgumentFields, NEW V, NEW d \in Structs(shape, V)
  PROVE  IsStruct(d, shape) /\ \A f \in DOMAIN d : d[f] \in V[f]
  <1>1. Old!Fields(shape) = shape.required \cup shape.optional
    BY DEF Old!Fields
  <1>2. IsFiniteSet(shape.required) /\ IsFiniteSet(shape.optional)
    <2>1. shape.required \in SUBSET AllFields /\ shape.optional \in SUBSET AllFields
      BY <1>1 DEF AllFields
    <2>2. QED
      BY <2>1, FewFields
  <1>3. /\ shape.required \subseteq DOMAIN d /\ DOMAIN d \subseteq shape.required \cup shape.optional
        /\ d = [f \in DOMAIN d |-> d[f]] /\ \A f \in DOMAIN d : d[f] \in V[f]
    BY <1>2, StructsAre
  <1>4. QED
    BY <1>1, <1>3 DEF IsStruct

\* The kinds of requests of the mainline crate.
RequestKinds == {"Ping", "FindNode", "GetPeers", "GetValue", "AnnouncePeer", "PutImmutable", "PutMutable"}

\* The kinds of responses of the mainline crate.
ResponseKinds ==
  {"Ping", "FindNode", "GetPeers", "GetImmutable", "GetMutable", "NoValues", "NoMoreRecentValue"}

\* What is under "q".
QueryNames == {"ping", "find_node", "get_peers", "announce_peer", "get", "put"}

\* What each request of the mainline crate needs and may have.
LEMMA RequestShapes ==
  /\ DOMAIN OldRequests = RequestKinds
  /\ OldRequests["Ping"].required = {"id"} /\ Old!Fields(OldRequests["Ping"]) = {"id"}
  /\ OldRequests["FindNode"].required = {"id", "target"}
       /\ Old!Fields(OldRequests["FindNode"]) = {"id", "target"}
  /\ OldRequests["GetPeers"].required = {"id", "info_hash"}
       /\ Old!Fields(OldRequests["GetPeers"]) = {"id", "info_hash"}
  /\ OldRequests["GetValue"].required = {"id", "target"}
       /\ Old!Fields(OldRequests["GetValue"]) = {"id", "target", "seq", "salt"}
  /\ OldRequests["AnnouncePeer"].required = {"id", "token", "info_hash", "port"}
       /\ Old!Fields(OldRequests["AnnouncePeer"]) = {"id", "token", "info_hash", "port", "implied_port"}
  /\ OldRequests["PutImmutable"].required = {"id", "token", "target", "v"}
       /\ Old!Fields(OldRequests["PutImmutable"]) = {"id", "token", "target", "v"}
  /\ OldRequests["PutMutable"].required = {"id", "token", "target", "v", "k", "seq", "sig"}
       /\ Old!Fields(OldRequests["PutMutable"]) = {"id", "token", "target", "v", "k", "seq", "sig", "salt", "cas"}
  <1> USE DEF OldRequests, Old!Fields, Old!Shape
  <1>1. DOMAIN OldRequests = RequestKinds
    BY DEF RequestKinds
  <1>2. /\ OldRequests["Ping"].required = {"id"} /\ Old!Fields(OldRequests["Ping"]) = {"id"}
        /\ OldRequests["FindNode"].required = {"id", "target"}
             /\ Old!Fields(OldRequests["FindNode"]) = {"id", "target"}
    OBVIOUS
  <1>3. /\ OldRequests["GetPeers"].required = {"id", "info_hash"}
             /\ Old!Fields(OldRequests["GetPeers"]) = {"id", "info_hash"}
        /\ OldRequests["GetValue"].required = {"id", "target"}
             /\ Old!Fields(OldRequests["GetValue"]) = {"id", "target", "seq", "salt"}
    OBVIOUS
  <1>4. /\ OldRequests["AnnouncePeer"].required = {"id", "token", "info_hash", "port"}
             /\ Old!Fields(OldRequests["AnnouncePeer"]) = {"id", "token", "info_hash", "port", "implied_port"}
        /\ OldRequests["PutImmutable"].required = {"id", "token", "target", "v"}
             /\ Old!Fields(OldRequests["PutImmutable"]) = {"id", "token", "target", "v"}
    OBVIOUS
  <1>5. /\ OldRequests["PutMutable"].required = {"id", "token", "target", "v", "k", "seq", "sig"}
        /\ Old!Fields(OldRequests["PutMutable"]) = {"id", "token", "target", "v", "k", "seq", "sig", "salt", "cas"}
    OBVIOUS
  <1>6. QED
    BY <1>1, <1>2, <1>3, <1>4, <1>5

\* Each kind of response is what one variant of the untagged enum reads.
LEMMA ResponseShapes ==
  /\ DOMAIN OldResponses = ResponseKinds
  /\ \A k \in ResponseKinds : \E i \in 1..7 :
       Kind(i) = k /\ OldResponses[k].required = Needed(i) /\ Old!Fields(OldResponses[k]) = Known(i)
  <1> USE DEF OldResponses, Old!Fields, Old!Shape
  <1>1. DOMAIN OldResponses = ResponseKinds
    BY DEF ResponseKinds
  <1>2. OldResponses["GetMutable"].required = {"id", "token", "v", "k", "sig", "seq"}
        /\ Old!Fields(OldResponses["GetMutable"]) = {"id", "token", "v", "k", "sig", "seq", "nodes"}
    OBVIOUS
  <1>3. OldResponses["NoMoreRecentValue"].required = {"id", "token", "seq"}
        /\ Old!Fields(OldResponses["NoMoreRecentValue"]) = {"id", "token", "seq", "nodes"}
    OBVIOUS
  <1>4. OldResponses["GetImmutable"].required = {"id", "token", "v"}
        /\ Old!Fields(OldResponses["GetImmutable"]) = {"id", "token", "v", "nodes"}
    OBVIOUS
  <1>5. OldResponses["GetPeers"].required = {"id", "token", "values"}
        /\ Old!Fields(OldResponses["GetPeers"]) = {"id", "token", "values", "nodes"}
    OBVIOUS
  <1>6. OldResponses["NoValues"].required = {"id", "token"}
        /\ Old!Fields(OldResponses["NoValues"]) = {"id", "token", "nodes"}
    OBVIOUS
  <1>7. OldResponses["FindNode"].required = {"id", "nodes"}
        /\ Old!Fields(OldResponses["FindNode"]) = {"id", "nodes"}
    OBVIOUS
  <1>8. OldResponses["Ping"].required = {"id"} /\ Old!Fields(OldResponses["Ping"]) = {"id"}
    OBVIOUS
  <1>9. 1 \in 1..7 /\ 2 \in 1..7 /\ 3 \in 1..7 /\ 4 \in 1..7 /\ 5 \in 1..7 /\ 6 \in 1..7 /\ 7 \in 1..7
    OBVIOUS
  <1> DEFINE P(k, i) ==
        Kind(i) = k /\ OldResponses[k].required = Needed(i) /\ Old!Fields(OldResponses[k]) = Known(i)
  <1>10. /\ P("GetMutable", 1) /\ P("NoMoreRecentValue", 2) /\ P("GetImmutable", 3) /\ P("GetPeers", 4)
         /\ P("NoValues", 5) /\ P("FindNode", 6) /\ P("Ping", 7)
    <2> HIDE DEF OldResponses, Old!Fields
    <2>1. QED
      BY <1>2, <1>3, <1>4, <1>5, <1>6, <1>7, <1>8, Variants
  <1> HIDE DEF P
  <1>11. \A k \in ResponseKinds : \E i \in 1..7 : P(k, i)
    BY <1>9, <1>10 DEF ResponseKinds
  <1>12. QED
    BY <1>1, <1>11 DEF P

\* What both crates need and read under each query name.
LEMMA QueryShapes ==
  /\ DOMAIN Old!DHTRequestSpecific = QueryNames /\ DOMAIN New!WireQuery = QueryNames
  /\ Old!DHTRequestSpecific["ping"].required = {"id"} /\ Old!Fields(Old!DHTRequestSpecific["ping"]) = {"id"}
  /\ Old!DHTRequestSpecific["find_node"].required = {"id", "target"}
       /\ Old!Fields(Old!DHTRequestSpecific["find_node"]) = {"id", "target"}
  /\ Old!DHTRequestSpecific["get_peers"].required = {"id", "info_hash"}
       /\ Old!Fields(Old!DHTRequestSpecific["get_peers"]) = {"id", "info_hash"}
  /\ Old!DHTRequestSpecific["get"].required = {"id", "target"}
       /\ Old!Fields(Old!DHTRequestSpecific["get"]) = {"id", "target", "seq"}
  /\ Old!DHTRequestSpecific["announce_peer"].required = {"id", "token", "info_hash", "port"}
       /\ Old!Fields(Old!DHTRequestSpecific["announce_peer"]) =
            {"id", "token", "info_hash", "port", "implied_port"}
  /\ Old!DHTRequestSpecific["put"].required = {"id", "target", "token", "v"}
       /\ Old!Fields(Old!DHTRequestSpecific["put"]) =
            {"id", "target", "token", "v", "k", "seq", "sig", "salt", "cas"}
  /\ \A q \in QueryNames \ {"put"} :
       /\ New!WireQuery[q].required = Old!DHTRequestSpecific[q].required
       /\ New!Fields(New!WireQuery[q]) = Old!Fields(Old!DHTRequestSpecific[q])
  /\ New!WireQuery["put"].required = {"id", "token", "v"}
       /\ New!Fields(New!WireQuery["put"]) = {"id", "token", "v", "k", "seq", "sig", "salt", "cas"}
  /\ New!ResponseArguments.required = {"id"}
       /\ New!Fields(New!ResponseArguments) = {"id", "token", "nodes", "values", "v", "k", "seq", "sig"}
  <1> USE DEF Old!Fields, Old!Shape, New!Fields, New!Shape
  <1> DEFINE R == Old!DHTRequestSpecific
             W == New!WireQuery
  <1>1. DOMAIN R = QueryNames /\ DOMAIN W = QueryNames
    BY DEF QueryNames, Old!DHTRequestSpecific, New!WireQuery
  <1>2. R["ping"].required = {"id"} /\ Old!Fields(R["ping"]) = {"id"}
        /\ W["ping"].required = {"id"} /\ New!Fields(W["ping"]) = {"id"}
    BY DEF Old!DHTPingRequestArguments, New!PingArguments, Old!DHTRequestSpecific, New!WireQuery
  <1>3. R["find_node"].required = {"id", "target"} /\ Old!Fields(R["find_node"]) = {"id", "target"}
        /\ W["find_node"].required = {"id", "target"} /\ New!Fields(W["find_node"]) = {"id", "target"}
    BY DEF Old!DHTFindNodeRequestArguments, New!FindNodeArguments, Old!DHTRequestSpecific, New!WireQuery
  <1>4. R["get_peers"].required = {"id", "info_hash"} /\ Old!Fields(R["get_peers"]) = {"id", "info_hash"}
        /\ W["get_peers"].required = {"id", "info_hash"} /\ New!Fields(W["get_peers"]) = {"id", "info_hash"}
    BY DEF Old!DHTGetPeersRequestArguments, New!GetPeersArguments, Old!DHTRequestSpecific, New!WireQuery
  <1>5. R["get"].required = {"id", "target"} /\ Old!Fields(R["get"]) = {"id", "target", "seq"}
        /\ W["get"].required = {"id", "target"} /\ New!Fields(W["get"]) = {"id", "target", "seq"}
    BY DEF Old!DHTGetValueRequestArguments, New!GetArguments, Old!DHTRequestSpecific, New!WireQuery
  <1>6. R["announce_peer"].required = {"id", "token", "info_hash", "port"}
        /\ Old!Fields(R["announce_peer"]) = {"id", "token", "info_hash", "port", "implied_port"}
        /\ W["announce_peer"].required = {"id", "token", "info_hash", "port"}
        /\ New!Fields(W["announce_peer"]) = {"id", "token", "info_hash", "port", "implied_port"}
    BY DEF Old!DHTAnnouncePeerRequestArguments, New!AnnouncePeerArguments, Old!DHTRequestSpecific, New!WireQuery
  <1>7. R["put"].required = {"id", "target", "token", "v"}
        /\ Old!Fields(R["put"]) = {"id", "target", "token", "v", "k", "seq", "sig", "salt", "cas"}
        /\ W["put"].required = {"id", "token", "v"}
        /\ New!Fields(W["put"]) = {"id", "token", "v", "k", "seq", "sig", "salt", "cas"}
    BY DEF Old!DHTPutValueRequestArguments, New!PutArguments, Old!DHTRequestSpecific, New!WireQuery
  <1>8. New!ResponseArguments.required = {"id"}
        /\ New!Fields(New!ResponseArguments) = {"id", "token", "nodes", "values", "v", "k", "seq", "sig"}
    BY DEF New!ResponseArguments
  <1> HIDE DEF R, W
  <1>9. \A q \in QueryNames \ {"put"} :
          W[q].required = R[q].required /\ New!Fields(W[q]) = Old!Fields(R[q])
    <2> HIDE DEF Old!Fields, New!Fields
    <2>1. QED
      BY <1>2, <1>3, <1>4, <1>5, <1>6 DEF QueryNames
  <1> HIDE DEF Old!Fields, New!Fields
  <1>10. QED
    BY <1>1, <1>2, <1>3, <1>4, <1>5, <1>6, <1>7, <1>8, <1>9 DEF R, W

\* What is under "e".
IsError(d) == d = [f \in DOMAIN d |-> d[f]] /\ DOMAIN d = {"code", "description"}

\* What the mainline crate has under "e": an i32 and a string.
OldError(d) ==
  /\ IsError(d) /\ IsI32(Num(d["code"]))
  /\ d["description"] \in Seq(ByteValues) /\ IsUtf8(d["description"])

\* A body of the mainline crate: a request, a response or an error.
OldBodyOk(b) ==
  \/ b.type = "q" /\ b.kind \in RequestKinds /\ OldStruct(b.args, OldRequests[b.kind])
  \/ b.type = "r" /\ b.kind \in ResponseKinds /\ OldStruct(b.args, OldResponses[b.kind])
  \/ b.type = "e" /\ b.kind = "Error" /\ OldError(b.args)

\* A body of mainline-next; an announcement always has its flag.
NewBodyOk(b) ==
  \/ /\ b.kind = "q" /\ b.query \in QueryNames /\ NewStruct(b.args, New!WireQuery[b.query])
     /\ b.query = "announce_peer" => "implied_port" \in DOMAIN b.args
  \/ b.kind = "r" /\ b.query = "" /\ NewStruct(b.args, New!ResponseArguments)
  \/ b.kind = "e" /\ b.query = "" /\ IsError(b.args)

\* A message that Message::into_serde_message may be given.
OldMessageOk(m) ==
  /\ OldBodyOk(m)
  /\ m.transaction_id \in ByteArray(TidSize) /\ \A v \in m.version : v \in ByteArray(TidSize)
  /\ \A a \in m.requester_ip : a \in Address
  /\ m.read_only \in BOOLEAN
  /\ m = [transaction_id |-> m.transaction_id, version |-> m.version, requester_ip |-> m.requester_ip,
          read_only |-> m.read_only, type |-> m.type, kind |-> m.kind, args |-> m.args]

\* A message of mainline-next: only queries are read-only, and only answers carry
\* the address of the requester.
NewMessageOk(m) ==
  /\ NewBodyOk(m)
  /\ m.transaction_id \in Seq(ByteValues) /\ \A v \in m.version : v \in Seq(ByteValues)
  /\ \A a \in m.requester_address : a \in Address
  /\ m.read_only \in BOOLEAN
  /\ m.kind = "q" => m.requester_address = {}
  /\ m.kind # "q" => m.read_only = FALSE
  /\ m = [transaction_id |-> m.transaction_id, version |-> m.version, kind |-> m.kind, query |-> m.query,
          args |-> m.args, read_only |-> m.read_only, requester_address |-> m.requester_address]

\* All that is said of other implementations is that they send bencode.
ForeignOk(w) ==
  /\ w.y \in {"q", "r"}
  /\ \A f \in DOMAIN w.args : f \in ArgumentFields /\ IsValue(w.args[f])
  /\ \A x \in w.ip : IsValue(x)

\* Where a datagram comes from: a message that one of the crates encoded, or any
\* bencoded values.
OriginInv ==
  \/ wire = None
  \/ origin.by = "old" /\ OldMessageOk(origin.msg) /\ wire = Old!into_serde_message(origin.msg)
  \/ origin.by = "new" /\ NewMessageOk(origin.msg) /\ wire = New!Encode(origin.msg)
  \/ origin.by = "foreign" /\ ForeignOk(wire)

\* The errors of the model are errors.
LEMMA ErrorsAre ==
  ASSUME NEW V, NEW d \in Dicts({"code", "description"}, V)
  PROVE  IsError(d) /\ d["code"] \in V["code"] /\ d["description"] \in V["description"]
  <1> DEFINE S == {"code", "description"}
  <1>1. IsFiniteSet(S)
    <2>1. S \in SUBSET AllFields
      BY DEF AllFields
    <2> HIDE DEF S
    <2>2. QED
      BY <2>1, FewFields
  <1> HIDE DEF S
  <1>2. IsDict(d, S, V)
    BY <1>1, DictsAre DEF S
  <1>3. DOMAIN d = S /\ d = [f \in DOMAIN d |-> d[f]] /\ \A f \in S : d[f] \in V[f]
    BY <1>2 DEF IsDict
  <1>4. "code" \in S /\ "description" \in S
    BY DEF S
  <1>5. QED
    BY <1>3, <1>4 DEF IsError, S

\* The bodies that SendOld may send are bodies of the mainline crate.
LEMMA OldBodiesOk ==
  ASSUME NEW b \in OldBodies PROVE OldBodyOk(b)
  <1>1. CASE \E k \in DOMAIN OldRequests :
               b \in [type : {"q"}, kind : {k}, args : Structs(OldRequests[k], OldValues)]
    <2>1. PICK k \in DOMAIN OldRequests :
               b \in [type : {"q"}, kind : {k}, args : Structs(OldRequests[k], OldValues)]
      BY <1>1
    <2> DEFINE d == b.args
               shape == OldRequests[k]
    <2>2. b.type = "q" /\ b.kind = k /\ d \in Structs(shape, OldValues)
      BY <2>1
    <2>3. k \in RequestKinds
      BY RequestShapes
    <2>4. Old!Fields(shape) \subseteq ArgumentFields
      BY <2>3, RequestShapes DEF RequestKinds, ArgumentFields
    <2> HIDE DEF d, shape
    <2>5. IsStruct(d, shape) /\ \A f \in DOMAIN d : d[f] \in OldValues[f]
      BY <2>2, <2>4, OneStruct
    <2>6. \A f \in DOMAIN d : f \in ArgumentFields
      BY <2>5 DEF IsStruct
    <2>7. OldStruct(d, shape)
      BY <2>5, <2>6, OldTypes DEF OldStruct
    <2>8. QED
      BY <2>2, <2>3, <2>7, Zenon DEF OldBodyOk, d, shape
  <1>2. CASE \E k \in DOMAIN OldResponses :
               b \in [type : {"r"}, kind : {k}, args : Structs(OldResponses[k], OldValues)]
    <2>1. PICK k \in DOMAIN OldResponses :
               b \in [type : {"r"}, kind : {k}, args : Structs(OldResponses[k], OldValues)]
      BY <1>2
    <2> DEFINE d == b.args
               shape == OldResponses[k]
    <2>2. b.type = "r" /\ b.kind = k /\ d \in Structs(shape, OldValues)
      BY <2>1
    <2>3. k \in ResponseKinds
      BY ResponseShapes
    <2>4. Old!Fields(shape) \subseteq ArgumentFields
      <3>1. PICK i \in 1..7 : Old!Fields(shape) = Known(i)
        BY <2>3, ResponseShapes
      <3>2. i \in {1, 2, 3, 4, 5, 6, 7}
        OBVIOUS
      <3>3. Known(i) \subseteq ArgumentFields
        BY <3>2, Variants DEF ArgumentFields
      <3>4. QED
        BY <3>1, <3>3
    <2> HIDE DEF d, shape
    <2>5. IsStruct(d, shape) /\ \A f \in DOMAIN d : d[f] \in OldValues[f]
      BY <2>2, <2>4, OneStruct
    <2>6. \A f \in DOMAIN d : f \in ArgumentFields
      BY <2>5 DEF IsStruct
    <2>7. OldStruct(d, shape)
      BY <2>5, <2>6, OldTypes DEF OldStruct
    <2>8. QED
      BY <2>2, <2>3, <2>7, Zenon DEF OldBodyOk, d, shape
  <1>3. CASE b \in [type : {"e"}, kind : {"Error"}, args : Dicts({"code", "description"}, OldValues)]
    <2> DEFINE d == b.args
    <2>1. b.type = "e" /\ b.kind = "Error" /\ d \in Dicts({"code", "description"}, OldValues)
      BY <1>3
    <2> HIDE DEF d
    <2>2. IsError(d) /\ d["code"] \in OldValues["code"] /\ d["description"] \in OldValues["description"]
      BY <2>1, ErrorsAre
    <2>3. IsI32(Num(d["code"])) /\ IsUtf8(d["description"])
      BY <2>2, ValuesAssumption
    <2>4. d["description"] \in Seq(ByteValues)
      BY <2>2, ValuesAssumption, Zenon DEF Typed
    <2>5. OldError(d)
      BY <2>2, <2>3, <2>4 DEF OldError
    <2>6. QED
      BY <2>1, <2>5, Zenon DEF OldBodyOk, d
  <1>4. QED
    <2> DEFINE Q(k) == [type : {"q"}, kind : {k}, args : Structs(OldRequests[k], OldValues)]
               R(k) == [type : {"r"}, kind : {k}, args : Structs(OldResponses[k], OldValues)]
               E == [type : {"e"}, kind : {"Error"}, args : Dicts({"code", "description"}, OldValues)]
    <2> DEFINE A == UNION {Q(k) : k \in DOMAIN OldRequests}
               B == UNION {R(k) : k \in DOMAIN OldResponses}
    <2>1. OldBodies = A \cup B \cup E
      BY Zenon DEF OldBodies
    <2>2. (\E k \in DOMAIN OldRequests : b \in Q(k)) \/ (\E k \in DOMAIN OldResponses : b \in R(k)) \/ b \in E
      <3>1. b \in A \/ b \in B \/ b \in E
        <4> HIDE DEF A, B, E
        <4>1. QED
          BY <2>1
      <3>2. b \in A => \E k \in DOMAIN OldRequests : b \in Q(k)
        <4> HIDE DEF Q
        <4>1. QED
          OBVIOUS
      <3>3. b \in B => \E k \in DOMAIN OldResponses : b \in R(k)
        <4> HIDE DEF R
        <4>1. QED
          OBVIOUS
      <3>4. QED
        BY <3>1, <3>2, <3>3, Zenon
    <2>3. QED
      BY <1>1, <1>2, <1>3, <2>2, Zenon

\* The bodies that SendNew may send are bodies of mainline-next.
LEMMA NewBodiesOk ==
  ASSUME NEW b \in NewBodies PROVE NewBodyOk(b)
  <1>0. \A shape : New!Fields(shape) = Old!Fields(shape)
    BY DEF New!Fields, Old!Fields
  <1>1. CASE \E q \in DOMAIN New!WireQuery :
               b \in [kind : {"q"}, query : {q},
                      args : {d \in Structs(New!WireQuery[q], NewValues) :
                                q = "announce_peer" => "implied_port" \in DOMAIN d}]
    <2>1. PICK q \in DOMAIN New!WireQuery :
               b \in [kind : {"q"}, query : {q},
                      args : {d \in Structs(New!WireQuery[q], NewValues) :
                                q = "announce_peer" => "implied_port" \in DOMAIN d}]
      BY <1>1
    <2> DEFINE d == b.args
               shape == New!WireQuery[q]
    <2>2. b.kind = "q" /\ b.query = q /\ d \in Structs(shape, NewValues)
          /\ (q = "announce_peer" => "implied_port" \in DOMAIN d)
      BY <2>1
    <2>3. q \in QueryNames
      BY QueryShapes
    <2>4. Old!Fields(shape) \subseteq ArgumentFields
      <3>1. New!Fields(shape) \subseteq ArgumentFields
        BY <2>3, QueryShapes DEF QueryNames, ArgumentFields
      <3>2. QED
        BY <1>0, <3>1
    <2> HIDE DEF d, shape
    <2>5. IsStruct(d, shape) /\ \A f \in DOMAIN d : d[f] \in NewValues[f]
      BY <2>2, <2>4, OneStruct
    <2>6. \A f \in DOMAIN d : f \in ArgumentFields
      BY <2>5 DEF IsStruct
    <2>7. NewStruct(d, shape)
      BY <2>5, <2>6, NewTypes DEF NewStruct
    <2>8. QED
      BY <2>2, <2>3, <2>7, Zenon DEF NewBodyOk, d, shape
  <1>2. CASE b \in [kind : {"r"}, query : {""}, args : Structs(New!ResponseArguments, NewValues)]
    <2> DEFINE d == b.args
               shape == New!ResponseArguments
    <2>2. b.kind = "r" /\ b.query = "" /\ d \in Structs(shape, NewValues)
      BY <1>2
    <2>4. Old!Fields(shape) \subseteq ArgumentFields
      <3>1. New!Fields(shape) \subseteq ArgumentFields
        BY QueryShapes DEF ArgumentFields
      <3>2. QED
        BY <1>0, <3>1
    <2> HIDE DEF d, shape
    <2>5. IsStruct(d, shape) /\ \A f \in DOMAIN d : d[f] \in NewValues[f]
      BY <2>2, <2>4, OneStruct
    <2>6. \A f \in DOMAIN d : f \in ArgumentFields
      BY <2>5 DEF IsStruct
    <2>7. NewStruct(d, shape)
      BY <2>5, <2>6, NewTypes DEF NewStruct
    <2>8. QED
      BY <2>2, <2>7, Zenon DEF NewBodyOk, d, shape
  <1>3. CASE b \in [kind : {"e"}, query : {""}, args : Dicts({"code", "description"}, NewValues)]
    <2> DEFINE d == b.args
    <2>1. b.kind = "e" /\ b.query = "" /\ d \in Dicts({"code", "description"}, NewValues)
      BY <1>3
    <2> HIDE DEF d
    <2>2. IsError(d)
      BY <2>1, ErrorsAre
    <2>3. QED
      BY <2>1, <2>2, Zenon DEF NewBodyOk, d
  <1>4. QED
    <2> DEFINE Q(q) == [kind : {"q"}, query : {q},
                        args : {d \in Structs(New!WireQuery[q], NewValues) :
                                  q = "announce_peer" => "implied_port" \in DOMAIN d}]
               R == [kind : {"r"}, query : {""}, args : Structs(New!ResponseArguments, NewValues)]
               E == [kind : {"e"}, query : {""}, args : Dicts({"code", "description"}, NewValues)]
    <2> DEFINE A == UNION {Q(q) : q \in DOMAIN New!WireQuery}
    <2>1. NewBodies = A \cup R \cup E
      BY Zenon DEF NewBodies
    <2>2. (\E q \in DOMAIN New!WireQuery : b \in Q(q)) \/ b \in R \/ b \in E
      <3>1. b \in A \/ b \in R \/ b \in E
        <4> HIDE DEF A, R, E
        <4>1. QED
          BY <2>1
      <3>2. b \in A => \E q \in DOMAIN New!WireQuery : b \in Q(q)
        <4> HIDE DEF Q
        <4>1. QED
          OBVIOUS
      <3>4. QED
        BY <3>1, <3>2, Zenon
    <2>3. QED
      BY <1>1, <1>2, <1>3, <2>2, Zenon

\* Every step keeps the origin of the datagram.
LEMMA OriginStep == OriginInv /\ [Next]_vars => OriginInv'
  <1> SUFFICES ASSUME OriginInv, [Next]_vars PROVE OriginInv'
    OBVIOUS
  <1>0. \A w : None # w => TRUE
    OBVIOUS
  <1>1. ASSUME wire' = wire, origin' = origin PROVE OriginInv'
    BY <1>1, Zenon DEF OriginInv
  <1>2. CASE UNCHANGED vars
    BY <1>1, <1>2 DEF vars
  <1>3. CASE MeetOld \/ MeetNew \/ MeetForeign
    <2>1. \E by, id, ip : Met(by, id, ip)
      BY <1>3, Zenon DEF MeetOld, MeetNew, MeetForeign
    <2>2. QED
      BY <1>1, <2>1 DEF Met
  <1>4. CASE ReadOld \/ ReadNew
    BY <1>1, <1>4 DEF ReadOld, ReadNew
  <1>5. CASE SendOld
    <2>1. PICK body \in OldBodies, version \in OldValues["version"], ip \in OldValues["ip"],
               ro \in BOOLEAN, tid \in OldValues["tid"] :
                 Sent("old", Message(body, tid, version, ip, ro),
                      Old!into_serde_message(Message(body, tid, version, ip, ro)))
      BY <1>5, Zenon DEF SendOld
    <2> DEFINE m == Message(body, tid, version, ip, ro)
    <2>2. /\ m.transaction_id = tid /\ m.version = version /\ m.requester_ip = ip /\ m.read_only = ro
          /\ m.type = body.type /\ m.kind = body.kind /\ m.args = body.args
          /\ m = [transaction_id |-> m.transaction_id, version |-> m.version, requester_ip |-> m.requester_ip,
                  read_only |-> m.read_only, type |-> m.type, kind |-> m.kind, args |-> m.args]
      BY DEF Message
    <2> HIDE DEF m
    <2>3. OldBodyOk(body)
      BY OldBodiesOk
    <2>4. OldBodyOk(m)
      BY <2>2, <2>3, Zenon DEF OldBodyOk
    <2>5. tid \in ByteArray(TidSize) /\ \A v \in version : v \in ByteArray(TidSize)
      BY ValuesAssumption
    <2>6. \A a \in ip : a \in Address
      BY ValuesAssumption DEF Typed
    <2>7. OldMessageOk(m)
      BY <2>2, <2>4, <2>5, <2>6, Zenon DEF OldMessageOk
    <2>8. origin' = [by |-> "old", msg |-> m] /\ wire' = Old!into_serde_message(m)
      BY <2>1 DEF Sent, m
    <2>9. origin'.by = "old" /\ origin'.msg = m
      BY <2>8
    <2>10. QED
      BY <2>7, <2>8, <2>9, Zenon DEF OriginInv
  <1>6. CASE SendNew
    <2>1. PICK body \in NewBodies, version \in NewValues["version"], ip \in NewValues["ip"],
               ro \in BOOLEAN, tid \in NewValues["tid"] :
                 Sent("new", WireMessage(body, tid, version, ip, ro),
                      New!Encode(WireMessage(body, tid, version, ip, ro)))
      BY <1>6, Zenon DEF SendNew
    <2> DEFINE m == WireMessage(body, tid, version, ip, ro)
    <2>2. /\ m.transaction_id = tid /\ m.version = version
          /\ m.requester_address = (IF body.kind = "q" THEN {} ELSE ip)
          /\ m.read_only = (ro /\ body.kind = "q")
          /\ m.kind = body.kind /\ m.query = body.query /\ m.args = body.args
          /\ m = [transaction_id |-> m.transaction_id, version |-> m.version, kind |-> m.kind, query |-> m.query,
                  args |-> m.args, read_only |-> m.read_only, requester_address |-> m.requester_address]
      BY DEF WireMessage
    <2> HIDE DEF m
    <2>3. NewBodyOk(body)
      BY NewBodiesOk
    <2>4. NewBodyOk(m)
      BY <2>2, <2>3, Zenon DEF NewBodyOk
    <2>5. tid \in Seq(ByteValues) /\ \A v \in version : v \in Seq(ByteValues)
      BY ValuesAssumption DEF Typed
    <2>6. \A a \in ip : a \in Address
      BY ValuesAssumption DEF Typed
    <2>7. \A a \in m.requester_address : a \in Address
      BY <2>2, <2>6
    <2>8. m.read_only \in BOOLEAN /\ (m.kind = "q" => m.requester_address = {})
          /\ (m.kind # "q" => m.read_only = FALSE)
      BY <2>2
    <2>9. NewMessageOk(m)
      BY <2>2, <2>4, <2>5, <2>7, <2>8, Zenon DEF NewMessageOk
    <2>10. origin' = [by |-> "new", msg |-> m] /\ wire' = New!Encode(m)
      BY <2>1 DEF Sent, m
    <2>11. origin'.by = "new" /\ origin'.msg = m
      BY <2>10
    <2>12. QED
      BY <2>9, <2>10, <2>11, Zenon DEF OriginInv
  <1>7. ASSUME NEW y \in {"q", "r"}, NEW q, NEW d, NEW e \in Envelopes, Sent("foreign", None, Foreign(y, q, d, e)),
               \A f \in DOMAIN d : f \in ArgumentFields /\ IsValue(d[f])
        PROVE  OriginInv'
    <2>1. origin' = [by |-> "foreign", msg |-> None] /\ wire' = Foreign(y, q, d, e)
      BY <1>7 DEF Sent
    <2>2. origin'.by = "foreign"
      BY <2>1
    <2>3. wire'.y = y /\ wire'.args = d /\ wire'.ip = e.ip
      BY <2>1 DEF Foreign
    <2>4. \A x \in e.ip : IsValue(x)
      BY ValuesAssumption
    <2>5. ForeignOk(wire')
      BY <1>7, <2>3, <2>4, Zenon DEF ForeignOk
    <2>6. QED
      BY <2>2, <2>5, Zenon DEF OriginInv
  <1>8. PlainEnvelope \in Envelopes
    BY ValuesAssumption DEF PlainEnvelope
  <1>9. ASSUME NEW S \in SUBSET ArgumentFields, NEW d \in Structs(Old!Shape({}, S), ForeignValues)
        PROVE  \A f \in DOMAIN d : f \in ArgumentFields /\ IsValue(d[f])
    <2>1. Old!Fields(Old!Shape({}, S)) \subseteq ArgumentFields
      BY DEF Old!Fields, Old!Shape
    <2>2. IsStruct(d, Old!Shape({}, S)) /\ \A f \in DOMAIN d : d[f] \in ForeignValues[f]
      BY <2>1, OneStruct
    <2>3. QED
      BY <2>2, ValuesAssumption DEF IsStruct
  <1>10. CASE SendForeignQuery
    <2>1. PICK q \in DOMAIN Old!DHTRequestSpecific :
             \E d \in Structs(Old!Shape({}, Old!Fields(Old!DHTRequestSpecific[q])), ForeignValues) :
                Sent("foreign", None, Foreign("q", q, d, PlainEnvelope))
      BY <1>10, Zenon DEF SendForeignQuery
    <2> DEFINE S == Old!Fields(Old!DHTRequestSpecific[q])
    <2>2. S \in SUBSET ArgumentFields
      <3>1. q \in QueryNames
        BY QueryShapes
      <3>2. QED
        BY <3>1, QueryShapes DEF QueryNames, ArgumentFields
    <2> HIDE DEF S
    <2>3. PICK d \in Structs(Old!Shape({}, S), ForeignValues) :
                Sent("foreign", None, Foreign("q", q, d, PlainEnvelope))
      BY <2>1 DEF S
    <2>4. QED
      BY <1>7, <1>8, <1>9, <2>2, <2>3
  <1>11. CASE SendForeignResponse
    <2>1. PICK d \in Structs(Old!Shape({}, ResponseFields), ForeignValues) :
             Sent("foreign", None, Foreign("r", "", d, PlainEnvelope))
      BY <1>11, Zenon DEF SendForeignResponse
    <2>2. ResponseFields \in SUBSET ArgumentFields
      <3>1. DOMAIN Old!DHTResponseSpecific = 1..7
        BY DEF Old!DHTResponseSpecific
      <3>2. ResponseFields = UNION {Known(i) : i \in 1..7}
        BY <3>1, Zenon DEF ResponseFields, Known
      <3>3. \A i \in 1..7 : Known(i) \subseteq ArgumentFields
        <4> TAKE i \in 1..7
        <4>1. i \in {1, 2, 3, 4, 5, 6, 7}
          OBVIOUS
        <4>2. QED
          BY <4>1, Variants DEF ArgumentFields
      <3>4. QED
        BY <3>2, <3>3
    <2>3. QED
      BY <1>7, <1>8, <1>9, <2>1, <2>2
  <1>12. CASE SendForeignEnvelope
    <2>1. PICK e \in Envelopes, y \in {"q", "r"}, id \in ForeignValues["id"] :
            Sent("foreign", None, Foreign(y, IF y = "q" THEN "ping" ELSE "", [id |-> id], e))
      BY <1>12, Zenon DEF SendForeignEnvelope
    <2> DEFINE d == [id |-> id]
    <2>2. DOMAIN d = {"id"} /\ d["id"] = id
      OBVIOUS
    <2>3. "id" \in ArgumentFields
      BY DEF ArgumentFields
    <2>4. IsValue(id)
      BY <2>3, ValuesAssumption
    <2> HIDE DEF d
    <2>5. \A f \in DOMAIN d : f \in ArgumentFields /\ IsValue(d[f])
      BY <2>2, <2>3, <2>4
    <2>6. QED
      BY <1>7, <2>1, <2>5 DEF d
  <1>13. QED
    BY <1>2, <1>3, <1>4, <1>5, <1>6, <1>10, <1>11, <1>12 DEF Next

-----------------------------------------------------------------------------
(* Messages of the mainline crate, as both crates read them.                 *)

\* What is read from a dictionary into a struct is what s has of it.
ReadBack(dict, other, s, args) ==
  /\ Old!Deserializes(dict, other) /\ DOMAIN dict = DOMAIN s
  /\ args = Old!Deserialized(dict, other)
  /\ DOMAIN args = DOMAIN s \cap Old!Fields(other)
  /\ \A f \in DOMAIN args : OldWhole(f, args[f]) /\ OldTaken(f, args[f]) = s[f]
  /\ args = [f \in DOMAIN args |-> args[f]]

\* A dictionary that the mainline crate wrote, read into a struct.
LEMMA StructRead ==
  ASSUME NEW s, NEW shape, OldStruct(s, shape), NEW dict, NEW other,
         dict = [f \in DOMAIN s |-> Old!Write(f, s[f])],
         other.required \subseteq DOMAIN s
  PROVE  ReadBack(dict, other, s, Old!Deserialized(dict, other))
  <1>1. \A f \in DOMAIN s : Survives(f, s[f])
    <2> TAKE f \in DOMAIN s
    <2>1. f \in ArgumentFields /\ OldHolds(f, s[f])
      BY DEF OldStruct, IsStruct
    <2>2. QED
      BY <2>1, FieldSurvives
  <1>2. DOMAIN dict = DOMAIN s /\ \A f \in DOMAIN s : dict[f] = Old!Write(f, s[f])
    OBVIOUS
  <1>3. \A f \in DOMAIN s : /\ Old!Reads(f, dict[f]) /\ OldWhole(f, Old!Read(f, dict[f]))
                            /\ OldTaken(f, Old!Read(f, dict[f])) = s[f]
    BY <1>1, <1>2, Zenon DEF Survives
  <1>4. Old!Deserializes(dict, other)
    BY <1>2, <1>3 DEF Old!Deserializes
  <1> DEFINE args == Old!Deserialized(dict, other)
             D == DOMAIN s \cap Old!Fields(other)
  <1>5. args = [f \in D |-> Old!Read(f, dict[f])]
    BY <1>2 DEF Old!Deserialized
  <1> HIDE DEF args
  <1>6. DOMAIN args = D /\ \A f \in D : args[f] = Old!Read(f, dict[f])
    BY <1>5
  <1>7. args = [f \in DOMAIN args |-> args[f]]
    BY <1>5, <1>6
  <1>8. \A f \in D : OldWhole(f, args[f]) /\ OldTaken(f, args[f]) = s[f]
    BY <1>3, <1>6, Zenon
  <1>9. QED
    BY <1>2, <1>4, <1>6, <1>7, <1>8, Zenon DEF args, ReadBack

\* A struct with a flag is sent with it.
FlagSent(shape, s) == "implied_port" \in New!Fields(shape) => "implied_port" \in DOMAIN s

\* The fields D of a struct as mainline-next holds them.
TranslatedPart(s, D) == [f \in D |-> OneTranslated(f, s[f])]

\* ... by mainline-next.
LEMMA StructReadByNew ==
  ASSUME NEW s, NEW shape, OldStruct(s, shape), NEW dict, NEW other, dict = Old!Written(s),
         other.required \subseteq DOMAIN s, FlagSent(other, s)
  PROVE  New!Arguments(dict, other) = TranslatedPart(s, DOMAIN s \cap New!Fields(other))
  <1>1. \A f \in DOMAIN s : Survives(f, s[f])
    <2> TAKE f \in DOMAIN s
    <2>1. f \in ArgumentFields /\ OldHolds(f, s[f])
      BY DEF OldStruct, IsStruct
    <2>2. QED
      BY <2>1, FieldSurvives
  <1>2. DOMAIN dict = DOMAIN s /\ \A f \in DOMAIN s : dict[f] = Old!Write(f, s[f])
    BY DEF Old!Written
  <1>3. \A f \in DOMAIN s : New!Reads(f, dict[f]) /\ New!Read(f, dict[f]) = OneTranslated(f, s[f])
    BY <1>1, <1>2, Zenon DEF Survives
  <1> DEFINE D == DOMAIN dict \cap New!Fields(other)
             E == D \cup (New!Fields(other) \cap {"implied_port"})
             ok == other.required \subseteq DOMAIN dict /\ \A f \in D : New!Reads(f, dict[f])
             res == [f \in E |-> IF f \in DOMAIN dict THEN New!Read(f, dict[f]) ELSE FALSE]
  <1>4. New!Arguments(dict, other) = IF ok THEN res ELSE New!Refused
    BY Zenon DEF New!Arguments
  <1>5. ok
    BY <1>2, <1>3
  <1>6. E = DOMAIN s \cap New!Fields(other)
    BY <1>2 DEF FlagSent
  <1> HIDE DEF E
  <1>7. \A f \in E : (IF f \in DOMAIN dict THEN New!Read(f, dict[f]) ELSE FALSE) = OneTranslated(f, s[f])
    BY <1>2, <1>3, <1>6
  <1>8. res = [f \in E |-> OneTranslated(f, s[f])]
    BY <1>7
  <1> HIDE DEF ok, res
  <1>9. QED
    BY <1>4, <1>5, <1>6, <1>8, Zenon DEF TranslatedPart

\* The name that a kind of request goes under.
QueryName(k) ==
  CASE k = "Ping" -> "ping" [] k = "FindNode" -> "find_node" [] k = "GetPeers" -> "get_peers"
    [] k = "GetValue" -> "get" [] k = "AnnouncePeer" -> "announce_peer"
    [] k \in {"PutImmutable", "PutMutable"} -> "put"

\* What a query carries: all but the salt of a get, and always implied_port.
ArgsSent(k, args) ==
  IF k = "GetValue" THEN Only(args, {"id", "target", "seq"})
  ELSE IF k = "AnnouncePeer" THEN
         [f \in DOMAIN args \cup {"implied_port"} |->
               IF f = "implied_port" THEN (IF "implied_port" \in DOMAIN args THEN 1 ELSE 0)
                                     ELSE args[f]]
       ELSE args

\* A query as EncodeRequest writes it: all of s, under its name q.
RequestSent(k, args, q, s) ==
  /\ q \in QueryNames
  /\ OldStruct(s, Old!DHTRequestSpecific[q])
  /\ Old!EncodeRequest(k, args) = [q |-> q, args |-> [f \in DOMAIN s |-> Old!Write(f, s[f])]]
  /\ (k = "AnnouncePeer" => ("implied_port" \in DOMAIN s /\ s["implied_port"] \in {0, 1}))
  /\ (k = "PutMutable" => {"k", "seq", "sig"} \subseteq DOMAIN s)
  /\ (k = "PutImmutable" => DOMAIN s = {"id", "token", "target", "v"})
  /\ s = [f \in DOMAIN s |-> s[f]]

\* What into_serde_message puts on the wire for each kind of request.
LEMMA RequestWritten ==
  ASSUME NEW k \in RequestKinds, NEW args, OldStruct(args, OldRequests[k])
  PROVE  RequestSent(k, args, QueryName(k), ArgsSent(k, args))
  <1> DEFINE s == ArgsSent(k, args)
             q == QueryName(k)
             wr == [f \in DOMAIN s |-> Old!Write(f, s[f])]
  <1> SUFFICES RequestSent(k, args, q, s)
    OBVIOUS
  <1>1. /\ OldRequests[k].required \subseteq DOMAIN args
        /\ DOMAIN args \subseteq Old!Fields(OldRequests[k]) /\ DOMAIN args \subseteq ArgumentFields
        /\ args = [f \in DOMAIN args |-> args[f]]
        /\ \A f \in DOMAIN args : OldHolds(f, args[f])
    BY DEF OldStruct, IsStruct
  <1>2. CASE k \in RequestKinds \ {"GetValue", "AnnouncePeer"}
    <2>1. s = args
      BY <1>2 DEF ArgsSent
    <2>2. q \in QueryNames /\ Old!EncodeRequest(k, args) = [q |-> q, args |-> Old!Written(args)]
      BY <1>2 DEF QueryName, QueryNames, RequestKinds, Old!EncodeRequest
    <2>3. Old!Written(args) = [f \in DOMAIN args |-> Old!Write(f, args[f])]
      BY DEF Old!Written
    <2>4. Old!DHTRequestSpecific[q].required \subseteq DOMAIN args
          /\ DOMAIN args \subseteq Old!Fields(Old!DHTRequestSpecific[q])
      <3>1. CASE k = "Ping"
        <4>1. q = "ping"
          BY <3>1 DEF QueryName
        <4>2. QED
          BY <1>1, <3>1, <4>1, RequestShapes, QueryShapes
      <3>2. CASE k = "FindNode"
        <4>1. q = "find_node"
          BY <3>2 DEF QueryName
        <4>2. QED
          BY <1>1, <3>2, <4>1, RequestShapes, QueryShapes
      <3>3. CASE k = "GetPeers"
        <4>1. q = "get_peers"
          BY <3>3 DEF QueryName
        <4>2. QED
          BY <1>1, <3>3, <4>1, RequestShapes, QueryShapes
      <3>4. CASE k = "PutImmutable"
        <4>1. q = "put"
          BY <3>4 DEF QueryName
        <4>2. QED
          BY <1>1, <3>4, <4>1, RequestShapes, QueryShapes
      <3>5. CASE k = "PutMutable"
        <4>1. q = "put"
          BY <3>5 DEF QueryName
        <4>2. QED
          BY <1>1, <3>5, <4>1, RequestShapes, QueryShapes
      <3>6. QED
        BY <1>2, <3>1, <3>2, <3>3, <3>4, <3>5 DEF RequestKinds
    <2>5. OldStruct(args, Old!DHTRequestSpecific[q])
      <3> HIDE DEF q
      <3>1. QED
        BY <1>1, <2>4 DEF OldStruct, IsStruct
    <2>6. k = "PutMutable" => {"k", "seq", "sig"} \subseteq DOMAIN args
      BY <1>1, RequestShapes
    <2>7. k = "PutImmutable" => DOMAIN args = {"id", "token", "target", "v"}
      BY <1>1, RequestShapes
    <2>8. k # "AnnouncePeer"
      BY <1>2
    <2> HIDE DEF s, q
    <2>9. RequestSent(k, args, q, args)
      BY <1>1, <2>2, <2>3, <2>5, <2>6, <2>7, <2>8, Zenon DEF RequestSent
    <2>10. QED
      BY <2>1, <2>9, Zenon
  <1>3. CASE k = "GetValue"
    <2> DEFINE D == DOMAIN args \cap {"id", "target", "seq"}
    <2>1. s = [f \in D |-> args[f]]
      BY <1>3 DEF ArgsSent, Only
    <2>2. q = "get"
      BY <1>3 DEF QueryName
    <2>3. Old!EncodeRequest(k, args) = [q |-> "get", args |-> Old!Written(Old!Only(args, {"id", "target", "seq"}))]
      BY <1>3 DEF Old!EncodeRequest
    <2>4. Old!Only(args, {"id", "target", "seq"}) = s
      BY <2>1 DEF Old!Only
    <2> HIDE DEF s, q
    <2>5. Old!Written(s) = wr
      BY DEF Old!Written
    <2>6. DOMAIN s = D /\ s = [f \in DOMAIN s |-> s[f]] /\ \A f \in DOMAIN s : OldHolds(f, s[f])
      BY <1>1, <2>1
    <2>7. {"id", "target"} \subseteq DOMAIN s
      BY <1>1, <1>3, <2>6, RequestShapes
    <2>8. OldStruct(s, Old!DHTRequestSpecific["get"])
      <3>1. DOMAIN s \subseteq {"id", "target", "seq"} /\ DOMAIN s \subseteq ArgumentFields
        BY <1>1, <2>6
      <3>2. QED
        BY <2>6, <2>7, <3>1, QueryShapes DEF OldStruct, IsStruct
    <2>9. Old!EncodeRequest(k, args) = [q |-> q, args |-> wr] /\ q \in QueryNames
          /\ OldStruct(s, Old!DHTRequestSpecific[q])
      <3> HIDE DEF wr
      <3>1. QED
        BY <2>2, <2>3, <2>4, <2>5, <2>8 DEF QueryNames
    <2>10. k # "AnnouncePeer" /\ k # "PutMutable" /\ k # "PutImmutable"
      BY <1>3
    <2>11. QED
      BY <2>6, <2>9, <2>10, Zenon DEF RequestSent
  <1>4. CASE k = "AnnouncePeer"
    <2> DEFINE D == DOMAIN args \cup {"implied_port"}
               p == IF "implied_port" \in DOMAIN args THEN 1 ELSE 0
    <2>1. s = [f \in D |-> IF f = "implied_port" THEN p ELSE args[f]]
      BY <1>4 DEF ArgsSent
    <2>2. q = "announce_peer"
      BY <1>4 DEF QueryName
    <2>3. Old!EncodeRequest(k, args) =
            [q |-> "announce_peer",
             args |-> [f \in D |-> IF f = "implied_port" THEN Old!Num(p) ELSE Old!Write(f, args[f])]]
      BY <1>4 DEF Old!EncodeRequest
    <2>4. p \in {0, 1}
      OBVIOUS
    <2> HIDE DEF s, q, p
    <2>5. DOMAIN s = D /\ s["implied_port"] = p /\ (\A f \in D \ {"implied_port"} : s[f] = args[f])
          /\ s = [f \in DOMAIN s |-> s[f]]
      BY <2>1
    <2>6. \A f \in D : (IF f = "implied_port" THEN Old!Num(p) ELSE Old!Write(f, args[f])) = Old!Write(f, s[f])
      <3>1. Old!Write("implied_port", s["implied_port"]) = Old!Num(p)
        BY <2>5 DEF Old!Write, Old!ByteFields
      <3>2. QED
        BY <2>5, <3>1
    <2>7. wr = [f \in D |-> IF f = "implied_port" THEN Old!Num(p) ELSE Old!Write(f, args[f])]
      BY <2>5, <2>6
    <2>8. \A f \in DOMAIN s : OldHolds(f, s[f])
      <3>1. OldHolds("implied_port", p)
        BY <2>4 DEF OldHolds, BothHold, FixedFields, IdFields
      <3>2. QED
        BY <1>1, <2>5, <3>1
    <2>9. OldStruct(s, Old!DHTRequestSpecific["announce_peer"])
      <3>1. /\ {"id", "token", "info_hash", "port"} \subseteq DOMAIN s
            /\ DOMAIN s \subseteq {"id", "token", "info_hash", "port", "implied_port"}
        BY <1>1, <1>4, <2>5, RequestShapes
      <3>2. DOMAIN s \subseteq ArgumentFields
        BY <3>1 DEF ArgumentFields
      <3>3. QED
        BY <2>5, <2>8, <3>1, <3>2, QueryShapes DEF OldStruct, IsStruct
    <2>10. Old!EncodeRequest(k, args) = [q |-> q, args |-> wr] /\ q \in QueryNames
           /\ OldStruct(s, Old!DHTRequestSpecific[q])
      <3> HIDE DEF wr
      <3>1. QED
        BY <2>2, <2>3, <2>7, <2>9 DEF QueryNames
    <2>11. k # "PutMutable" /\ k # "PutImmutable"
      BY <1>4
    <2>12. "implied_port" \in DOMAIN s /\ s["implied_port"] \in {0, 1}
      BY <2>4, <2>5
    <2>13. QED
      BY <2>5, <2>10, <2>11, <2>12, Zenon DEF RequestSent
  <1>5. QED
    BY <1>2, <1>3, <1>4

\* What DecodeRequest makes of a dictionary that its struct can be read from.
Flagged(args) ==
  [f \in DOMAIN args |-> IF f = "implied_port" THEN (IF args[f] # 0 THEN 1 ELSE 0) ELSE args[f]]

\* The kind of request that a name other than "put" stands for.
KindOf(q) ==
  CASE q = "ping" -> "Ping" [] q = "find_node" -> "FindNode" [] q = "get_peers" -> "GetPeers"
    [] q = "get" -> "GetValue" [] q = "announce_peer" -> "AnnouncePeer"

\* The request that is made of the fields that were read.
DecodedAs(q, args) ==
  IF q = "put" THEN Old!DecodePut(args)
  ELSE [kind |-> KindOf(q), args |-> IF q = "announce_peer" THEN Flagged(args) ELSE args]

\* A request is refused or decoded from the fields that its struct has.
LEMMA RequestDecoded ==
  ASSUME NEW q \in QueryNames, NEW dict
  PROVE  Old!DecodeRequest(q, dict) =
           IF Old!Deserializes(dict, Old!DHTRequestSpecific[q])
             THEN DecodedAs(q, Old!Deserialized(dict, Old!DHTRequestSpecific[q])) ELSE Refused
  <1> DEFINE args == Old!Deserialized(dict, Old!DHTRequestSpecific[q])
             ok == Old!Deserializes(dict, Old!DHTRequestSpecific[q])
             flagged == [f \in DOMAIN args |->
                              IF f = "implied_port" THEN (IF args[f] # 0 THEN 1 ELSE 0) ELSE args[f]]
             put == Old!DecodePut(args)
             res == CASE q = "ping" -> [kind |-> "Ping", args |-> args]
                      [] q = "find_node" -> [kind |-> "FindNode", args |-> args]
                      [] q = "get_peers" -> [kind |-> "GetPeers", args |-> args]
                      [] q = "get" -> [kind |-> "GetValue", args |-> args]
                      [] q = "announce_peer" -> [kind |-> "AnnouncePeer", args |-> flagged]
                      [] q = "put" -> put
  <1>1. q \in DOMAIN Old!DHTRequestSpecific
    BY QueryShapes
  <1>2. Old!DecodeRequest(q, dict) =
          IF q \notin DOMAIN Old!DHTRequestSpecific THEN Refused ELSE IF ~ ok THEN Refused ELSE res
    BY Zenon DEF Old!DecodeRequest, Old!Refused, Refused
  <1>3. flagged = Flagged(args)
    BY Zenon DEF Flagged
  <1> HIDE DEF args, ok, flagged, put
  <1>4. res = DecodedAs(q, args)
    <2>1. DecodedAs(q, args) = IF q = "put" THEN put
             ELSE [kind |-> KindOf(q), args |-> IF q = "announce_peer" THEN flagged ELSE args]
      BY <1>3, Zenon DEF DecodedAs, put
    <2>2. CASE q = "ping"
      BY <2>1, <2>2 DEF KindOf
    <2>3. CASE q = "find_node"
      BY <2>1, <2>3 DEF KindOf
    <2>4. CASE q = "get_peers"
      BY <2>1, <2>4 DEF KindOf
    <2>5. CASE q = "get"
      BY <2>1, <2>5 DEF KindOf
    <2>6. CASE q = "announce_peer"
      BY <2>1, <2>6 DEF KindOf
    <2>7. CASE q = "put"
      BY <2>1, <2>7
    <2>8. QED
      BY <2>2, <2>3, <2>4, <2>5, <2>6, <2>7 DEF QueryNames
  <1> HIDE DEF res
  <1>5. QED
    BY <1>1, <1>2, <1>4 DEF ok, args

\* A query of the mainline crate is read as what was sent of it.
LEMMA RequestBack ==
  ASSUME NEW k \in RequestKinds, NEW args, OldStruct(args, OldRequests[k])
  PROVE  LET e == Old!EncodeRequest(k, args)
         IN /\ e.q = QueryName(k) /\ e.q \in QueryNames
            /\ e.args = [f \in DOMAIN ArgsSent(k, args) |-> Old!Write(f, ArgsSent(k, args)[f])]
            /\ Old!DecodeRequest(e.q, e.args) = [kind |-> k, args |-> ArgsSent(k, args)]
  <1> DEFINE s == ArgsSent(k, args)
             q == QueryName(k)
             dict == [f \in DOMAIN s |-> Old!Write(f, s[f])]
             shape == Old!DHTRequestSpecific[q]
             back == Old!Deserialized(dict, shape)
             e == Old!EncodeRequest(k, args)
  <1>1. RequestSent(k, args, q, s)
    BY RequestWritten
  <1> HIDE DEF s, q
  <1>2. /\ q \in QueryNames /\ OldStruct(s, shape) /\ e = [q |-> q, args |-> dict]
        /\ s = [f \in DOMAIN s |-> s[f]]
    BY <1>1, Zenon DEF RequestSent
  <1>3. e.q = q /\ e.args = dict
    <2> HIDE DEF dict, e
    <2>1. QED
      BY <1>2
  <1>4. /\ shape.required \subseteq DOMAIN s /\ DOMAIN s \subseteq Old!Fields(shape)
        /\ DOMAIN s \subseteq ArgumentFields
    BY <1>2 DEF OldStruct, IsStruct
  <1>5. "nodes" \notin Old!Fields(shape) /\ "values" \notin Old!Fields(shape)
    BY <1>2, QueryShapes DEF QueryNames
  <1> HIDE DEF shape
  <1>6. /\ Old!Deserializes(dict, shape)
        /\ DOMAIN back = DOMAIN s \cap Old!Fields(shape)
        /\ \A f \in DOMAIN back : OldTaken(f, back[f]) = s[f]
        /\ back = [f \in DOMAIN back |-> back[f]]
    <2>1. dict = [f \in DOMAIN s |-> Old!Write(f, s[f])]
      OBVIOUS
    <2> HIDE DEF dict
    <2>2. ReadBack(dict, shape, s, back)
      BY <1>2, <1>4, <2>1, StructRead, Zenon
    <2>3. QED
      BY <2>2, Zenon DEF ReadBack
  <1> HIDE DEF back, dict
  <1>7. \A f \in DOMAIN back : back[f] = s[f]
    <2> TAKE f \in DOMAIN back
    <2>1. f # "nodes" /\ f # "values" /\ OldTaken(f, back[f]) = s[f]
      BY <1>5, <1>6
    <2>2. QED
      BY <2>1 DEF OldTaken
  <1>8. back = s
    <2>1. DOMAIN back = DOMAIN s
      BY <1>4, <1>6
    <2>2. QED
      BY <1>2, <1>6, <1>7, <2>1
  <1>9. Old!DecodeRequest(q, dict) = DecodedAs(q, s)
    BY <1>2, <1>6, <1>8, RequestDecoded, Zenon DEF shape, back
  <1>10. DecodedAs(q, s) = [kind |-> k, args |-> s]
    <2>1. CASE k = "AnnouncePeer"
      <3>1. q = "announce_peer"
        BY <2>1 DEF QueryName, q
      <3>2. "implied_port" \in DOMAIN s /\ s["implied_port"] \in {0, 1}
        BY <1>1, <2>1, Zenon DEF RequestSent
      <3>3. \A f \in DOMAIN s : (IF f = "implied_port" THEN (IF s[f] # 0 THEN 1 ELSE 0) ELSE s[f]) = s[f]
        BY <3>2
      <3>4. Flagged(s) = s
        BY <1>2, <3>3 DEF Flagged
      <3>5. QED
        BY <2>1, <3>1, <3>4 DEF DecodedAs, KindOf
    <2>2. CASE k = "PutMutable"
      <3>1. q = "put"
        BY <2>2 DEF QueryName, q
      <3>2. {"k", "seq", "sig"} \subseteq DOMAIN s
        BY <1>1, <2>2, Zenon DEF RequestSent
      <3>3. Old!DecodePut(s) = [kind |-> "PutMutable", args |-> s]
        <4>1. ~ (DOMAIN s \cap {"k", "seq", "sig", "salt", "cas"} = {})
          BY <3>2
        <4>2. QED
          BY <3>2, <4>1 DEF Old!DecodePut
      <3>4. QED
        BY <2>2, <3>1, <3>3 DEF DecodedAs
    <2>3. CASE k = "PutImmutable"
      <3>1. q = "put"
        BY <2>3 DEF QueryName, q
      <3>2. DOMAIN s = {"id", "token", "target", "v"}
        BY <1>1, <2>3, Zenon DEF RequestSent
      <3>3. Old!DecodePut(s) = [kind |-> "PutImmutable", args |-> s]
        <4>1. ~ ({"k", "seq", "sig"} \subseteq DOMAIN s)
              /\ DOMAIN s \cap {"k", "seq", "sig", "salt", "cas"} = {}
          BY <3>2
        <4>2. QED
          BY <4>1 DEF Old!DecodePut
      <3>4. QED
        BY <2>3, <3>1, <3>3 DEF DecodedAs
    <2>4. CASE k \in {"Ping", "FindNode", "GetPeers", "GetValue"}
      <3>1. q # "put" /\ q # "announce_peer" /\ KindOf(q) = k
        BY <2>4 DEF QueryName, q, KindOf
      <3>2. QED
        BY <3>1 DEF DecodedAs
    <2>5. QED
      BY <2>1, <2>2, <2>3, <2>4 DEF RequestKinds
  <1>11. e.q = q /\ q \in QueryNames /\ e.args = dict /\ Old!DecodeRequest(e.q, e.args) = [kind |-> k, args |-> s]
    <2> HIDE DEF e
    <2>1. QED
      BY <1>2, <1>3, <1>9, <1>10
  <1>12. QED
    BY <1>11, Zenon DEF dict, s, q

\* The converse of ResponseDecoded: the first variant that fits is taken.
LEMMA ResponseTaken ==
  ASSUME NEW dict, NEW i \in 1..7, FirstFit(dict, i), NEW args,
         args = Old!Deserialized(dict, Old!DHTResponseSpecific[i].shape),
         \A f \in DOMAIN args : OldWhole(f, args[f])
  PROVE  Old!DecodeResponse(dict) =
           [kind |-> Kind(i), args |-> [f \in DOMAIN args |-> OldTaken(f, args[f])]]
  <1> DEFINE fits == {j \in DOMAIN Old!DHTResponseSpecific :
                        Old!Deserializes(dict, Old!DHTResponseSpecific[j].shape)}
             first == CHOOSE j \in fits : \A l \in fits : j <= l
             back == Old!Deserialized(dict, Old!DHTResponseSpecific[first].shape)
             res == [kind |-> Old!DHTResponseSpecific[first].kind,
                     args |-> [f \in DOMAIN back |->
                       CASE f = "nodes" -> Old!bytes_to_nodes4(back[f])
                         [] f = "values" -> [k \in DOMAIN back[f] |-> Old!bytes_to_sockaddr(back[f][k])]
                         [] OTHER -> back[f]]]
             badNodes == "nodes" \in DOMAIN back /\ ~ Old!WholeNodes(back.nodes)
             badPeers == "values" \in DOMAIN back /\ ~ Old!WholePeers(back.values)
  <1>1. Old!DecodeResponse(dict) =
          IF fits = {} THEN Refused ELSE IF badNodes THEN Refused ELSE IF badPeers THEN Refused ELSE res
    BY Zenon DEF Old!DecodeResponse, Old!Refused, Refused
  <1>2. DOMAIN Old!DHTResponseSpecific = 1..7
    BY DEF Old!DHTResponseSpecific
  <1>3. \A j : j \in fits <=> FitsAt(dict, j)
    BY <1>2 DEF FitsAt
  <1>4. fits \subseteq 1..7
    BY <1>2
  <1>5. i \in fits /\ \A j \in fits : i <= j
    <2> HIDE DEF fits
    <2>1. QED
      BY <1>3, <1>4 DEF FirstFit
  <1>6. first = i
    <2>1. first \in fits /\ \A j \in fits : first <= j
      <3> HIDE DEF fits
      <3>1. QED
        BY <1>5
    <2> HIDE DEF fits, first
    <2>2. first <= i /\ i <= first /\ first \in 1..7
      BY <1>4, <1>5, <2>1
    <2>3. QED
      BY <2>2
  <1> HIDE DEF first
  <1>7. back = args
    BY <1>6
  <1> HIDE DEF fits, back
  <1>8. fits # {} /\ ~ badNodes /\ ~ badPeers
    <2>1. fits # {}
      BY <1>5
    <2>2. "nodes" \in DOMAIN args => Old!WholeNodes(args["nodes"])
      BY DEF OldWhole
    <2>3. "values" \in DOMAIN args => Old!WholePeers(args["values"])
      BY DEF OldWhole
    <2>4. QED
      BY <1>7, <2>1, <2>2, <2>3
  <1>9. \A f : (CASE f = "nodes" -> Old!bytes_to_nodes4(args[f])
                  [] f = "values" -> [k \in DOMAIN args[f] |-> Old!bytes_to_sockaddr(args[f][k])]
                  [] OTHER -> args[f]) = OldTaken(f, args[f])
    <2> TAKE f
    <2> DEFINE n == Old!bytes_to_nodes4(args[f])
               v == [k \in DOMAIN args[f] |-> Old!bytes_to_sockaddr(args[f][k])]
    <2>1. OldTaken(f, args[f]) = IF f = "nodes" THEN n ELSE IF f = "values" THEN v ELSE args[f]
      BY Zenon DEF OldTaken
    <2> HIDE DEF n, v
    <2>2. (CASE f = "nodes" -> n [] f = "values" -> v [] OTHER -> args[f]) =
            IF f = "nodes" THEN n ELSE IF f = "values" THEN v ELSE args[f]
      OBVIOUS
    <2>3. QED
      BY <2>1, <2>2, Zenon DEF n, v
  <1> DEFINE taken(f) == CASE f = "nodes" -> Old!bytes_to_nodes4(args[f])
                  [] f = "values" -> [k \in DOMAIN args[f] |-> Old!bytes_to_sockaddr(args[f][k])]
                  [] OTHER -> args[f]
  <1>10. res = [kind |-> Kind(i), args |-> [f \in DOMAIN args |-> taken(f)]]
    BY <1>6, <1>7, Zenon DEF Kind
  <1>11. \A f : taken(f) = OldTaken(f, args[f])
    BY <1>9, Zenon
  <1> HIDE DEF taken, res, badNodes, badPeers
  <1>12. [f \in DOMAIN args |-> taken(f)] = [f \in DOMAIN args |-> OldTaken(f, args[f])]
    BY <1>11
  <1>13. Old!DecodeResponse(dict) = res
    BY <1>1, <1>8
  <1>14. QED
    BY <1>10, <1>12, <1>13, Zenon

\* A response of the mainline crate is taken for the variant that was sent, by
\* the order of the variants, and with all it has.
LEMMA ResponseBack ==
  ASSUME NEW k \in ResponseKinds, NEW s, OldStruct(s, OldResponses[k])
  PROVE  Old!DecodeResponse([f \in DOMAIN s |-> Old!Write(f, s[f])]) = [kind |-> k, args |-> s]
  <1> DEFINE dict == [f \in DOMAIN s |-> Old!Write(f, s[f])]
  <1>1. PICK i \in 1..7 : /\ Kind(i) = k /\ OldResponses[k].required = Needed(i)
                          /\ Old!Fields(OldResponses[k]) = Known(i)
    BY ResponseShapes
  <1> DEFINE shape == Old!DHTResponseSpecific[i].shape
             back == Old!Deserialized(dict, shape)
  <1>2. /\ Needed(i) \subseteq DOMAIN s /\ DOMAIN s \subseteq Known(i) /\ s = [f \in DOMAIN s |-> s[f]]
    BY <1>1 DEF OldStruct, IsStruct
  <1>3. shape.required = Needed(i) /\ Old!Fields(shape) = Known(i)
    BY DEF Needed, Known
  <1> HIDE DEF shape
  <1>4. /\ Old!Deserializes(dict, shape) /\ DOMAIN dict = DOMAIN s
        /\ DOMAIN back = DOMAIN s \cap Old!Fields(shape)
        /\ \A f \in DOMAIN back : OldWhole(f, back[f]) /\ OldTaken(f, back[f]) = s[f]
        /\ back = [f \in DOMAIN back |-> back[f]]
    <2>1. dict = [f \in DOMAIN s |-> Old!Write(f, s[f])]
      OBVIOUS
    <2>2. shape.required \subseteq DOMAIN s
      BY <1>2, <1>3
    <2> HIDE DEF dict
    <2>3. ReadBack(dict, shape, s, back)
      BY <2>1, <2>2, StructRead, Zenon
    <2>4. QED
      BY <2>3, Zenon DEF ReadBack
  <1> HIDE DEF dict
  <1>5. FirstFit(dict, i)
    <2>1. FitsAt(dict, i)
      BY <1>4 DEF FitsAt, shape
    <2>2. ASSUME NEW j \in 1..7, FitsAt(dict, j) PROVE i <= j
      <3>1. Needed(j) \subseteq DOMAIN dict
        BY <2>2, FitsIs
      <3>2. Needed(j) \subseteq Known(i)
        BY <1>2, <1>4, <3>1
      <3>3. ~ (j < i)
        BY <3>2, MostDetailedFirst
      <3>4. QED
        BY <3>3
    <2>3. QED
      BY <2>1, <2>2 DEF FirstFit
  <1>6. Old!DecodeResponse(dict) =
          [kind |-> Kind(i), args |-> [f \in DOMAIN back |-> OldTaken(f, back[f])]]
    BY <1>4, <1>5, ResponseTaken DEF shape
  <1> HIDE DEF back
  <1>7. [f \in DOMAIN back |-> OldTaken(f, back[f])] = s
    <2>1. DOMAIN back = DOMAIN s
      BY <1>2, <1>3, <1>4
    <2>2. QED
      BY <1>2, <1>4, <2>1
  <1>8. QED
    BY <1>1, <1>6, <1>7 DEF dict

\* What arrives of the body of a message.
Received(m) == IF m.type = "q" THEN ArgsSent(m.kind, m.args) ELSE m.args

\* AsReceived changes the fields of a message and leaves the rest alone.
LEMMA AsReceivedIs ==
  ASSUME NEW m, OldMessageOk(m)
  PROVE  AsReceived(m) =
           [transaction_id |-> m.transaction_id, version |-> m.version, requester_ip |-> m.requester_ip,
            read_only |-> m.read_only, type |-> m.type, kind |-> m.kind, args |-> Received(m)]
  <1> DEFINE a == m.args
             get == Only(a, {"id", "target", "seq"})
             announce == [f \in DOMAIN a \cup {"implied_port"} |->
                            IF f = "implied_port" THEN (IF "implied_port" \in DOMAIN a THEN 1 ELSE 0)
                                                  ELSE a[f]]
             r == CASE m.kind = "GetValue" -> get [] m.kind = "AnnouncePeer" -> announce [] OTHER -> a
  <1>1. AsReceived(m) = [m EXCEPT !.args = r]
    BY Zenon DEF AsReceived
  <1>2. \A k : ArgsSent(k, a) = IF k = "GetValue" THEN get ELSE IF k = "AnnouncePeer" THEN announce ELSE a
    BY Zenon DEF ArgsSent
  <1>3. m.type # "q" => m.kind # "GetValue" /\ m.kind # "AnnouncePeer"
    BY DEF OldMessageOk, OldBodyOk, ResponseKinds
  <1> HIDE DEF get, announce
  <1>4. r = Received(m)
    BY <1>2, <1>3 DEF Received
  <1> HIDE DEF r
  <1>5. m = [transaction_id |-> m.transaction_id, version |-> m.version, requester_ip |-> m.requester_ip,
          read_only |-> m.read_only, type |-> m.type, kind |-> m.kind, args |-> m.args]
    BY Zenon DEF OldMessageOk
  <1>6. QED
    <2> DEFINE x == Received(m)
    <2>1. AsReceived(m) = [m EXCEPT !.args = x]
      BY <1>1, <1>4, Zenon
    <2> HIDE DEF x
    <2>2. QED
      BY <1>5, <2>1 DEF x

\* The body of a message of the mainline crate.
BodySent(m) ==
  CASE m.type = "q" -> Old!EncodeRequest(m.kind, m.args)
    [] m.type = "r" -> Old!EncodeResponse(m.kind, m.args)
    [] m.type = "e" -> Old!EncodeError(m.args)

\* What is in a datagram of the mainline crate.
LEMMA OldSent ==
  ASSUME NEW m
  PROVE  LET w == Old!into_serde_message(m)
         IN /\ w.t = Bytes(m.transaction_id) /\ w.v = {Bytes(x) : x \in m.version}
            /\ w.ip = {Bytes(Old!sockaddr_to_bytes(a)) : a \in m.requester_ip}
            /\ w.ro = {Num(IF m.read_only THEN 1 ELSE 0)}
            /\ w.y = m.type /\ w.q = BodySent(m).q /\ w.args = BodySent(m).args
  <1> DEFINE w == Old!into_serde_message(m)
             t == Old!Bytes(m.transaction_id)
             v == {Old!Bytes(x) : x \in m.version}
             ip == {Old!Bytes(Old!sockaddr_to_bytes(a)) : a \in m.requester_ip}
             ro == {Old!Num(IF m.read_only THEN 1 ELSE 0)}
             b == BodySent(m)
  <1>1. w = [t |-> t, v |-> v, ip |-> ip, ro |-> ro, y |-> m.type, q |-> b.q, args |-> b.args]
    BY Zenon DEF Old!into_serde_message, BodySent
  <1>2. t = Bytes(m.transaction_id) /\ ro = {Num(IF m.read_only THEN 1 ELSE 0)}
    BY Constructors, Zenon
  <1>3. v = {Bytes(x) : x \in m.version} /\ ip = {Bytes(Old!sockaddr_to_bytes(a)) : a \in m.requester_ip}
    BY Constructors
  <1> HIDE DEF t, v, ip, ro, b, w
  <1>4. w.t = t /\ w.v = v /\ w.ip = ip /\ w.ro = ro /\ w.y = m.type /\ w.q = b.q /\ w.args = b.args
    BY <1>1
  <1>5. QED
    BY <1>2, <1>3, <1>4, Zenon DEF w, b

\* Its envelope is read as it was written.
LEMMA EnvelopeBack ==
  ASSUME NEW m, OldMessageOk(m), NEW w, w = Old!into_serde_message(m)
  PROVE  /\ Old!EnvelopeReads(w) /\ Old!AsBytes(w.t) = m.transaction_id
         /\ {Old!AsBytes(x) : x \in w.v} = m.version
         /\ {Old!bytes_to_sockaddr(Old!AsBytes(x)) : x \in w.ip} = m.requester_ip
         /\ (\E x \in w.ro : x.int > 0) = m.read_only
         /\ (\A x \in w.ip : IsValue(x))
  <1>1. /\ w.t = Bytes(m.transaction_id) /\ w.v = {Bytes(x) : x \in m.version}
        /\ w.ip = {Bytes(Old!sockaddr_to_bytes(a)) : a \in m.requester_ip}
        /\ w.ro = {Num(IF m.read_only THEN 1 ELSE 0)}
    BY OldSent
  <1>2. /\ m.transaction_id \in ByteArray(TidSize) /\ (\A v \in m.version : v \in ByteArray(TidSize))
        /\ (\A a \in m.requester_ip : a \in Address) /\ m.read_only \in BOOLEAN
    BY DEF OldMessageOk
  <1>3. ASSUME NEW s \in ByteArray(TidSize)
        PROVE  Old!ReadsAsBytes(Bytes(s)) /\ Old!AsBytes(Bytes(s)) = s /\ Len(s) = TidSize
    <2>1. s \in Seq(ByteValues) /\ Len(s) = TidSize
      BY Sizes, ArrayIs DEF ByteArray
    <2>2. QED
      BY <2>1, ByteString
  <1>4. ASSUME NEW a \in Address
        PROVE  LET s == Old!sockaddr_to_bytes(a)
               IN /\ Old!ReadsAsBytes(Bytes(s)) /\ Old!AsBytes(Bytes(s)) = s /\ Len(s) = Old!AddrSize
                  /\ Old!bytes_to_sockaddr(s) = a /\ IsValue(Bytes(s))
    <2> DEFINE s == Old!sockaddr_to_bytes(a)
    <2>1. s \in ByteArray(AddrSize) /\ Old!bytes_to_sockaddr(s) = a
      BY AddressBytes, AddressRoundTrip
    <2> HIDE DEF s
    <2>2. s \in Seq(ByteValues) /\ Len(s) = AddrSize
      BY <2>1, Sizes, ArrayIs DEF ByteArray, AddrSize
    <2>3. AddrSize = Old!AddrSize
      BY DEF AddrSize, Old!AddrSize
    <2>4. Old!ReadsAsBytes(Bytes(s)) /\ Old!AsBytes(Bytes(s)) = s /\ IsValue(Bytes(s))
      BY <2>2, ByteString
    <2>5. QED
      BY <2>1, <2>2, <2>3, <2>4, Zenon DEF s
  <1> DEFINE sb(a) == Old!sockaddr_to_bytes(a)
             rd(x) == Old!bytes_to_sockaddr(Old!AsBytes(x))
             n == IF m.read_only THEN 1 ELSE 0
  <1>5. \A x \in w.ip : \E a \in m.requester_ip : x = Bytes(sb(a))
    BY <1>1
  <1>6. \A x \in w.v : \E a \in m.version : x = Bytes(a)
    BY <1>1
  <1>7. \A x \in w.ip : Old!ReadsAsBytes(x) /\ Len(Old!AsBytes(x)) = Old!AddrSize /\ IsValue(x)
    BY <1>2, <1>4, <1>5, Zenon
  <1>8. \A x \in {w.t} \cup w.v : Old!ReadsAsBytes(x) /\ Len(Old!AsBytes(x)) = TidSize
    <2>1. \A x \in {w.t} \cup w.v : \E s \in ByteArray(TidSize) : x = Bytes(s)
      BY <1>1, <1>2, <1>6
    <2>2. QED
      BY <1>3, <2>1, ZenonT(60)
  <1>9. n \in {0, 1} /\ (n > 0) = m.read_only
    BY <1>2
  <1>10. /\ \A x \in w.ro : Old!IsI32(x)
         /\ (\E x \in w.ro : x.int > 0) = m.read_only
    <2> HIDE DEF n
    <2>1. w.ro = {Num(n)}
      BY <1>1 DEF n
    <2>2. Num(n).int = n /\ Old!IsInt(Num(n))
      BY Constructors
    <2>3. n \in (-I32Max - 1)..I32Max
      BY <1>9, Sizes
    <2>4. Old!IsI32(Num(n))
      BY <2>2, <2>3, Zenon DEF Old!IsI32
    <2>5. (\E x \in w.ro : x.int > 0) <=> (n > 0)
      BY <2>1, <2>2
    <2>6. (\E x \in w.ro : x.int > 0) <=> m.read_only = TRUE
      BY <1>9, <2>5, <1>2
    <2> DEFINE some == \E x \in w.ro : x.int > 0
    <2>7. some \in BOOLEAN /\ (some <=> m.read_only = TRUE) /\ m.read_only \in BOOLEAN
      BY <1>2, <2>6, Zenon
    <2> HIDE DEF some
    <2>8. some = m.read_only
      BY <2>7
    <2>9. QED
      BY <2>1, <2>4, <2>8, Zenon DEF some
  <1>11. Old!EnvelopeReads(w)
    BY <1>7, <1>8, <1>10, Zenon DEF Old!EnvelopeReads
  <1>12. {Old!AsBytes(x) : x \in w.v} = m.version
    <2>1. \A s \in m.version : Bytes(s) \in w.v /\ Old!AsBytes(Bytes(s)) = s
      BY <1>1, <1>2, <1>3
    <2>2. QED
      BY <1>6, <2>1
  <1>13. {Old!bytes_to_sockaddr(Old!AsBytes(x)) : x \in w.ip} = m.requester_ip
    <2>1. \A a \in m.requester_ip : Bytes(sb(a)) \in w.ip
      BY <1>1
    <2>2. \A a \in m.requester_ip : rd(Bytes(sb(a))) = a
      BY <1>2, <1>4, Zenon
    <2> HIDE DEF sb, rd
    <2>3. {rd(x) : x \in w.ip} = m.requester_ip
      BY <1>5, <2>1, <2>2
    <2>4. QED
      BY <2>3 DEF rd
  <1>14. Old!AsBytes(w.t) = m.transaction_id
    BY <1>1, <1>2, <1>3
  <1>15. QED
    BY <1>7, <1>10, <1>11, <1>12, <1>13, <1>14, Zenon

\* What is under "e" is read as it was written, by both crates.
LEMMA ErrorBack ==
  ASSUME NEW d, OldError(d)
  PROVE  LET e == Old!EncodeError(d)
         IN /\ Old!DecodeError(e.args) = [kind |-> "Error", args |-> d]
            /\ New!DecodeError(e.args) = d
  <1> DEFINE c == d["code"]
             s == d["description"]
             p == [code |-> Num(c), description |-> Bytes(s)]
  <1>1. Old!EncodeError(d).args = p
    BY DEF Old!EncodeError, Old!Num, Old!Bytes, Num, Bytes
  <1>2. d = [code |-> c, description |-> s] /\ IsI32(Num(c)) /\ IsUtf8(s)
    BY DEF OldError, IsError
  <1> HIDE DEF c, s
  <1>3. p.code = Num(c) /\ p.description = Bytes(s)
    OBVIOUS
  <1> HIDE DEF p
  <1>4. p.description.bytes = s /\ p.code.int = c /\ Old!IsBytes(p.description) /\ New!IsBytes(p.description)
        /\ New!IsInt(p.code)
    BY <1>3, Constructors, Zenon
  <1>5. Old!IsI32(p.code) /\ Old!IsUtf8(s)
    BY <1>2, <1>3 DEF Old!IsI32, IsI32, Old!IsInt, IsInt, Old!IsUtf8, IsUtf8
  <1>6. Old!DecodeError(p) = [kind |-> "Error", args |-> [code |-> c, description |-> s]]
    BY <1>4, <1>5, Zenon DEF Old!DecodeError
  <1>7. New!DecodeError(p) = [code |-> c, description |-> s]
    BY <1>4, Zenon DEF New!DecodeError
  <1>8. QED
    BY <1>1, <1>2, <1>6, <1>7, Zenon

\* A message of the mainline crate arrives as it was sent.
LEMMA OldBack ==
  ASSUME NEW m, OldMessageOk(m)
  PROVE  Old!from_serde_message(Old!into_serde_message(m)) = AsReceived(m)
  <1> DEFINE w == Old!into_serde_message(m)
             b == BodySent(m)
  <1>1. w.y = m.type /\ w.q = b.q /\ w.args = b.args
    BY OldSent
  <1>2. OldBodyOk(m)
    BY DEF OldMessageOk
  <1>3. OldBody(w) = [kind |-> m.kind, args |-> Received(m)]
    <2> DEFINE k == m.kind
               a == m.args
    <2>1. CASE m.type = "q"
      <3>1. k \in RequestKinds /\ OldStruct(a, OldRequests[k])
        BY <1>2, <2>1 DEF OldBodyOk
      <3>2. b = Old!EncodeRequest(k, a)
        BY <2>1 DEF BodySent
      <3> HIDE DEF w, b, k, a
      <3>3. Old!DecodeRequest(w.q, w.args) = [kind |-> k, args |-> ArgsSent(k, a)]
        BY <1>1, <3>1, <3>2, RequestBack, Zenon
      <3>4. OldBody(w) = Old!DecodeRequest(w.q, w.args)
        BY <1>1, <2>1 DEF OldBody
      <3>5. QED
        BY <2>1, <3>3, <3>4 DEF Received, k, a
    <2>2. CASE m.type = "r"
      <3>1. k \in ResponseKinds /\ OldStruct(a, OldResponses[k])
        BY <1>2, <2>2 DEF OldBodyOk
      <3>2. b = Old!EncodeResponse(k, a)
        BY <2>2 DEF BodySent
      <3>3. b.args = [f \in DOMAIN a |-> Old!Write(f, a[f])]
        <4> DEFINE wr == [f \in DOMAIN a |-> Old!Write(f, a[f])]
        <4>1. b = [q |-> "", args |-> wr]
          BY <3>2, Zenon DEF Old!EncodeResponse, Old!Written
        <4> HIDE DEF wr, b
        <4>2. b.args = wr
          BY <4>1
        <4>3. QED
          BY <4>2 DEF wr
      <3> HIDE DEF w, b, k, a
      <3>4. Old!DecodeResponse(w.args) = [kind |-> k, args |-> a]
        BY <1>1, <3>1, <3>3, ResponseBack, Zenon
      <3>5. OldBody(w) = Old!DecodeResponse(w.args)
        BY <1>1, <2>2 DEF OldBody
      <3>6. QED
        BY <2>2, <3>4, <3>5 DEF Received, k, a
    <2>3. CASE m.type = "e"
      <3>1. k = "Error" /\ OldError(a)
        BY <1>2, <2>3 DEF OldBodyOk
      <3>2. b = Old!EncodeError(a)
        BY <2>3 DEF BodySent
      <3> HIDE DEF w, b, k, a
      <3>3. Old!DecodeError(w.args) = [kind |-> k, args |-> a]
        BY <1>1, <3>1, <3>2, ErrorBack, Zenon
      <3>4. OldBody(w) = Old!DecodeError(w.args)
        BY <1>1, <2>3 DEF OldBody
      <3>5. QED
        BY <2>3, <3>3, <3>4 DEF Received, k, a
    <2>4. QED
      BY <1>2, <2>1, <2>2, <2>3 DEF OldBodyOk
  <1> DEFINE body == OldBody(w)
             x == Received(m)
  <1>4. body # Refused /\ body.kind = m.kind /\ body.args = x
    <2> HIDE DEF body, x
    <2>1. "kind" \in DOMAIN body /\ "kind" \notin DOMAIN Refused /\ body.kind = m.kind /\ body.args = x
      BY <1>3 DEF body, x, Refused
    <2>2. QED
      BY <2>1
  <1> DEFINE back == Old!from_serde_message(w)
  <1>5. /\ Old!EnvelopeReads(w) /\ Old!AsBytes(w.t) = m.transaction_id
        /\ {Old!AsBytes(y) : y \in w.v} = m.version
        /\ {Old!bytes_to_sockaddr(Old!AsBytes(y)) : y \in w.ip} = m.requester_ip
        /\ (\E y \in w.ro : y.int > 0) = m.read_only
    BY EnvelopeBack
  <1> HIDE DEF w
  <1>6. Accepted(back)
    BY <1>4, <1>5, OldAccepts, Zenon
  <1>7. back = [transaction_id |-> Old!AsBytes(w.t),
                version        |-> {Old!AsBytes(y) : y \in w.v},
                requester_ip   |-> {Old!bytes_to_sockaddr(Old!AsBytes(y)) : y \in w.ip},
                read_only      |-> \E y \in w.ro : y.int > 0,
                type           |-> w.y,
                kind           |-> body.kind,
                args           |-> body.args]
    BY <1>6, OldAccepts, Zenon
  <1>8. back = [transaction_id |-> m.transaction_id, version |-> m.version, requester_ip |-> m.requester_ip,
                read_only |-> m.read_only, type |-> m.type, kind |-> m.kind, args |-> x]
    BY <1>1, <1>4, <1>5, <1>7, Zenon
  <1>9. QED
    BY <1>8, AsReceivedIs, Zenon DEF w

\* What mainline-next makes of the dictionary of a datagram.
NewArgs(w) ==
  CASE w.y = "q" /\ w.q \in DOMAIN New!WireQuery -> New!Arguments(w.args, New!WireQuery[w.q])
    [] w.y = "r" -> New!Arguments(w.args, New!ResponseArguments)
    [] w.y = "e" -> New!DecodeError(w.args)
    [] OTHER -> New!Refused

\* ... and of the datagram, with what is in it.
NewMessage(w, args) ==
  [transaction_id |-> w.t.bytes, version |-> {x.bytes : x \in w.v},
   kind |-> w.y, query |-> IF w.y = "q" THEN w.q ELSE "", args |-> args,
   read_only |-> w.y = "q" /\ \E x \in w.ro : New!WireBool(x),
   requester_address |-> {New!AddressFromBytes(x.bytes) : x \in IF w.y = "q" THEN {} ELSE w.ip}]

\* What mainline-next makes of an envelope whose dictionary was read as args.
NewMessageOf(n, w, args) ==
  /\ n.transaction_id = w.t.bytes /\ n.version = {x.bytes : x \in w.v}
  /\ n.kind = w.y /\ n.query = (IF w.y = "q" THEN w.q ELSE "") /\ n.args = args
  /\ n.read_only = (w.y = "q" /\ \E x \in w.ro : New!WireBool(x))
  /\ n.requester_address = {New!AddressFromBytes(x.bytes) : x \in IF w.y = "q" THEN {} ELSE w.ip}
  /\ n # Refused /\ n # None

\* NewMessage has those fields, and is neither of the two marks.
LEMMA NewMessageFields ==
  ASSUME NEW w, NEW args PROVE NewMessageOf(NewMessage(w, args), w, args)
  <1> DEFINE tid == w.t.bytes
             version == {x.bytes : x \in w.v}
             q == IF w.y = "q" THEN w.q ELSE ""
             ro == w.y = "q" /\ \E x \in w.ro : New!WireBool(x)
             ip == {New!AddressFromBytes(x.bytes) : x \in IF w.y = "q" THEN {} ELSE w.ip}
             n == NewMessage(w, args)
  <1>1. n = [transaction_id |-> tid, version |-> version, kind |-> w.y, query |-> q, args |-> args,
             read_only |-> ro, requester_address |-> ip]
    BY Zenon DEF NewMessage
  <1> HIDE DEF tid, version, q, ro, ip, n
  <1>2. /\ n.transaction_id = tid /\ n.version = version /\ n.kind = w.y /\ n.query = q /\ n.args = args
        /\ n.read_only = ro /\ n.requester_address = ip
    BY <1>1
  <1>3. n # Refused /\ n # None
    <2>1. "version" \in DOMAIN n /\ "version" \notin DOMAIN Refused /\ "version" \notin DOMAIN None
      BY <1>1 DEF Refused, None
    <2>2. QED
      BY <2>1
  <1>4. QED
    BY <1>2, <1>3, Zenon DEF tid, version, q, ro, ip, n, NewMessageOf

\* Deserializing a WireMessage succeeds if the envelope and the dictionary can be
\* read, and what it gives.
LEMMA NewAccepts ==
  ASSUME NEW w
  PROVE  /\ Accepted(New!Decode(w)) <=> (New!EnvelopeReads(w) /\ NewArgs(w) # Refused)
         /\ Accepted(New!Decode(w)) => New!Decode(w) = NewMessage(w, NewArgs(w))
  <1> DEFINE args == NewArgs(w)
             env == New!EnvelopeReads(w)
             n == NewMessage(w, args)
  <1>1. New!Decode(w) = IF ~ env \/ args = Refused THEN Refused ELSE n
    BY Zenon DEF New!Decode, NewArgs, New!Refused, Refused, NewMessage
  <1>2. n # Refused /\ n # None
    BY NewMessageFields, ZenonT(60) DEF NewMessageOf
  <1>3. Refused # None
    <2>1. "refused" \in DOMAIN Refused /\ "refused" \notin DOMAIN None
      BY DEF Refused, None
    <2>2. QED
      BY <2>1
  <1> HIDE DEF env, n, args
  <1>4. /\ Accepted(New!Decode(w)) <=> (env /\ args # Refused)
        /\ Accepted(New!Decode(w)) => New!Decode(w) = n
    BY <1>1, <1>2, <1>3 DEF Accepted
  <1>5. QED
    BY <1>4 DEF env, n, args

\* Translated works field by field.
LEMMA TranslatedIs ==
  ASSUME NEW a PROVE Translated(a) = [f \in DOMAIN a |-> OneTranslated(f, a[f])]
  <1> DEFINE one(f) == CASE f = "implied_port" -> a[f] # 0 [] f = "v" -> Bytes(a[f]) [] OTHER -> a[f]
  <1>1. ASSUME NEW f PROVE one(f) = OneTranslated(f, a[f])
    <2> DEFINE x == a[f]
    <2>1. CASE f = "implied_port"
      BY <2>1 DEF OneTranslated
    <2>2. CASE f # "implied_port"
      BY <2>2 DEF OneTranslated
    <2>3. QED
      BY <2>1, <2>2
  <1>2. Translated(a) = [f \in DOMAIN a |-> one(f)]
    BY Zenon DEF Translated
  <1> HIDE DEF one
  <1>3. QED
    BY <1>1, <1>2

\* A dictionary with an id is not what a decoder returns when it refuses.
LEMMA NotRefused ==
  ASSUME NEW d, "id" \in DOMAIN d \/ "code" \in DOMAIN d PROVE d # Refused
  <1>1. "id" \notin DOMAIN Refused /\ "code" \notin DOMAIN Refused
    BY DEF Refused
  <1>2. QED
    BY <1>1

\* The envelope of a message of the mainline crate, as mainline-next reads it.
LEMMA EnvelopeForNew ==
  ASSUME NEW m, OldMessageOk(m), NEW w, w = Old!into_serde_message(m)
  PROVE  /\ New!EnvelopeReads(w) /\ w.t.bytes = m.transaction_id
         /\ {New!AddressFromBytes(x.bytes) : x \in w.ip} = m.requester_ip
         /\ (\E x \in w.ro : New!WireBool(x)) = m.read_only
  <1>1. /\ w.t = Bytes(m.transaction_id) /\ w.v = {Bytes(x) : x \in m.version}
        /\ w.ip = {Bytes(Old!sockaddr_to_bytes(a)) : a \in m.requester_ip}
        /\ w.ro = {Num(IF m.read_only THEN 1 ELSE 0)}
    BY OldSent
  <1>2. (\A a \in m.requester_ip : a \in Address) /\ m.read_only \in BOOLEAN
    BY DEF OldMessageOk
  <1> DEFINE sb(a) == Old!sockaddr_to_bytes(a)
             rd(x) == New!AddressFromBytes(x.bytes)
             n == IF m.read_only THEN 1 ELSE 0
  <1>3. ASSUME NEW a \in Address
        PROVE New!IsBytesOf(New!AddrBytes, Bytes(sb(a))) /\ rd(Bytes(sb(a))) = a
    <2> DEFINE s == Old!sockaddr_to_bytes(a)
    <2>1. s \in ByteArray(AddrSize) /\ Old!bytes_to_sockaddr(s) = a
      BY AddressBytes, AddressRoundTrip
    <2> HIDE DEF s
    <2>2. Len(s) = AddrSize
      BY <2>1, Sizes, ArrayIs DEF ByteArray, AddrSize
    <2>3. AddrSize = New!AddrBytes
      BY DEF AddrSize, New!AddrBytes
    <2>4. New!IsBytes(Bytes(s)) /\ Bytes(s).bytes = s
      BY Constructors
    <2>5. New!IsBytesOf(New!AddrBytes, Bytes(s))
      BY <2>2, <2>3, <2>4, Zenon DEF New!IsBytesOf
    <2>6. rd(Bytes(s)) = a
      BY <2>1, <2>4, SameBytesWritten, Zenon
    <2>7. QED
      BY <2>5, <2>6, Zenon DEF s
  <1>4. \A x \in w.ip : \E a \in m.requester_ip : x = Bytes(sb(a))
    BY <1>1
  <1>5. \A x \in w.ip : New!IsBytesOf(New!AddrBytes, x)
    BY <1>2, <1>3, <1>4, Zenon
  <1>6. {rd(x) : x \in w.ip} = m.requester_ip
    <2>1. \A a \in m.requester_ip : Bytes(sb(a)) \in w.ip
      BY <1>1
    <2>2. \A a \in m.requester_ip : rd(Bytes(sb(a))) = a
      BY <1>2, <1>3, Zenon
    <2> HIDE DEF sb, rd
    <2>3. QED
      BY <1>4, <2>1, <2>2
  <1>7. New!IsBytes(w.t) /\ w.t.bytes = m.transaction_id /\ \A x \in w.v : New!IsBytes(x)
    <2>1. New!IsBytes(w.t) /\ w.t.bytes = m.transaction_id
      BY <1>1, Constructors, ZenonT(60)
    <2>2. \A x \in w.v : \E s : x = Bytes(s)
      BY <1>1
    <2>3. QED
      BY <2>1, <2>2, Constructors, Zenon
  <1>8. (\A x \in w.ro : New!IsInt(x)) /\ (\E x \in w.ro : New!WireBool(x)) = m.read_only
    <2>0. n \in {0, 1} /\ (n # 0 <=> m.read_only = TRUE)
      BY <1>2
    <2>1. w.ro = {Num(n)}
      BY <1>1, Zenon
    <2> HIDE DEF n
    <2>2. Num(n).int = n /\ New!IsInt(Num(n))
      BY Constructors
    <2> DEFINE some == \E x \in w.ro : New!WireBool(x)
    <2>3. New!WireBool(Num(n)) <=> n # 0
      BY <2>2 DEF New!WireBool
    <2>4. some <=> m.read_only = TRUE
      <3>1. some <=> New!WireBool(Num(n))
        BY <2>1, Zenon
      <3> HIDE DEF some
      <3>2. QED
        BY <2>0, <2>3, <3>1, Zenon
    <2>5. some \in BOOLEAN
      BY Zenon
    <2> HIDE DEF some
    <2>6. some = m.read_only
      BY <1>2, <2>4, <2>5
    <2>7. QED
      BY <2>1, <2>2, <2>6, Zenon DEF some
  <1>9. New!EnvelopeReads(w)
    BY <1>5, <1>7, <1>8, Zenon DEF New!EnvelopeReads
  <1>10. QED
    BY <1>6, <1>7, <1>8, <1>9, Zenon

\* mainline-next reads every body that the mainline crate writes.
LEMMA BodyForNew ==
  ASSUME NEW m, OldMessageOk(m), NEW w, w = Old!into_serde_message(m)
  PROVE  LET args == Translated(Received(m))
         IN /\ NewArgs(w) # Refused
            /\ NewArgs(w) = IF m.kind \in {"PutImmutable", "PutMutable"}
                              THEN [f \in DOMAIN args \ {"target"} |-> args[f]] ELSE args
  <1> DEFINE k == m.kind
             s == Received(m)
             args == Translated(s)
             b == BodySent(m)
             dict == [f \in DOMAIN s |-> Old!Write(f, s[f])]
  <1>1. w.y = m.type /\ w.q = b.q /\ w.args = b.args
    BY OldSent
  <1>2. OldBodyOk(m)
    BY DEF OldMessageOk
  <1>3. args = [f \in DOMAIN s |-> OneTranslated(f, s[f])]
    BY TranslatedIs
  <1>4. CASE m.type = "q"
    <2> DEFINE q == QueryName(k)
               shape == New!WireQuery[q]
    <2>1. k \in RequestKinds /\ OldStruct(m.args, OldRequests[k]) /\ s = ArgsSent(k, m.args)
      BY <1>2, <1>4 DEF OldBodyOk, Received
    <2>2. b = Old!EncodeRequest(k, m.args)
      BY <1>4 DEF BodySent
    <2> HIDE DEF k, s, b, args
    <2>3. RequestSent(k, m.args, q, s)
      BY <2>1, RequestWritten
    <2>4. b.q = q /\ q \in QueryNames /\ b.args = dict
      <3>1. b = [q |-> q, args |-> dict] /\ q \in QueryNames
        BY <2>2, <2>3, Zenon DEF RequestSent
      <3> HIDE DEF q, dict
      <3>2. QED
        BY <3>1
    <2>5. OldStruct(s, Old!DHTRequestSpecific[q])
      BY <2>3, Zenon DEF RequestSent
    <2>6. k = "AnnouncePeer" => "implied_port" \in DOMAIN s
      BY <2>3, Zenon DEF RequestSent
    <2>7. q = "announce_peer" => k = "AnnouncePeer"
      BY <2>1 DEF RequestKinds, QueryName
    <2>8. (q = "put") <=> k \in {"PutImmutable", "PutMutable"}
      BY <2>1 DEF RequestKinds, QueryName
    <2> HIDE DEF q
    <2>9. /\ Old!DHTRequestSpecific[q].required \subseteq DOMAIN s
          /\ DOMAIN s \subseteq Old!Fields(Old!DHTRequestSpecific[q])
      BY <2>5 DEF OldStruct, IsStruct
    <2>10. /\ shape.required \subseteq DOMAIN s
           /\ "implied_port" \in New!Fields(shape) => "implied_port" \in DOMAIN s
           /\ "id" \in New!Fields(shape) /\ "id" \in DOMAIN s
           /\ DOMAIN s \cap New!Fields(shape) = IF q = "put" THEN DOMAIN s \ {"target"} ELSE DOMAIN s
      <3>1. CASE q = "put"
        BY <2>9, <3>1, QueryShapes
      <3>2. CASE q = "announce_peer"
        <4>1. /\ shape.required = {"id", "token", "info_hash", "port"}
              /\ New!Fields(shape) = {"id", "token", "info_hash", "port", "implied_port"}
          BY <3>2, QueryShapes DEF QueryNames
        <4>2. shape.required \subseteq DOMAIN s /\ DOMAIN s \subseteq New!Fields(shape)
          BY <2>9, <3>2, <4>1, QueryShapes
        <4> HIDE DEF shape
        <4>3. QED
          BY <2>6, <2>7, <3>2, <4>1, <4>2
      <3>3. CASE q \in {"ping", "find_node", "get_peers", "get"}
        <4>1. /\ shape.required = Old!DHTRequestSpecific[q].required
              /\ New!Fields(shape) = Old!Fields(Old!DHTRequestSpecific[q])
          BY <2>4, <3>3, QueryShapes
        <4>2. "implied_port" \notin Old!Fields(Old!DHTRequestSpecific[q])
              /\ "id" \in Old!DHTRequestSpecific[q].required
          BY <3>3, QueryShapes
        <4> HIDE DEF shape
        <4>3. QED
          BY <2>9, <3>3, <4>1, <4>2
      <3>4. QED
        BY <2>4, <3>1, <3>2, <3>3 DEF QueryNames
    <2> HIDE DEF shape
    <2> DEFINE E == DOMAIN s \cap New!Fields(shape)
               read == New!Arguments(dict, shape)
    <2>11. read = [f \in E |-> OneTranslated(f, s[f])]
      <3>1. dict = Old!Written(s)
        BY Zenon DEF Old!Written
      <3>2. shape.required \subseteq DOMAIN s
        BY <2>10
      <3>3. FlagSent(shape, s)
        BY <2>10 DEF FlagSent
      <3> HIDE DEF dict
      <3> DEFINE sh == Old!DHTRequestSpecific[q]
      <3>4. OldStruct(s, sh)
        BY <2>5
      <3> HIDE DEF sh
      <3>5. read = TranslatedPart(s, E)
        BY <3>1, <3>2, <3>3, <3>4, StructReadByNew, Zenon
      <3>6. QED
        BY <3>5, Zenon DEF TranslatedPart
    <2> HIDE DEF E
    <2>12. E = (IF q = "put" THEN DOMAIN s \ {"target"} ELSE DOMAIN s) /\ "id" \in E
      BY <2>10 DEF E
    <2> HIDE DEF read
    <2>13. read # Refused
      BY <2>11, <2>12, NotRefused
    <2>14. NewArgs(w) = read
      <3>1. w.q = q /\ w.y = "q" /\ w.args = dict /\ q \in DOMAIN New!WireQuery
        BY <1>1, <1>4, <2>4, QueryShapes
      <3> HIDE DEF dict
      <3>2. NewArgs(w) = New!Arguments(w.args, New!WireQuery[w.q])
        BY <3>1 DEF NewArgs
      <3>3. QED
        BY <3>1, <3>2, Zenon DEF read, shape
    <2>15. DOMAIN args = DOMAIN s /\ \A f \in DOMAIN s : args[f] = OneTranslated(f, s[f])
      BY <1>3
    <2>16. read = IF q = "put" THEN [f \in DOMAIN args \ {"target"} |-> args[f]] ELSE args
      <3>1. CASE q = "put"
        BY <2>11, <2>12, <2>15, <3>1
      <3>2. CASE q # "put"
        BY <2>11, <2>12, <1>3, <3>2
      <3>3. QED
        BY <3>1, <3>2
    <2>17. QED
      BY <2>8, <2>13, <2>14, <2>16 DEF k, args, s
  <1>5. CASE m.type = "r"
    <2> DEFINE shape == New!ResponseArguments
    <2>1. k \in ResponseKinds /\ OldStruct(m.args, OldResponses[k]) /\ s = m.args
      BY <1>2, <1>5 DEF OldBodyOk, Received
    <2>2. k \notin {"PutImmutable", "PutMutable"}
      BY <2>1 DEF ResponseKinds
    <2>3. b.args = dict
      <3>1. b = [q |-> "", args |-> dict]
        BY <1>5, <2>1 DEF BodySent, Old!EncodeResponse, Old!Written
      <3> HIDE DEF b, dict
      <3>2. QED
        BY <3>1
    <2> HIDE DEF k, s, b, args
    <2>4. PICK i \in 1..7 : /\ OldResponses[k].required = Needed(i)
                            /\ Old!Fields(OldResponses[k]) = Known(i)
      BY <2>1, ResponseShapes
    <2>5. Needed(i) \subseteq DOMAIN s /\ DOMAIN s \subseteq Known(i)
      BY <2>1, <2>4 DEF OldStruct, IsStruct
    <2>6. "id" \in Needed(i) /\ Known(i) \subseteq {"id", "token", "nodes", "values", "v", "k", "seq", "sig"}
      <3>1. i \in {1, 2, 3, 4, 5, 6, 7}
        OBVIOUS
      <3>2. QED
        BY <3>1, Variants
    <2>7. /\ shape.required \subseteq DOMAIN s /\ "implied_port" \notin New!Fields(shape)
          /\ DOMAIN s \cap New!Fields(shape) = DOMAIN s /\ "id" \in DOMAIN s
      BY <2>5, <2>6, QueryShapes
    <2> HIDE DEF shape
    <2> DEFINE E == DOMAIN s \cap New!Fields(shape)
               read == New!Arguments(dict, shape)
    <2>8. read = [f \in E |-> OneTranslated(f, s[f])]
      <3>1. dict = Old!Written(s)
        BY Zenon DEF Old!Written
      <3>2. OldStruct(s, OldResponses[k])
        BY <2>1
      <3> HIDE DEF dict
      <3>3. FlagSent(shape, s)
        BY <2>7 DEF FlagSent
      <3>4. read = TranslatedPart(s, E)
        BY <2>7, <3>1, <3>2, <3>3, StructReadByNew, Zenon
      <3>5. QED
        BY <3>4, Zenon DEF TranslatedPart
    <2>9. E = DOMAIN s
      BY <2>7
    <2> HIDE DEF read, E
    <2>10. read = args
      BY <1>3, <2>8, <2>9
    <2>11. "id" \in DOMAIN read
      BY <2>7, <2>8, <2>9
    <2>12. NewArgs(w) = read
      <3>1. w.y = "r" /\ w.args = dict
        BY <1>1, <1>5, <2>3
      <3> HIDE DEF dict
      <3>2. NewArgs(w) = New!Arguments(w.args, New!ResponseArguments)
        BY <3>1 DEF NewArgs
      <3>3. QED
        BY <3>1, <3>2, Zenon DEF read, shape
    <2>13. QED
      BY <2>2, <2>10, <2>11, <2>12, NotRefused DEF k, args, s
  <1>6. CASE m.type = "e"
    <2>1. k = "Error" /\ OldError(m.args) /\ s = m.args
      BY <1>2, <1>6 DEF OldBodyOk, Received
    <2>2. b = Old!EncodeError(m.args)
      BY <1>6 DEF BodySent
    <2> HIDE DEF k, s, b, args
    <2>3. New!DecodeError(w.args) = s
      BY <1>1, <2>1, <2>2, ErrorBack, Zenon
    <2>4. NewArgs(w) = s
      BY <1>1, <1>6, <2>3 DEF NewArgs
    <2>5. s = [f \in DOMAIN s |-> s[f]] /\ DOMAIN s = {"code", "description"}
      BY <2>1 DEF OldError, IsError
    <2>6. \A f \in DOMAIN s : OneTranslated(f, s[f]) = s[f]
      BY <2>5 DEF OneTranslated
    <2>7. args = s /\ "code" \in DOMAIN s
      BY <1>3, <2>5, <2>6
    <2>8. QED
      BY <2>1, <2>4, <2>7, NotRefused DEF k, args, s
  <1>7. QED
    BY <1>2, <1>4, <1>5, <1>6 DEF OldBodyOk

\* mainline-next reads every message of the mainline crate.
LEMMA OldReadByNew ==
  ASSUME OriginInv, DatagramInv PROVE NewReadsOld
  <1> DEFINE m == origin.msg
             a == AsReceived(m)
             args == Translated(a.args)
  <1> SUFFICES ASSUME Read, origin.by = "old"
               PROVE  /\ Accepted(new)
                      /\ new.transaction_id = a.transaction_id
                      /\ new.args = IF a.kind \in {"PutImmutable", "PutMutable"}
                                      THEN [f \in DOMAIN args \ {"target"} |-> args[f]] ELSE args
                      /\ a.type = "q" => new.read_only = a.read_only
                      /\ a.type # "q" => new.requester_address = a.requester_ip
    BY Zenon DEF NewReadsOld
  <1>1. new = New!Decode(wire) /\ wire # None
    BY WhatWasRead DEF DatagramInv, Read
  <1>2. OldMessageOk(m) /\ wire = Old!into_serde_message(m)
    BY <1>1 DEF OriginInv
  <1>3. /\ a.transaction_id = m.transaction_id /\ a.requester_ip = m.requester_ip
        /\ a.read_only = m.read_only /\ a.type = m.type /\ a.kind = m.kind /\ a.args = Received(m)
    <2> DEFINE r == Received(m)
    <2>1. a = [transaction_id |-> m.transaction_id, version |-> m.version, requester_ip |-> m.requester_ip,
               read_only |-> m.read_only, type |-> m.type, kind |-> m.kind, args |-> r]
      BY <1>2, AsReceivedIs
    <2> HIDE DEF a, r, m
    <2>2. QED
      BY <2>1 DEF r
  <1> HIDE DEF m, a
  <1>4. /\ New!EnvelopeReads(wire) /\ wire.t.bytes = m.transaction_id
        /\ {New!AddressFromBytes(x.bytes) : x \in wire.ip} = m.requester_ip
        /\ (\E x \in wire.ro : New!WireBool(x)) = m.read_only
    BY <1>2, EnvelopeForNew, Zenon
  <1>5. wire.y = m.type
    BY <1>2, OldSent
  <1>6. /\ NewArgs(wire) # Refused
        /\ NewArgs(wire) = IF m.kind \in {"PutImmutable", "PutMutable"}
                             THEN [f \in DOMAIN args \ {"target"} |-> args[f]] ELSE args
    BY <1>2, <1>3, BodyForNew, Zenon
  <1>7. Accepted(new) /\ new = NewMessage(wire, NewArgs(wire))
    BY <1>1, <1>4, <1>6, NewAccepts, Zenon
  <1>8. /\ new.transaction_id = wire.t.bytes /\ new.args = NewArgs(wire)
        /\ new.read_only = (wire.y = "q" /\ \E x \in wire.ro : New!WireBool(x))
        /\ new.requester_address = {New!AddressFromBytes(x.bytes) : x \in IF wire.y = "q" THEN {} ELSE wire.ip}
    <2>1. NewMessageOf(new, wire, NewArgs(wire))
      BY <1>7, NewMessageFields, Zenon
    <2>2. QED
      BY <2>1, Zenon DEF NewMessageOf
  <1>9. m.type = "q" => new.read_only = m.read_only
    <2> DEFINE some == \E x \in wire.ro : New!WireBool(x)
    <2>1. new.read_only = (wire.y = "q" /\ some) /\ some = m.read_only /\ some \in BOOLEAN
      BY <1>4, <1>8, Zenon
    <2> HIDE DEF some
    <2>2. QED
      BY <1>5, <2>1
  <1>10. m.type # "q" => new.requester_address = m.requester_ip
    <2> DEFINE rd(x) == New!AddressFromBytes(x.bytes)
    <2>1. new.requester_address = {rd(x) : x \in IF wire.y = "q" THEN {} ELSE wire.ip}
          /\ {rd(x) : x \in wire.ip} = m.requester_ip
      BY <1>4, <1>8, Zenon
    <2> HIDE DEF rd
    <2>2. QED
      BY <1>5, <2>1
  <1> HIDE DEF args
  <1>11. QED
    BY <1>3, <1>4, <1>6, <1>7, <1>8, <1>9, <1>10, Zenon

\* What is in a datagram of mainline-next.
LEMMA NewSent ==
  ASSUME NEW m
  PROVE  LET w == New!Encode(m)
         IN /\ w.t = Bytes(m.transaction_id) /\ w.v = {Bytes(x) : x \in m.version}
            /\ w.ip = {Bytes(Old!sockaddr_to_bytes(a)) : a \in m.requester_address}
            /\ w.ro = (IF m.kind = "q" /\ m.read_only THEN {Num(1)} ELSE {})
            /\ w.y = m.kind /\ w.q = m.query /\ w.args = New!Written(m.args)
  <1> DEFINE w == New!Encode(m)
             t == New!Bytes(m.transaction_id)
             v == {New!Bytes(x) : x \in m.version}
             ip == {New!Bytes(New!AddressToBytes(a)) : a \in m.requester_address}
             ro == IF m.kind = "q" /\ m.read_only THEN {New!Num(1)} ELSE {}
             args == New!Written(m.args)
  <1>1. w = [t |-> t, v |-> v, y |-> m.kind, q |-> m.query, args |-> args, ro |-> ro, ip |-> ip]
    BY Zenon DEF New!Encode
  <1>2. t = Bytes(m.transaction_id) /\ ro = (IF m.kind = "q" /\ m.read_only THEN {Num(1)} ELSE {})
    BY Constructors, Zenon
  <1>3. v = {Bytes(x) : x \in m.version}
    BY Constructors
  <1>4. \A a : New!Bytes(New!AddressToBytes(a)) = Bytes(Old!sockaddr_to_bytes(a))
    BY Constructors, SameBytesWritten, Zenon
  <1>5. ip = {Bytes(Old!sockaddr_to_bytes(a)) : a \in m.requester_address}
    BY <1>4
  <1> HIDE DEF t, v, ip, ro, args, w
  <1>6. w.t = t /\ w.v = v /\ w.ip = ip /\ w.ro = ro /\ w.y = m.kind /\ w.q = m.query /\ w.args = args
    BY <1>1
  <1>7. QED
    BY <1>2, <1>3, <1>5, <1>6, Zenon DEF w, args

\* mainline-next writes every field that it has, but for a flag that is not set.
LEMMA NewWritten ==
  ASSUME NEW args
  PROVE  LET d == New!Written(args)
         IN /\ DOMAIN d = {g \in DOMAIN args : g = "implied_port" => args[g]}
            /\ \A f \in DOMAIN d : d[f] = New!Write(f, args[f])
            /\ d = [f \in DOMAIN d |-> d[f]]
  BY DEF New!Written

\* All that a field of a query or a response, or its address, holds is bencode.
HoldsValues(w) ==
  /\ w.y # "e" => \A f \in DOMAIN w.args \cap ArgumentFields : IsValue(w.args[f])
  /\ \A x \in w.ip : IsValue(x)

\* Whoever sent it, a datagram consists of bencoded values.
LEMMA ValuesSent ==
  ASSUME OriginInv, wire # None PROVE HoldsValues(wire)
  <1>1. CASE origin.by = "old" /\ OldMessageOk(origin.msg) /\ wire = Old!into_serde_message(origin.msg)
    <2> DEFINE m == origin.msg
               s == Received(m)
    <2>1. OldMessageOk(m) /\ wire = Old!into_serde_message(m)
      BY <1>1
    <2> HIDE DEF m
    <2>2. \A x \in wire.ip : IsValue(x)
      BY <2>1, EnvelopeBack, Zenon
    <2>3. wire.y = m.type /\ wire.args = BodySent(m).args
      BY <2>1, OldSent
    <2>4. ASSUME wire.y # "e" PROVE \A f \in DOMAIN wire.args \cap ArgumentFields : IsValue(wire.args[f])
      <3> DEFINE dict == [f \in DOMAIN s |-> Old!Write(f, s[f])]
                 b == BodySent(m)
      <3>1. wire.args = dict /\ \A f \in DOMAIN s : OldHolds(f, s[f])
        <4>1. OldBodyOk(m)
          BY <2>1 DEF OldMessageOk
        <4>2. CASE m.type = "q"
          <5> DEFINE k == m.kind
                     q == QueryName(k)
          <5>1. k \in RequestKinds /\ OldStruct(m.args, OldRequests[k]) /\ s = ArgsSent(k, m.args)
            BY <4>1, <4>2 DEF OldBodyOk, Received
          <5>2. b = Old!EncodeRequest(k, m.args)
            BY <4>2 DEF BodySent
          <5> HIDE DEF k, s, b
          <5>3. RequestSent(k, m.args, q, s)
            BY <5>1, RequestWritten
          <5>4. b = [q |-> q, args |-> dict] /\ OldStruct(s, Old!DHTRequestSpecific[q])
            BY <5>2, <5>3, Zenon DEF RequestSent
          <5> HIDE DEF q
          <5>5. \A f \in DOMAIN s : OldHolds(f, s[f])
            BY <5>4 DEF OldStruct
          <5>6. b.args = dict
            <6> HIDE DEF dict
            <6>1. QED
              BY <5>4
          <5>7. QED
            BY <2>3, <5>5, <5>6 DEF b
        <4>3. CASE m.type = "r"
          <5>1. OldStruct(m.args, OldResponses[m.kind]) /\ s = m.args
            BY <4>1, <4>3 DEF OldBodyOk, Received
          <5>2. b = [q |-> "", args |-> dict]
            BY <4>3, <5>1 DEF BodySent, Old!EncodeResponse, Old!Written
          <5>3. \A f \in DOMAIN s : OldHolds(f, s[f])
            BY <5>1 DEF OldStruct
          <5> HIDE DEF b, dict
          <5>4. b.args = dict
            BY <5>2
          <5>5. QED
            BY <2>3, <5>3, <5>4 DEF b
        <4>4. QED
          BY <2>3, <2>4, <4>1, <4>2, <4>3 DEF OldBodyOk
      <3>2. DOMAIN wire.args = DOMAIN s /\ \A f \in DOMAIN s : wire.args[f] = Old!Write(f, s[f])
        BY <3>1
      <3>3. ASSUME NEW f \in DOMAIN wire.args \cap ArgumentFields PROVE IsValue(wire.args[f])
        <4>1. Survives(f, s[f])
          BY <3>1, <3>2, FieldSurvives
        <4>2. IsValue(Old!Write(f, s[f]))
          BY <4>1, Zenon DEF Survives
        <4>3. QED
          BY <3>2, <4>2
      <3>4. QED
        BY <3>3
    <2>5. QED
      BY <2>2, <2>4 DEF HoldsValues
  <1>2. CASE origin.by = "new" /\ NewMessageOk(origin.msg) /\ wire = New!Encode(origin.msg)
    <2> DEFINE m == origin.msg
               a == m.args
    <2>1. NewMessageOk(m) /\ wire = New!Encode(m)
      BY <1>2
    <2> HIDE DEF m
    <2>2. /\ wire.ip = {Bytes(Old!sockaddr_to_bytes(x)) : x \in m.requester_address}
          /\ wire.y = m.kind /\ wire.args = New!Written(m.args)
      BY <2>1, NewSent
    <2>3. ASSUME NEW x \in wire.ip PROVE IsValue(x)
      <3>1. PICK y \in m.requester_address : x = Bytes(Old!sockaddr_to_bytes(y))
        BY <2>2
      <3>2. y \in Address
        BY <2>1 DEF NewMessageOk
      <3>3. Old!sockaddr_to_bytes(y) \in ByteArray(AddrSize)
        BY <3>2, AddressBytes
      <3>4. Old!sockaddr_to_bytes(y) \in Seq(ByteValues)
        BY <3>3, Sizes, ArrayIs DEF ByteArray, AddrSize
      <3>5. QED
        BY <3>1, <3>4, ByteString
    <2>4. ASSUME wire.y # "e" PROVE \A f \in DOMAIN wire.args \cap ArgumentFields : IsValue(wire.args[f])
      <3> DEFINE d == New!Written(a)
      <3>1. \A f \in DOMAIN a : NewHolds(f, a[f])
        <4>1. NewBodyOk(m) /\ m.kind # "e"
          BY <2>1, <2>2, <2>4 DEF NewMessageOk
        <4>2. \E shape : NewStruct(a, shape)
          BY <4>1, Zenon DEF NewBodyOk
        <4>3. QED
          BY <4>2 DEF NewStruct
      <3>2. /\ DOMAIN d \subseteq DOMAIN a /\ \A f \in DOMAIN d : d[f] = New!Write(f, a[f])
        <4> HIDE DEF a
        <4>1. DOMAIN d = {g \in DOMAIN a : g = "implied_port" => a[g]}
          BY ONLY NewWritten, Zenon DEF d
        <4>2. \A f \in DOMAIN d : d[f] = New!Write(f, a[f])
          BY ONLY NewWritten, Zenon DEF d
        <4>3. QED
          BY ONLY <4>1, <4>2, Zenon
      <3>3. wire.args = d
        BY <2>2
      <3> HIDE DEF d, a
      <3>4. ASSUME NEW f \in DOMAIN d \cap ArgumentFields PROVE IsValue(d[f])
        <4>1. NewHolds(f, a[f])
          BY <3>1, <3>2
        <4>2. IsValue(New!Write(f, a[f]))
          BY <4>1, NewFieldSurvives
        <4>3. QED
          BY <3>2, <4>2
      <3>5. QED
        BY <3>3, <3>4
    <2>5. QED
      BY <2>3, <2>4 DEF HoldsValues
  <1>3. CASE origin.by = "foreign" /\ ForeignOk(wire)
    BY <1>3 DEF ForeignOk, HoldsValues
  <1>4. QED
    BY <1>1, <1>2, <1>3 DEF OriginInv

\* What was made of a query that the mainline crate accepts.
LEMMA RequestAccepted ==
  ASSUME NEW w, w.y = "q", Accepted(Old!from_serde_message(w))
  PROVE  LET m == Old!from_serde_message(w)
         IN /\ m.type = "q" /\ w.q \in QueryNames
            /\ Old!Deserializes(w.args, Old!DHTRequestSpecific[w.q])
            /\ DOMAIN m.args = DOMAIN w.args \cap Old!Fields(Old!DHTRequestSpecific[w.q])
            /\ \A f \in DOMAIN m.args :
                 /\ Old!Reads(f, w.args[f]) /\ f # "nodes" /\ f # "values"
                 /\ f # "implied_port" => m.args[f] = Old!Read(f, w.args[f])
                 /\ f = "implied_port" => m.args[f] = IF Old!Read(f, w.args[f]) # 0 THEN 1 ELSE 0
  <1> DEFINE m == Old!from_serde_message(w)
             body == OldBody(w)
             q == w.q
             shape == Old!DHTRequestSpecific[q]
             args == Old!Deserialized(w.args, shape)
  <1>1. body = Old!DecodeRequest(q, w.args)
    BY DEF OldBody
  <1>2. body # Refused /\ m.type = w.y /\ m.args = body.args
    <2>1. Accepted(m) => body # Refused
      BY OldAccepts
    <2>2. Accepted(m) =>
                 m = [transaction_id |-> Old!AsBytes(w.t),
                      version        |-> {Old!AsBytes(x) : x \in w.v},
                      requester_ip   |-> {Old!bytes_to_sockaddr(Old!AsBytes(x)) : x \in w.ip},
                      read_only      |-> \E x \in w.ro : x.int > 0,
                      type           |-> w.y,
                      kind           |-> body.kind,
                      args           |-> body.args]
      BY OldAccepts
    <2> HIDE DEF body, m
    <2>3. QED
      BY <2>1, <2>2 DEF m
  <1>3. q \in QueryNames
    <2>1. q \notin DOMAIN Old!DHTRequestSpecific => Old!DecodeRequest(q, w.args) = Refused
      BY Zenon DEF Old!DecodeRequest, Old!Refused, Refused
    <2>2. QED
      BY <1>1, <1>2, <2>1, QueryShapes
  <1>4. Old!Deserializes(w.args, shape) /\ body = DecodedAs(q, args)
    <2> HIDE DEF body, args, shape, q
    <2>1. Old!DecodeRequest(q, w.args) = IF Old!Deserializes(w.args, shape) THEN DecodedAs(q, args) ELSE Refused
      BY <1>3, RequestDecoded DEF args, shape
    <2>2. QED
      BY <1>1, <1>2, <2>1, Zenon
  <1>5. "nodes" \notin Old!Fields(shape) /\ "values" \notin Old!Fields(shape)
        /\ (q # "announce_peer" => "implied_port" \notin Old!Fields(shape))
    BY <1>3, QueryShapes DEF QueryNames
  <1>6. /\ DOMAIN args = DOMAIN w.args \cap Old!Fields(shape)
        /\ \A f \in DOMAIN args : args[f] = Old!Read(f, w.args[f]) /\ Old!Reads(f, w.args[f])
    BY <1>4 DEF Old!Deserialized, Old!Deserializes
  <1> HIDE DEF body, args, shape, m
  <1>7. body.args = IF q = "announce_peer" THEN Flagged(args) ELSE args
    <2>1. CASE q = "put"
      <3>1. body = Old!DecodePut(args)
        BY <1>4, <2>1 DEF DecodedAs
      <3>2. body.args = args
        BY <1>2, <3>1 DEF Old!DecodePut, Old!Refused, Refused
      <3>3. QED
        BY <2>1, <3>2
    <2>2. CASE q # "put"
      <3> DEFINE r == IF q = "announce_peer" THEN Flagged(args) ELSE args
      <3>1. body = [kind |-> KindOf(q), args |-> r]
        BY <1>4, <2>2, Zenon DEF DecodedAs
      <3> HIDE DEF r
      <3>2. body.args = r
        BY <3>1
      <3>3. QED
        BY <3>2 DEF r
    <2>3. QED
      BY <2>1, <2>2
  <1>8. /\ DOMAIN body.args = DOMAIN args
        /\ \A f \in DOMAIN args : /\ f # "implied_port" => body.args[f] = args[f]
                                  /\ f = "implied_port" => body.args[f] = IF args[f] # 0 THEN 1 ELSE 0
    <2>1. CASE q = "announce_peer"
      BY <1>7, <2>1 DEF Flagged
    <2>2. CASE q # "announce_peer"
      <3>1. "implied_port" \notin DOMAIN args
        BY <1>5, <1>6, <2>2
      <3>2. QED
        BY <1>7, <2>2, <3>1
    <2>3. QED
      BY <2>1, <2>2
  <1>9. /\ m.type = "q" /\ DOMAIN m.args = DOMAIN args /\ m.args = body.args
    BY <1>2, <1>8
  <1>10. \A f \in DOMAIN m.args :
                 /\ Old!Reads(f, w.args[f]) /\ f # "nodes" /\ f # "values"
                 /\ f # "implied_port" => m.args[f] = Old!Read(f, w.args[f])
                 /\ f = "implied_port" => m.args[f] = IF Old!Read(f, w.args[f]) # 0 THEN 1 ELSE 0
    BY <1>5, <1>6, <1>8, <1>9
  <1>11. DOMAIN m.args = DOMAIN w.args \cap Old!Fields(shape)
    BY <1>6, <1>9
  <1>12. QED
    BY <1>3, <1>4, <1>9, <1>10, <1>11 DEF m, shape

\* The struct that mainline-next reads a query or a response into.
NewShape(w) == IF w.y = "q" THEN New!WireQuery[w.q] ELSE New!ResponseArguments

\* What was made of a query or a response that mainline-next accepts.
LEMMA NewAccepted ==
  ASSUME NEW w, w.y # "e", Accepted(New!Decode(w))
  PROVE  LET n == New!Decode(w)
             shape == NewShape(w)
         IN /\ w.y \in {"q", "r"} /\ (w.y = "q" => w.q \in QueryNames)
            /\ NewMessageOf(n, w, n.args) /\ New!EnvelopeReads(w)
            /\ shape.required \subseteq DOMAIN w.args
            /\ DOMAIN n.args = (DOMAIN w.args \cap New!Fields(shape))
                                 \cup (New!Fields(shape) \cap {"implied_port"})
            /\ n.args = [f \in DOMAIN n.args |-> n.args[f]]
            /\ \A f \in DOMAIN n.args \cap DOMAIN w.args :
                 New!Reads(f, w.args[f]) /\ n.args[f] = New!Read(f, w.args[f])
            /\ \A f \in DOMAIN n.args \ DOMAIN w.args : n.args[f] = FALSE
  <1> DEFINE n == New!Decode(w)
             shape == NewShape(w)
             args == NewArgs(w)
             F == New!Fields(shape)
             D == (DOMAIN w.args \cap F) \cup (F \cap {"implied_port"})
             ok == shape.required \subseteq DOMAIN w.args /\
                   \A f \in DOMAIN w.args \cap F : New!Reads(f, w.args[f])
             res == [f \in D |-> IF f \in DOMAIN w.args THEN New!Read(f, w.args[f]) ELSE FALSE]
  <1>1. New!EnvelopeReads(w) /\ args # Refused /\ n = NewMessage(w, args)
    BY NewAccepts
  <1>2. New!Refused = Refused
    BY DEF New!Refused, Refused
  <1>3. w.y \in {"q", "r"} /\ (w.y = "q" => w.q \in DOMAIN New!WireQuery) /\ args = New!Arguments(w.args, shape)
    <2>1. CASE w.y = "q" /\ w.q \in DOMAIN New!WireQuery
      BY <2>1 DEF NewArgs, NewShape
    <2>2. CASE w.y = "r"
      BY <2>2 DEF NewArgs, NewShape
    <2>3. CASE w.y # "r" /\ ~ (w.y = "q" /\ w.q \in DOMAIN New!WireQuery)
      <3>1. args = New!Refused
        BY <2>3 DEF NewArgs
      <3>2. QED
        BY <1>1, <1>2, <3>1
    <2>4. QED
      BY <2>1, <2>2, <2>3
  <1> HIDE DEF shape
  <1>4. args = IF ok THEN res ELSE New!Refused
    BY <1>3, Zenon DEF New!Arguments
  <1>5. ok /\ args = res
    <2> HIDE DEF ok, res, args
    <2>1. QED
      BY <1>1, <1>2, <1>4
  <1> HIDE DEF args, n
  <1>6. NewMessageOf(n, w, args)
    BY <1>1, NewMessageFields, Zenon
  <1>7. n.args = args
    BY <1>6, Zenon DEF NewMessageOf
  <1> HIDE DEF F
  <1>8. DOMAIN args = D /\ args = [f \in DOMAIN args |-> args[f]]
    BY <1>5
  <1>9. \A f \in DOMAIN args \cap DOMAIN w.args : New!Reads(f, w.args[f]) /\ args[f] = New!Read(f, w.args[f])
    <2>1. \A f \in D \cap DOMAIN w.args : f \in DOMAIN w.args \cap F
      BY DEF D
    <2>2. \A f \in DOMAIN w.args \cap F : New!Reads(f, w.args[f])
      BY <1>5
    <2> HIDE DEF ok
    <2>3. QED
      BY <1>5, <1>8, <2>1, <2>2
  <1>10. \A f \in DOMAIN args \ DOMAIN w.args : args[f] = FALSE
    <2> HIDE DEF ok
    <2>1. QED
      BY <1>5, <1>8
  <1>11. shape.required \subseteq DOMAIN w.args
    BY <1>5
  <1> HIDE DEF ok, res
  <1>12. (w.y = "q" => w.q \in QueryNames)
    BY <1>3, QueryShapes
  <1>13. QED
    BY <1>1, <1>3, <1>6, <1>7, <1>8, <1>9, <1>10, <1>11, <1>12, Zenon DEF n, shape, F

\* Where both accept a datagram, they agree on its fields.
LEMMA BothRead ==
  ASSUME OriginInv, DatagramInv PROVE BothAgree
  <1> SUFFICES ASSUME Read, Accepted(old), Accepted(new), old.type # "e",
                      NEW f \in DOMAIN old.args \cap DOMAIN new.args,
                      ~ (f = "v" /\ IsList(wire.args.v))
               PROVE  Translated(old.args)[f] = new.args[f]
    BY Zenon DEF BothAgree
  <1> DEFINE x == wire.args[f]
  <1>1. old = Old!from_serde_message(wire) /\ new = New!Decode(wire) /\ wire # None
    BY WhatWasRead DEF DatagramInv, Read
  <1>2. HoldsValues(wire)
    BY <1>1, ValuesSent
  <1>3. wire.y \in {"q", "r"} /\ wire.y # "e"
    <2> DEFINE body == OldBody(wire)
    <2>1. Accepted(old) => body # Refused
      BY <1>1, OldAccepts
    <2>2. Accepted(old) =>
                 old = [transaction_id |-> Old!AsBytes(wire.t),
                      version        |-> {Old!AsBytes(y) : y \in wire.v},
                      requester_ip   |-> {Old!bytes_to_sockaddr(Old!AsBytes(y)) : y \in wire.ip},
                      read_only      |-> \E y \in wire.ro : y.int > 0,
                      type           |-> wire.y,
                      kind           |-> body.kind,
                      args           |-> body.args]
      BY <1>1, OldAccepts
    <2>3. wire.y \notin {"q", "r", "e"} => body = Refused
      BY DEF OldBody
    <2> HIDE DEF body
    <2>4. QED
      BY <2>1, <2>2, <2>3
  <1>4. /\ f \in DOMAIN wire.args /\ f \in ArgumentFields /\ Old!Reads(f, x)
        /\ OneTranslated(f, old.args[f]) = OneTranslated(f, OldTaken(f, Old!Read(f, x)))
    <2>1. CASE wire.y = "q"
      <3> DEFINE shape == Old!DHTRequestSpecific[wire.q]
      <3>1. /\ wire.q \in QueryNames /\ DOMAIN old.args = DOMAIN wire.args \cap Old!Fields(shape)
            /\ Old!Reads(f, x) /\ f # "nodes" /\ f # "values"
            /\ f # "implied_port" => old.args[f] = Old!Read(f, x)
            /\ f = "implied_port" => old.args[f] = IF Old!Read(f, x) # 0 THEN 1 ELSE 0
        BY <1>1, <2>1, RequestAccepted
      <3>2. Old!Fields(shape) \subseteq ArgumentFields
        BY <3>1, QueryShapes DEF QueryNames, ArgumentFields
      <3> HIDE DEF shape
      <3>3. f \in DOMAIN wire.args /\ f \in ArgumentFields
        BY <3>1, <3>2
      <3> DEFINE r == Old!Read(f, x)
      <3>4. OldTaken(f, r) = r
        BY <3>1 DEF OldTaken
      <3> HIDE DEF r, x
      <3>5. OneTranslated(f, old.args[f]) = OneTranslated(f, r)
        <4>1. CASE f = "implied_port"
          <5>1. old.args[f] # 0 <=> r # 0
            BY <3>1, <4>1 DEF r
          <5>2. (old.args[f] # 0) = (r # 0)
            BY <5>1, Zenon
          <5>3. QED
            BY <4>1, <5>2, Zenon DEF OneTranslated
        <4>2. CASE f # "implied_port"
          BY <3>1, <4>2 DEF r
        <4>3. QED
          BY <4>1, <4>2
      <3>6. QED
        BY <3>1, <3>3, <3>4, <3>5, Zenon DEF r
    <2>2. CASE wire.y = "r"
      <3>1. PICK i \in 1..7 :
              /\ FirstFit(wire.args, i) /\ DOMAIN old.args = DOMAIN wire.args \cap Known(i)
              /\ \A g \in DOMAIN old.args \ {"nodes", "values"} : old.args[g] = Old!Read(g, wire.args[g])
              /\ "nodes" \in DOMAIN old.args =>
                   old.args["nodes"] = Old!bytes_to_nodes4(Old!Read("nodes", wire.args["nodes"]))
              /\ "values" \in DOMAIN old.args =>
                   LET l == Old!Read("values", wire.args["values"])
                   IN old.args["values"] = [k \in DOMAIN l |-> Old!bytes_to_sockaddr(l[k])]
        BY <1>1, <2>2, ResponseAccepted, Zenon
      <3>2. f \in DOMAIN wire.args /\ f \in Known(i)
        BY <3>1
      <3>3. Old!Reads(f, x)
        BY <3>1, <3>2, FitsIs DEF FirstFit
      <3>4. f \in ArgumentFields
        <4>1. i \in {1, 2, 3, 4, 5, 6, 7}
          OBVIOUS
        <4>2. Known(i) \subseteq ArgumentFields
          BY <4>1, Variants DEF ArgumentFields
        <4>3. QED
          BY <3>2, <4>2
      <3>5. old.args[f] = OldTaken(f, Old!Read(f, x))
        <4>1. CASE f = "nodes"
          BY <3>1, <4>1, Zenon DEF OldTaken
        <4>2. CASE f = "values"
          BY <3>1, <4>2 DEF OldTaken
        <4>3. CASE f # "nodes" /\ f # "values"
          BY <3>1, <4>3 DEF OldTaken
        <4>4. QED
          BY <4>1, <4>2, <4>3
      <3>6. QED
        BY <3>2, <3>3, <3>4, <3>5, Zenon
    <2>3. QED
      BY <1>3, <2>1, <2>2
  <1>5. New!Reads(f, x) /\ new.args[f] = New!Read(f, x)
    BY <1>1, <1>3, <1>4, NewAccepted
  <1>6. IsValue(x)
    BY <1>2, <1>3, <1>4 DEF HoldsValues
  <1>7. ~ (f = "v" /\ IsList(x))
    BY Zenon
  <1> HIDE DEF x
  <1>8. OneTranslated(f, OldTaken(f, Old!Read(f, x))) = New!Read(f, x)
    BY <1>4, <1>5, <1>6, <1>7, FieldsAgree
  <1>9. Translated(old.args)[f] = OneTranslated(f, old.args[f])
    <2> DEFINE a == old.args
    <2>1. Translated(a) = [g \in DOMAIN a |-> OneTranslated(g, a[g])] /\ f \in DOMAIN a
      BY TranslatedIs
    <2> HIDE DEF a
    <2>2. QED
      BY <2>1 DEF a
  <1>10. QED
    BY <1>4, <1>5, <1>8, <1>9, Zenon

\* What mainline-next read into a struct, written and read again.
LEMMA ArgumentsBack ==
  ASSUME NEW a, NEW shape, a = [f \in DOMAIN a |-> a[f]],
         New!Fields(shape) \subseteq ArgumentFields,
         "implied_port" \notin shape.required, shape.required \subseteq DOMAIN a,
         DOMAIN a \subseteq New!Fields(shape), New!Fields(shape) \cap {"implied_port"} \subseteq DOMAIN a,
         \A f \in DOMAIN a : NewHolds(f, a[f])
  PROVE  New!Arguments(New!Written(a), shape) = a
  <1> DEFINE d == New!Written(a)
             F == New!Fields(shape)
             E == (DOMAIN d \cap F) \cup (F \cap {"implied_port"})
             ok == shape.required \subseteq DOMAIN d /\ \A f \in DOMAIN d \cap F : New!Reads(f, d[f])
             res == [f \in E |-> IF f \in DOMAIN d THEN New!Read(f, d[f]) ELSE FALSE]
  <1>1. New!Arguments(d, shape) = IF ok THEN res ELSE New!Refused
    BY Zenon DEF New!Arguments
  <1>2. /\ DOMAIN d = {g \in DOMAIN a : g = "implied_port" => a[g]}
        /\ \A f \in DOMAIN d : d[f] = New!Write(f, a[f])
    BY NewWritten
  <1>3. "implied_port" \in DOMAIN a => a["implied_port"] \in BOOLEAN
    BY DEF NewHolds
  <1> HIDE DEF d
  <1>4. ASSUME NEW f \in DOMAIN d PROVE New!Reads(f, d[f]) /\ New!Read(f, d[f]) = a[f]
    <2>1. f \in DOMAIN a /\ f \in ArgumentFields /\ NewHolds(f, a[f]) /\ d[f] = New!Write(f, a[f])
      BY <1>2
    <2>2. QED
      BY <2>1, NewFieldSurvives
  <1>5. DOMAIN d \subseteq DOMAIN a /\ DOMAIN a \ {"implied_port"} \subseteq DOMAIN d
    BY <1>2
  <1>6. ok
    BY <1>4, <1>5
  <1>7. E = DOMAIN a
    BY <1>5
  <1>8. ASSUME NEW f \in DOMAIN a PROVE (IF f \in DOMAIN d THEN New!Read(f, d[f]) ELSE FALSE) = a[f]
    <2>1. CASE f \in DOMAIN d
      BY <1>4, <2>1
    <2>2. CASE f \notin DOMAIN d
      <3>1. f = "implied_port" /\ ~ a[f]
        BY <1>2, <2>2
      <3>2. a[f] = FALSE
        BY <1>3, <3>1
      <3>3. QED
        BY <2>2, <3>2
    <2>3. QED
      BY <2>1, <2>2
  <1> HIDE DEF E, ok
  <1>9. res = a
    BY <1>7, <1>8
  <1> HIDE DEF res
  <1>10. QED
    BY <1>1, <1>6, <1>9 DEF d

\* What is under "e".
LEMMA ErrorWritten ==
  ASSUME NEW d, d = [code |-> d["code"], description |-> d["description"]]
  PROVE  /\ New!Written(d) = [code |-> Num(d["code"]), description |-> Bytes(d["description"])]
         /\ New!DecodeError(New!Written(d)) = d
  <1> DEFINE c == d["code"]
             s == d["description"]
             w == New!Written(d)
             p == [code |-> Num(c), description |-> Bytes(s)]
  <1>1. DOMAIN d = {"code", "description"}
    <2> HIDE DEF c, s
    <2>1. d = [code |-> c, description |-> s]
      BY DEF c, s
    <2>2. QED
      BY <2>1
  <1>2. /\ DOMAIN w = {g \in DOMAIN d : g = "implied_port" => d[g]}
        /\ \A f \in DOMAIN w : w[f] = New!Write(f, d[f])
        /\ w = [f \in DOMAIN w |-> w[f]]
    BY NewWritten
  <1>3. New!Write("code", c) = Num(c) /\ New!Write("description", s) = Bytes(s)
    <2>1. New!Write("code", c) = New!Num(c) /\ New!Write("description", s) = New!Bytes(s)
      BY DEF New!Write
    <2>2. QED
      BY <2>1, Constructors, Zenon
  <1> HIDE DEF w
  <1>4. DOMAIN w = {"code", "description"}
    BY <1>1, <1>2
  <1>5. w["code"] = Num(c) /\ w["description"] = Bytes(s)
    BY <1>2, <1>3, <1>4
  <1> HIDE DEF c, s
  <1>6. w = p
    BY <1>2, <1>4, <1>5
  <1>7. p.code = Num(c) /\ p.description = Bytes(s)
    OBVIOUS
  <1> HIDE DEF p
  <1>8. p.description.bytes = s /\ p.code.int = c /\ New!IsBytes(p.description) /\ New!IsInt(p.code)
    BY <1>7, Constructors, Zenon
  <1>9. New!DecodeError(p) = [code |-> c, description |-> s]
    BY <1>8, Zenon DEF New!DecodeError
  <1>10. QED
    BY <1>6, <1>9 DEF w, c, s, p

\* What a message of mainline-next has around its arguments.
NewEnvelope(n) ==
  /\ n.read_only \in BOOLEAN /\ (n.kind # "q" => n.read_only = FALSE)
  /\ (n.kind = "q" => n.requester_address = {}) /\ (n.kind # "q" => n.query = "")
  /\ \A a \in n.requester_address : a \in Address

\* It is written and read again as it was.
LEMMA NewEnvelopeBack ==
  ASSUME NEW n, NEW e, e = New!Encode(n), NewEnvelope(n)
  PROVE  /\ New!EnvelopeReads(e) /\ e.y = n.kind /\ e.q = n.query /\ e.args = New!Written(n.args)
         /\ NewMessage(e, n.args) =
              [transaction_id |-> n.transaction_id, version |-> n.version, kind |-> n.kind,
               query |-> n.query, args |-> n.args, read_only |-> n.read_only,
               requester_address |-> n.requester_address]
  <1>1. /\ e.t = Bytes(n.transaction_id) /\ e.v = {Bytes(x) : x \in n.version}
        /\ e.ip = {Bytes(Old!sockaddr_to_bytes(a)) : a \in n.requester_address}
        /\ e.ro = (IF n.kind = "q" /\ n.read_only THEN {Num(1)} ELSE {})
        /\ e.y = n.kind /\ e.q = n.query /\ e.args = New!Written(n.args)
    BY NewSent
  <1> DEFINE sb(a) == Old!sockaddr_to_bytes(a)
             rd(x) == New!AddressFromBytes(x.bytes)
             I == IF e.y = "q" THEN {} ELSE e.ip
             ro == e.y = "q" /\ \E x \in e.ro : New!WireBool(x)
             version == {x.bytes : x \in e.v}
             ip == {rd(x) : x \in I}
             q == IF e.y = "q" THEN e.q ELSE ""
  <1>2. ASSUME NEW a \in Address
        PROVE New!IsBytesOf(New!AddrBytes, Bytes(sb(a))) /\ rd(Bytes(sb(a))) = a
    <2> DEFINE s == Old!sockaddr_to_bytes(a)
    <2>1. s \in ByteArray(AddrSize) /\ Old!bytes_to_sockaddr(s) = a
      BY AddressBytes, AddressRoundTrip
    <2> HIDE DEF s
    <2>2. Len(s) = AddrSize
      BY <2>1, Sizes, ArrayIs DEF ByteArray, AddrSize
    <2>3. AddrSize = New!AddrBytes
      BY DEF AddrSize, New!AddrBytes
    <2>4. New!IsBytes(Bytes(s)) /\ Bytes(s).bytes = s
      BY Constructors
    <2>5. New!IsBytesOf(New!AddrBytes, Bytes(s))
      BY <2>2, <2>3, <2>4, Zenon DEF New!IsBytesOf
    <2>6. rd(Bytes(s)) = a
      BY <2>1, <2>4, SameBytesWritten, Zenon
    <2>7. QED
      BY <2>5, <2>6, Zenon DEF s
  <1>3. \A x \in e.ip : \E a \in n.requester_address : x = Bytes(sb(a))
    BY <1>1
  <1>4. \A x \in e.ip : New!IsBytesOf(New!AddrBytes, x)
    BY <1>2, <1>3, Zenon DEF NewEnvelope
  <1>5. ip = n.requester_address
    <2>1. \A a \in n.requester_address : Bytes(sb(a)) \in e.ip
      BY <1>1
    <2>2. \A a \in n.requester_address : rd(Bytes(sb(a))) = a
      BY <1>2, Zenon DEF NewEnvelope
    <2> HIDE DEF sb, rd
    <2>3. {rd(x) : x \in e.ip} = n.requester_address
      BY <1>3, <2>1, <2>2
    <2>4. QED
      BY <1>1, <2>3 DEF NewEnvelope
  <1>6. \A s : New!IsBytes(Bytes(s)) /\ Bytes(s).bytes = s
    BY Constructors, Zenon
  <1>7. New!IsBytes(e.t) /\ e.t.bytes = n.transaction_id
    BY <1>1, <1>6, Zenon
  <1>8. \A x \in e.v : New!IsBytes(x)
    <2>1. \A x \in e.v : \E s : x = Bytes(s)
      BY <1>1
    <2>2. QED
      BY <1>6, <2>1, Zenon
  <1>9. version = n.version
    <2>1. \A s \in n.version : Bytes(s) \in e.v
      BY <1>1
    <2>2. \A x \in e.v : \E s \in n.version : x = Bytes(s)
      BY <1>1
    <2>3. QED
      BY <1>6, <2>1, <2>2
  <1>10. (\A x \in e.ro : New!IsInt(x)) /\ ro = n.read_only
    <2>1. New!IsInt(Num(1)) /\ Num(1).int = 1
      BY Constructors
    <2>2. New!WireBool(Num(1))
      BY <2>1 DEF New!WireBool
    <2>3. CASE n.kind = "q" /\ n.read_only
      <3>1. e.ro = {Num(1)} /\ e.y = "q" /\ n.read_only = TRUE
        BY <1>1, <2>3 DEF NewEnvelope
      <3>2. ro
        BY <2>2, <3>1, Zenon
      <3>3. ro = TRUE
        BY <3>2, Zenon
      <3> HIDE DEF ro
      <3>4. QED
        BY <2>1, <3>1, <3>3, Zenon
    <2>4. CASE ~ (n.kind = "q" /\ n.read_only)
      <3>1. e.ro = {} /\ n.read_only = FALSE
        BY <1>1, <2>4 DEF NewEnvelope
      <3>2. ro = FALSE
        BY <3>1, Zenon
      <3> HIDE DEF ro
      <3>3. QED
        BY <3>1, <3>2, Zenon
    <2>5. QED
      BY <2>3, <2>4
  <1>11. New!EnvelopeReads(e)
    BY <1>4, <1>7, <1>8, <1>10, Zenon DEF New!EnvelopeReads
  <1>12. q = n.query
    BY <1>1 DEF NewEnvelope
  <1>13. NewMessage(e, n.args) =
           [transaction_id |-> e.t.bytes, version |-> version, kind |-> e.y, query |-> q, args |-> n.args,
            read_only |-> ro, requester_address |-> ip]
    BY Zenon DEF NewMessage
  <1> HIDE DEF version, ip, ro, q
  <1>14. QED
    BY <1>1, <1>5, <1>7, <1>9, <1>10, <1>11, <1>12, <1>13, Zenon

\* What mainline-next reads is a message that it could have made.
LEMMA NewEnvelopeRead ==
  ASSUME NEW w, HoldsValues(w), Accepted(New!Decode(w)), NEW n, n = New!Decode(w)
  PROVE  /\ NewEnvelope(n) /\ n.kind = w.y /\ n.args = NewArgs(w) /\ n.query = (IF w.y = "q" THEN w.q ELSE "")
         /\ n = [transaction_id |-> n.transaction_id, version |-> n.version, kind |-> n.kind,
                 query |-> n.query, args |-> n.args, read_only |-> n.read_only,
                 requester_address |-> n.requester_address]
  <1> DEFINE args == NewArgs(w)
             rd(x) == New!AddressFromBytes(x.bytes)
             tid == w.t.bytes
             version == {x.bytes : x \in w.v}
             q == IF w.y = "q" THEN w.q ELSE ""
             ro == w.y = "q" /\ \E x \in w.ro : New!WireBool(x)
             ip == {rd(x) : x \in IF w.y = "q" THEN {} ELSE w.ip}
  <1>1. New!EnvelopeReads(w) /\ n = NewMessage(w, args)
    BY NewAccepts
  <1>2. n = [transaction_id |-> tid, version |-> version, kind |-> w.y, query |-> q, args |-> args,
             read_only |-> ro, requester_address |-> ip]
    BY <1>1, Zenon DEF NewMessage
  <1>3. ro \in BOOLEAN /\ (w.y # "q" => ro = FALSE)
    BY Zenon
  <1>4. w.y = "q" => ip = {}
    OBVIOUS
  <1>5. w.y # "q" => q = ""
    OBVIOUS
  <1>6. ASSUME NEW a \in ip PROVE a \in Address
    <2>1. PICK x \in w.ip : a = rd(x) /\ w.y # "q"
      <3> HIDE DEF rd
      <3>1. QED
        OBVIOUS
    <2>2. New!IsBytesOf(New!AddrBytes, x) /\ IsValue(x)
      BY <1>1, <2>1, Zenon DEF New!EnvelopeReads, HoldsValues
    <2>3. New!IsBytes(x) /\ Len(x.bytes) = New!AddrBytes
      BY <2>2, Zenon DEF New!IsBytesOf
    <2>4. IsBytes(x)
      BY <2>3, OneKind
    <2>5. x.bytes \in Seq(ByteValues)
      BY <2>2, <2>4, ValueBytes
    <2>6. AddrSize = New!AddrBytes /\ AddrSize \in Nat
      BY Sizes DEF AddrSize, New!AddrBytes
    <2> DEFINE s == x.bytes
    <2> HIDE DEF s
    <2>7. s \in ByteArray(AddrSize)
      BY <2>3, <2>5, <2>6, ArrayIs DEF ByteArray, s
    <2>8. Old!bytes_to_sockaddr(s) \in Address
      BY <2>7, AddressRead
    <2>9. QED
      BY <2>1, <2>8, SameBytesWritten, Zenon DEF s
  <1> HIDE DEF tid, version, q, ro, ip, args, rd
  <1>7. /\ n.transaction_id = tid /\ n.version = version /\ n.kind = w.y /\ n.query = q /\ n.args = args
        /\ n.read_only = ro /\ n.requester_address = ip
    BY <1>2
  <1>8. NewEnvelope(n)
    BY <1>3, <1>4, <1>5, <1>6, <1>7, Zenon DEF NewEnvelope
  <1>9. QED
    BY <1>2, <1>7, <1>8, Zenon DEF args, q

\* Every field of a response variant is one of ResponseArguments.
LEMMA ResponseFieldsKnown == ResponseFields \subseteq New!Fields(New!ResponseArguments)
  <1>1. DOMAIN Old!DHTResponseSpecific = 1..7
    BY DEF Old!DHTResponseSpecific
  <1>2. ASSUME NEW f \in ResponseFields PROVE f \in New!Fields(New!ResponseArguments)
    <2>1. PICK i \in 1..7 : f \in Known(i)
      BY <1>1, <1>2 DEF ResponseFields, Known
    <2>2. i \in {1, 2, 3, 4, 5, 6, 7}
      OBVIOUS
    <2>3. f \in {"id", "token", "nodes", "values", "v", "k", "seq", "sig"}
      BY <2>1, <2>2, Variants
    <2>4. QED
      BY <2>3, QueryShapes
  <1>3. QED
    BY <1>2

\* The structs of mainline-next have known fields, and implied_port is optional.
LEMMA NewShapes ==
  ASSUME NEW w, w.y \in {"q", "r"}, w.y = "q" => w.q \in QueryNames
  PROVE  /\ New!Fields(NewShape(w)) \subseteq ArgumentFields
         /\ "implied_port" \notin NewShape(w).required /\ "id" \in NewShape(w).required
         /\ NewShape(w).required \subseteq New!Fields(NewShape(w))
  <1>1. CASE w.y = "q"
    <2> DEFINE q == w.q
               shape == New!WireQuery[q]
    <2>1. NewShape(w) = shape /\ q \in QueryNames
      BY <1>1 DEF NewShape
    <2> HIDE DEF q
    <2>2. CASE q = "put"
      <3>1. /\ shape.required = {"id", "token", "v"}
            /\ New!Fields(shape) = {"id", "token", "v", "k", "seq", "sig", "salt", "cas"}
        BY <2>2, QueryShapes
      <3> HIDE DEF shape
      <3>2. QED
        BY <2>1, <3>1 DEF ArgumentFields
    <2>3. CASE q # "put"
      <3> DEFINE other == Old!DHTRequestSpecific[q]
      <3>1. shape.required = other.required /\ New!Fields(shape) = Old!Fields(other)
        BY <2>1, <2>3, QueryShapes
      <3>2. /\ Old!Fields(other) \subseteq ArgumentFields
            /\ "implied_port" \notin other.required /\ "id" \in other.required
            /\ other.required \subseteq Old!Fields(other)
        BY <2>1, <2>3, QueryShapes DEF QueryNames, ArgumentFields
      <3> HIDE DEF shape, other
      <3>3. QED
        BY <2>1, <3>1, <3>2
    <2>4. QED
      BY <2>2, <2>3
  <1>2. CASE w.y = "r"
    <2>1. NewShape(w) = New!ResponseArguments
      BY <1>2 DEF NewShape
    <2>2. QED
      BY <2>1, QueryShapes DEF ArgumentFields
  <1>3. QED
    BY <1>1, <1>2

\* mainline-next sends on what it reads.
LEMMA NewKeeps ==
  ASSUME OriginInv, DatagramInv PROVE NewLosesNothing
  <1> SUFFICES ASSUME Read, Accepted(new)
               PROVE  /\ New!Decode(New!Encode(new)) = new
                      /\ wire.y = "r" => DOMAIN wire.args \cap ResponseFields \subseteq DOMAIN new.args
    BY Zenon DEF NewLosesNothing
  <1> DEFINE e == New!Encode(new)
             a == new.args
  <1>1. new = New!Decode(wire) /\ wire # None
    BY WhatWasRead DEF DatagramInv, Read
  <1>2. HoldsValues(wire)
    BY <1>1, ValuesSent
  <1>3. /\ NewEnvelope(new) /\ new.kind = wire.y /\ a = NewArgs(wire)
        /\ new.query = (IF wire.y = "q" THEN wire.q ELSE "")
        /\ new = [transaction_id |-> new.transaction_id, version |-> new.version, kind |-> new.kind,
                  query |-> new.query, args |-> new.args, read_only |-> new.read_only,
                  requester_address |-> new.requester_address]
    BY <1>1, <1>2, NewEnvelopeRead, Zenon
  <1>4. /\ New!EnvelopeReads(e) /\ e.y = new.kind /\ e.q = new.query /\ e.args = New!Written(a)
        /\ NewMessage(e, new.args) = new
    <2>1. /\ New!EnvelopeReads(e) /\ e.y = new.kind /\ e.q = new.query /\ e.args = New!Written(a)
          /\ NewMessage(e, new.args) =
              [transaction_id |-> new.transaction_id, version |-> new.version, kind |-> new.kind,
               query |-> new.query, args |-> new.args, read_only |-> new.read_only,
               requester_address |-> new.requester_address]
      BY <1>3, NewEnvelopeBack, Zenon
    <2>2. QED
      BY <1>3, <2>1, Zenon
  <1>5. a # Refused
    BY <1>1, <1>3, NewAccepts, Zenon
  <1>6. NewArgs(e) = a /\ (wire.y = "r" => DOMAIN wire.args \cap ResponseFields \subseteq DOMAIN a)
    <2>1. CASE wire.y = "e"
      <3> DEFINE c == wire.args.code.int
                 s == wire.args.description.bytes
      <3>1. a = New!DecodeError(wire.args)
        BY <1>3, <2>1 DEF NewArgs
      <3>2. a = [code |-> c, description |-> s]
        <4>1. New!Refused = Refused
          BY DEF New!Refused, Refused
        <4>2. QED
          BY <1>5, <3>1, <4>1, Zenon DEF New!DecodeError
      <3> HIDE DEF c, s, a
      <3>3. a = [code |-> a["code"], description |-> a["description"]]
        BY <3>2
      <3>4. New!DecodeError(e.args) = a
        BY <1>4, <3>3, ErrorWritten, Zenon
      <3>5. e.y = "e"
        BY <1>3, <1>4, <2>1
      <3> HIDE DEF e
      <3>6. NewArgs(e) = New!DecodeError(e.args)
        BY <3>5 DEF NewArgs
      <3>7. QED
        BY <2>1, <3>4, <3>6
    <2>2. CASE wire.y # "e"
      <3> DEFINE shape == NewShape(wire)
      <3>1. /\ wire.y \in {"q", "r"} /\ (wire.y = "q" => wire.q \in QueryNames)
            /\ shape.required \subseteq DOMAIN wire.args
            /\ DOMAIN a = (DOMAIN wire.args \cap New!Fields(shape))
                                 \cup (New!Fields(shape) \cap {"implied_port"})
            /\ a = [f \in DOMAIN a |-> a[f]]
            /\ \A f \in DOMAIN a \cap DOMAIN wire.args :
                 New!Reads(f, wire.args[f]) /\ a[f] = New!Read(f, wire.args[f])
            /\ \A f \in DOMAIN a \ DOMAIN wire.args : a[f] = FALSE
        BY <1>1, <2>2, NewAccepted, Zenon
      <3>2. /\ New!Fields(shape) \subseteq ArgumentFields
            /\ "implied_port" \notin shape.required /\ "id" \in shape.required
            /\ shape.required \subseteq New!Fields(shape)
        <4>1. wire.y \in {"q", "r"}
          BY <3>1, Zenon
        <4>2. wire.y = "q" => wire.q \in QueryNames
          BY <3>1, Zenon
        <4>3. QED
          BY <4>1, <4>2, NewShapes
      <3>3. wire.y = "r" => shape = New!ResponseArguments
        BY DEF NewShape
      <3>4. wire.y = "q" => shape = New!WireQuery[wire.q]
        BY DEF NewShape
      <3> HIDE DEF shape, a
      <3>5. ASSUME NEW f \in DOMAIN a PROVE NewHolds(f, a[f])
        <4>1. CASE f \in DOMAIN wire.args
          <5>1. f \in ArgumentFields /\ New!Reads(f, wire.args[f]) /\ a[f] = New!Read(f, wire.args[f])
            BY <3>1, <3>2, <4>1
          <5>2. IsValue(wire.args[f])
            BY <1>2, <2>2, <4>1, <5>1 DEF HoldsValues
          <5>3. QED
            BY <5>1, <5>2, NewReadsTyped
        <4>2. CASE f \notin DOMAIN wire.args
          <5>1. f = "implied_port" /\ a[f] = FALSE
            BY <3>1, <4>2
          <5>2. QED
            BY <5>1, Zenon DEF NewHolds, BothHold, FixedFields, IdFields
        <4>3. QED
          BY <4>1, <4>2
      <3>6. /\ shape.required \subseteq DOMAIN a /\ DOMAIN a \subseteq New!Fields(shape)
            /\ New!Fields(shape) \cap {"implied_port"} \subseteq DOMAIN a
        BY <3>1, <3>2
      <3>7. New!Arguments(New!Written(a), shape) = a
        <4>1. a = [f \in DOMAIN a |-> a[f]]
          BY <3>1, Zenon
        <4>2. QED
          BY <3>2, <3>5, <3>6, <4>1, ArgumentsBack
      <3>8. NewArgs(e) = New!Arguments(e.args, shape)
        <4>1. e.y = wire.y /\ e.q = new.query
          BY <1>3, <1>4
        <4> HIDE DEF e
        <4>2. CASE wire.y = "q"
          <5>1. e.y = "q" /\ e.q = wire.q /\ e.q \in DOMAIN New!WireQuery
            BY <1>3, <3>1, <4>1, <4>2, QueryShapes
          <5>2. NewArgs(e) = New!Arguments(e.args, New!WireQuery[e.q])
            BY <5>1 DEF NewArgs
          <5>3. QED
            BY <3>4, <4>2, <5>1, <5>2
        <4>3. CASE wire.y = "r"
          <5>1. NewArgs(e) = New!Arguments(e.args, New!ResponseArguments)
            BY <4>1, <4>3 DEF NewArgs
          <5>2. QED
            BY <3>3, <4>3, <5>1
        <4>4. QED
          BY <3>1, <4>2, <4>3
      <3>9. wire.y = "r" => DOMAIN wire.args \cap ResponseFields \subseteq DOMAIN a
        BY <3>1, <3>3, ResponseFieldsKnown
      <3>10. QED
        BY <1>4, <3>7, <3>8, <3>9, Zenon
    <2>3. QED
      BY <2>1, <2>2
  <1> HIDE DEF e
  <1>7. New!Decode(e) = new
    <2>1. Accepted(New!Decode(e))
      BY <1>4, <1>5, <1>6, NewAccepts
    <2>2. New!Decode(e) = NewMessage(e, NewArgs(e))
      BY <2>1, NewAccepts
    <2>3. QED
      BY <1>4, <1>6, <2>2, Zenon
  <1>8. QED
    BY <1>6, <1>7, Zenon DEF e

-----------------------------------------------------------------------------
(* Messages of mainline-next, as the mainline crate reads them.              *)

\* A field of a struct of mainline-next, but an item, as the mainline crate
\* reads it.
ReadByOld(f, x, y) ==
  Old!Reads(f, x) /\ OldWhole(f, Old!Read(f, x)) /\ OldTaken(f, Old!Read(f, x)) = Coded(f, y)

\* The fields of a struct of mainline-next arrive, and the mainline crate can read
\* all of them but the value of an item, which need not be a byte string.
LEMMA NewStructWritten ==
  ASSUME NEW a, NEW shape, NewStruct(a, shape), NEW d, d = New!Written(a)
  PROVE  /\ DOMAIN d \subseteq DOMAIN a /\ DOMAIN a \ {"implied_port"} \subseteq DOMAIN d
         /\ DOMAIN d \subseteq ArgumentFields
         /\ \A f \in DOMAIN d \ {"v"} : ReadByOld(f, d[f], a[f])
  <1>1. /\ DOMAIN d = {g \in DOMAIN a : g = "implied_port" => a[g]}
        /\ \A f \in DOMAIN d : d[f] = New!Write(f, a[f])
    BY NewWritten
  <1>2. DOMAIN a \subseteq ArgumentFields /\ \A f \in DOMAIN a : NewHolds(f, a[f])
    BY DEF NewStruct, IsStruct
  <1>3. DOMAIN d \subseteq DOMAIN a /\ DOMAIN a \ {"implied_port"} \subseteq DOMAIN d
    BY <1>1
  <1>4. ASSUME NEW f \in DOMAIN d \ {"v"} PROVE ReadByOld(f, d[f], a[f])
    <2>1. f \in ArgumentFields /\ NewHolds(f, a[f]) /\ f # "v" /\ d[f] = New!Write(f, a[f])
      BY <1>1, <1>2, <1>3
    <2> DEFINE w == New!Write(f, a[f])
    <2>2. Old!Reads(f, w) /\ OldWhole(f, Old!Read(f, w)) /\ OldTaken(f, Old!Read(f, w)) = Coded(f, a[f])
      BY <2>1, NewFieldSurvives
    <2> HIDE DEF w
    <2>3. QED
      BY <2>1, <2>2, Zenon DEF ReadByOld, w
  <1>5. QED
    BY <1>2, <1>3, <1>4, Zenon

\* Some variant is the first that fits, if one does.
LEMMA FirstFits ==
  ASSUME NEW dict, NEW j \in 1..7, FitsAt(dict, j)
  PROVE  \E i \in 1..7 : FirstFit(dict, i) /\ i <= j
  <1> DEFINE S == {i \in 1..7 : FitsAt(dict, i)}
  <1>1. S # {} /\ S \in SUBSET Nat /\ j \in S
    OBVIOUS
  <1>2. \A i : i \in S <=> i \in 1..7 /\ FitsAt(dict, i)
    OBVIOUS
  <1> HIDE DEF S
  <1>3. PICK i \in S : \A l \in S : i <= l
    BY <1>1, LeastNat
  <1>4. QED
    BY <1>1, <1>2, <1>3 DEF FirstFit

\* The envelope: the mainline crate reads ids and versions of four bytes only.
TidsFit(m) == Len(m.transaction_id) = TidSize /\ \A v \in m.version : Len(v) = TidSize

\* The mainline crate reads the envelopes of mainline-next whose ids and versions
\* have four bytes, and read-only queries as read-only.
LEMMA EnvelopeForOld ==
  ASSUME NEW m, NewMessageOk(m), NEW w, w = New!Encode(m)
  PROVE  /\ Old!EnvelopeReads(w) <=> TidsFit(m)
         /\ m.kind = "q" => (\E x \in w.ro : x.int > 0) = m.read_only
  <1>1. /\ w.t = Bytes(m.transaction_id) /\ w.v = {Bytes(x) : x \in m.version}
        /\ w.ip = {Bytes(Old!sockaddr_to_bytes(a)) : a \in m.requester_address}
        /\ w.ro = (IF m.kind = "q" /\ m.read_only THEN {Num(1)} ELSE {})
    BY NewSent
  <1>2. /\ m.transaction_id \in Seq(ByteValues) /\ (\A v \in m.version : v \in Seq(ByteValues))
        /\ (\A a \in m.requester_address : a \in Address) /\ m.read_only \in BOOLEAN
    BY DEF NewMessageOk
  <1>3. \A s \in Seq(ByteValues) : Old!ReadsAsBytes(Bytes(s)) /\ Old!AsBytes(Bytes(s)) = s
    BY ByteString
  <1>4. (\A x \in {w.t} \cup w.v : Old!ReadsAsBytes(x) /\ Len(Old!AsBytes(x)) = TidSize) <=> TidsFit(m)
    <2>1. Old!ReadsAsBytes(w.t) /\ Old!AsBytes(w.t) = m.transaction_id
      BY <1>1, <1>2, <1>3
    <2>2. \A s \in m.version : Bytes(s) \in w.v /\ Old!ReadsAsBytes(Bytes(s)) /\ Old!AsBytes(Bytes(s)) = s
      BY <1>1, <1>2, <1>3
    <2>3. \A x \in w.v : \E s \in m.version : x = Bytes(s)
      BY <1>1
    <2>4. (\A x \in w.v : Old!ReadsAsBytes(x) /\ Len(Old!AsBytes(x)) = TidSize)
             <=> (\A s \in m.version : Len(s) = TidSize)
      BY <2>2, <2>3, ZenonT(60)
    <2>5. (\A x \in {w.t} \cup w.v : Old!ReadsAsBytes(x) /\ Len(Old!AsBytes(x)) = TidSize)
             <=> (/\ Old!ReadsAsBytes(w.t) /\ Len(Old!AsBytes(w.t)) = TidSize
                  /\ \A x \in w.v : Old!ReadsAsBytes(x) /\ Len(Old!AsBytes(x)) = TidSize)
      BY Zenon
    <2>6. QED
      BY <2>1, <2>4, <2>5, Zenon DEF TidsFit
  <1>5. \A x \in w.ip : Old!ReadsAsBytes(x) /\ Len(Old!AsBytes(x)) = Old!AddrSize
    <2> TAKE x \in w.ip
    <2>1. PICK a \in m.requester_address : x = Bytes(Old!sockaddr_to_bytes(a))
      BY <1>1
    <2> DEFINE s == Old!sockaddr_to_bytes(a)
    <2>2. s \in ByteArray(AddrSize)
      BY <1>2, AddressBytes
    <2> HIDE DEF s
    <2>3. s \in Seq(ByteValues) /\ Len(s) = AddrSize
      BY <2>2, Sizes, ArrayIs DEF ByteArray, AddrSize
    <2>4. AddrSize = Old!AddrSize
      BY DEF AddrSize, Old!AddrSize
    <2>5. QED
      BY <1>3, <2>1, <2>3, <2>4, Zenon DEF s
  <1>6. (\A x \in w.ro : Old!IsI32(x)) /\ (m.kind = "q" => (\E x \in w.ro : x.int > 0) = m.read_only)
    <2>1. Num(1).int = 1 /\ Old!IsInt(Num(1))
      BY Constructors
    <2>2. Old!IsI32(Num(1))
      BY <2>1, Sizes DEF Old!IsI32
    <2>3. Num(1).int > 0
      BY <2>1
    <2> DEFINE some == \E x \in w.ro : x.int > 0
    <2>4. CASE m.kind = "q" /\ m.read_only
      <3>1. w.ro = {Num(1)} /\ m.read_only = TRUE
        BY <1>1, <1>2, <2>4
      <3>2. some = TRUE
        BY <2>3, <3>1, Zenon
      <3> HIDE DEF some
      <3>3. QED
        BY <2>2, <3>1, <3>2, Zenon DEF some
    <2>5. CASE ~ (m.kind = "q" /\ m.read_only)
      <3>1. w.ro = {} /\ (m.kind = "q" => m.read_only = FALSE)
        BY <1>1, <1>2, <2>5
      <3>2. some = FALSE
        BY <3>1, Zenon
      <3> HIDE DEF some
      <3>3. QED
        BY <3>1, <3>2, Zenon DEF some
    <2>6. QED
      BY <2>4, <2>5
  <1>7. QED
    BY <1>4, <1>5, <1>6, Zenon DEF Old!EnvelopeReads

\* A query of mainline-next, but a put, is read by the mainline crate.
LEMMA QueryForOld ==
  ASSUME NEW q \in QueryNames, NEW a, NewStruct(a, New!WireQuery[q]), NEW d, d = New!Written(a)
  PROVE  /\ (q = "put" => Old!DecodeRequest(q, d) = Refused)
         /\ (q # "put" => Old!DecodeRequest(q, d) # Refused)
         /\ "id" \in DOMAIN d /\ ReadByOld("id", d["id"], a["id"])
  <1> DEFINE shape == Old!DHTRequestSpecific[q]
             mine == New!WireQuery[q]
  <1>1. /\ DOMAIN d \subseteq DOMAIN a /\ DOMAIN a \ {"implied_port"} \subseteq DOMAIN d
        /\ \A f \in DOMAIN d \ {"v"} : ReadByOld(f, d[f], a[f])
    BY NewStructWritten
  <1>2. mine.required \subseteq DOMAIN a /\ DOMAIN a \subseteq New!Fields(mine)
    <2>1. \A s : Old!Fields(s) = New!Fields(s)
      BY DEF Old!Fields, New!Fields
    <2>2. mine.required \subseteq DOMAIN a /\ DOMAIN a \subseteq Old!Fields(mine)
      BY DEF NewStruct, IsStruct
    <2>3. QED
      BY <2>1, <2>2
  <1>3. CASE q = "put"
    <2>1. "id" \in mine.required /\ "target" \notin New!Fields(mine) /\ "target" \in shape.required
      BY <1>3, QueryShapes
    <2>2. "target" \notin DOMAIN d /\ "id" \in DOMAIN d
      BY <1>1, <1>2, <2>1
    <2>3. ~ Old!Deserializes(d, shape)
      BY <2>1, <2>2 DEF Old!Deserializes
    <2>4. Old!DecodeRequest(q, d) = Refused
      BY <2>3, RequestDecoded
    <2>5. QED
      BY <1>1, <1>3, <2>2, <2>4
  <1>4. CASE q # "put"
    <2>1. mine.required = shape.required /\ New!Fields(mine) = Old!Fields(shape)
      BY <1>4, QueryShapes
    <2>2. "v" \notin Old!Fields(shape) /\ "implied_port" \notin shape.required /\ "id" \in shape.required
      BY <1>4, QueryShapes DEF QueryNames
    <2> HIDE DEF mine
    <2>3. shape.required \subseteq DOMAIN d
      BY <1>1, <1>2, <2>1, <2>2
    <2>4. \A f \in DOMAIN d \cap Old!Fields(shape) : Old!Reads(f, d[f])
      BY <1>1, <2>2 DEF ReadByOld
    <2>5. Old!Deserializes(d, shape)
      BY <2>3, <2>4 DEF Old!Deserializes
    <2> DEFINE r == IF q = "announce_peer" THEN Flagged(Old!Deserialized(d, shape)) ELSE Old!Deserialized(d, shape)
    <2>6. Old!DecodeRequest(q, d) = [kind |-> KindOf(q), args |-> r]
      BY <1>4, <2>5, RequestDecoded, Zenon DEF DecodedAs
    <2> HIDE DEF r
    <2>7. Old!DecodeRequest(q, d) # Refused
      <3>1. "kind" \in DOMAIN [kind |-> KindOf(q), args |-> r] /\ "kind" \notin DOMAIN Refused
        BY DEF Refused
      <3>2. QED
        BY <2>6, <3>1
    <2>8. QED
      BY <1>1, <1>4, <2>2, <2>3, <2>7
  <1>5. QED
    BY <1>3, <1>4

\* A response of mainline-next is read by the mainline crate, as a variant that
\* has its nodes.
LEMMA ResponseForOld ==
  ASSUME NEW a, NewStruct(a, New!ResponseArguments), NEW d, d = New!Written(a)
  PROVE  /\ Old!DecodeResponse(d) # Refused
         /\ \A i \in 1..7 : FirstFit(d, i) /\ "nodes" \in DOMAIN a => i # 7
         /\ "id" \in DOMAIN d
         /\ \A f \in DOMAIN a \ {"v"} : f \in DOMAIN d /\ ReadByOld(f, d[f], a[f]) /\ Coded(f, a[f]) = a[f]
  <1> DEFINE shape == New!ResponseArguments
  <1>1. /\ DOMAIN d \subseteq DOMAIN a /\ DOMAIN a \ {"implied_port"} \subseteq DOMAIN d
        /\ \A f \in DOMAIN d \ {"v"} : ReadByOld(f, d[f], a[f])
    BY NewStructWritten
  <1>2. shape.required \subseteq DOMAIN a /\ DOMAIN a \subseteq New!Fields(shape)
    <2>1. \A s : Old!Fields(s) = New!Fields(s)
      BY DEF Old!Fields, New!Fields
    <2>2. shape.required \subseteq DOMAIN a /\ DOMAIN a \subseteq Old!Fields(shape)
      BY DEF NewStruct, IsStruct
    <2>3. QED
      BY <2>1, <2>2
  <1>3. "implied_port" \notin New!Fields(shape) /\ "id" \in shape.required
    BY QueryShapes
  <1>4. DOMAIN d = DOMAIN a /\ "id" \in DOMAIN d
    BY <1>1, <1>2, <1>3
  <1>5. ASSUME NEW f \in DOMAIN a \ {"v"}
        PROVE f \in DOMAIN d /\ ReadByOld(f, d[f], a[f]) /\ Coded(f, a[f]) = a[f]
    <2>1. f # "implied_port" /\ f \in DOMAIN d \ {"v"}
      BY <1>2, <1>3, <1>4
    <2>2. QED
      BY <1>1, <2>1 DEF Coded
  <1>6. \A f \in DOMAIN d \ {"v"} : Old!Reads(f, d[f]) /\ OldWhole(f, Old!Read(f, d[f]))
    BY <1>1 DEF ReadByOld
  <1>7. FitsAt(d, 7)
    <2>1. 7 \in 1..7 /\ Needed(7) = {"id"} /\ Known(7) = {"id"}
      BY Variants
    <2>2. QED
      BY <1>4, <1>6, <2>1, FitsIs
  <1>8. "nodes" \in DOMAIN a => FitsAt(d, 6)
    <2>1. 6 \in 1..7 /\ Needed(6) = {"id", "nodes"} /\ Known(6) = {"id", "nodes"}
      BY Variants
    <2>2. QED
      BY <1>4, <1>6, <2>1, FitsIs
  <1>9. PICK i \in 1..7 : FirstFit(d, i)
    BY <1>7, FirstFits
  <1> DEFINE other == Old!DHTResponseSpecific[i].shape
             args == Old!Deserialized(d, other)
  <1>10. \A f \in DOMAIN args : OldWhole(f, args[f])
    <2>1. DOMAIN args \subseteq DOMAIN d /\ \A f \in DOMAIN args : args[f] = Old!Read(f, d[f])
      BY DEF Old!Deserialized
    <2> HIDE DEF args
    <2>2. \A x : OldWhole("v", x)
      BY DEF OldWhole
    <2>3. QED
      BY <1>6, <2>1, <2>2
  <1> DEFINE r == [f \in DOMAIN args |-> OldTaken(f, args[f])]
  <1>11. Old!DecodeResponse(d) = [kind |-> Kind(i), args |-> r]
    BY <1>9, <1>10, ResponseTaken
  <1> HIDE DEF r
  <1>12. Old!DecodeResponse(d) # Refused
    <2>1. "kind" \in DOMAIN [kind |-> Kind(i), args |-> r] /\ "kind" \notin DOMAIN Refused
      BY DEF Refused
    <2>2. QED
      BY <1>11, <2>1
  <1>13. \A j \in 1..7 : FirstFit(d, j) /\ "nodes" \in DOMAIN a => j # 7
    BY <1>8 DEF FirstFit
  <1>14. QED
    BY <1>4, <1>5, <1>12, <1>13

\* An error of mainline-next is read by the mainline crate if it is (i32, UTF-8).
LEMMA ErrorForOld ==
  ASSUME NEW a, IsError(a)
  PROVE  Old!DecodeError(New!Written(a)) # Refused
           <=> (IsI32(Num(a["code"])) /\ IsUtf8(a["description"]))
  <1> DEFINE c == a["code"]
             s == a["description"]
             p == [code |-> Num(c), description |-> Bytes(s)]
             res == [kind |-> "Error", args |-> [code |-> p.code.int, description |-> p.description.bytes]]
  <1>1. a = [code |-> c, description |-> s]
    BY DEF IsError
  <1>2. New!Written(a) = p
    BY <1>1, ErrorWritten, Zenon
  <1> HIDE DEF c, s
  <1>3. p.code = Num(c) /\ p.description = Bytes(s)
    OBVIOUS
  <1> HIDE DEF p
  <1>4. Old!IsBytes(p.description) /\ p.description.bytes = s
    BY <1>3, Constructors, Zenon
  <1>5. (Old!IsI32(p.code) <=> IsI32(Num(c))) /\ (Old!IsUtf8(s) <=> IsUtf8(s))
    BY <1>3 DEF Old!IsI32, IsI32, Old!IsInt, IsInt, Old!IsUtf8, IsUtf8
  <1>6. Old!DecodeError(p) = IF Old!IsI32(p.code) /\ Old!IsUtf8(s) THEN res ELSE Refused
    <2>1. Old!Refused = Refused
      BY DEF Old!Refused, Refused
    <2>2. QED
      BY <1>4, <2>1, Zenon DEF Old!DecodeError
  <1>7. res # Refused
    <2> DEFINE r == [code |-> p.code.int, description |-> p.description.bytes]
    <2> HIDE DEF r
    <2>1. "kind" \in DOMAIN [kind |-> "Error", args |-> r] /\ "kind" \notin DOMAIN Refused
      BY DEF Refused
    <2>2. [kind |-> "Error", args |-> r] # Refused
      BY <2>1
    <2>3. QED
      BY <2>2 DEF r
  <1> HIDE DEF res
  <1>8. QED
    BY <1>2, <1>5, <1>6, <1>7, Zenon DEF c, s

\* What mainline-next sends, as the mainline crate reads it.
LEMMA NewReadByOld ==
  ASSUME OriginInv, DatagramInv PROVE OldReadsNew
  <1> DEFINE m == origin.msg
             fits == m.kind = "e" => IsI32(Num(m.args["code"])) /\ IsUtf8(m.args["description"])
             readable == /\ m.query # "put"
                         /\ Len(m.transaction_id) = TidSize
                         /\ \A v \in m.version : Len(v) = TidSize
                         /\ fits
  <1> SUFFICES ASSUME Read, origin.by = "new"
               PROVE  /\ Accepted(old) <=> readable
                      /\ readable =>
                           /\ old.type = m.kind
                           /\ m.kind # "e" => Old!get_author_id(old) = {m.args.id}
                           /\ m.kind = "q" => old.read_only = m.read_only
                           /\ m.kind = "r" /\ "nodes" \in DOMAIN m.args =>
                                Old!get_closer_nodes(old) = {m.args.nodes}
    BY Zenon DEF OldReadsNew
  <1>1. old = Old!from_serde_message(wire) /\ wire # None
    BY WhatWasRead DEF DatagramInv, Read
  <1>2. NewMessageOk(m) /\ wire = New!Encode(m)
    BY <1>1 DEF OriginInv
  <1> DEFINE a == m.args
             d == New!Written(a)
             body == OldBody(wire)
  <1>3. wire.y = m.kind /\ wire.q = m.query /\ wire.args = d
    BY <1>2, NewSent
  <1> HIDE DEF m
  <1>4. /\ Old!EnvelopeReads(wire) <=> TidsFit(m)
        /\ m.kind = "q" => (\E x \in wire.ro : x.int > 0) = m.read_only
    BY <1>2, EnvelopeForOld, Zenon
  <1>5. NewBodyOk(m)
    BY <1>2 DEF NewMessageOk
  <1>6. /\ Accepted(old) <=> (Old!EnvelopeReads(wire) /\ body # Refused)
        /\ Accepted(old) => old.type = m.kind /\ (m.kind = "q" => old.read_only = m.read_only)
    <2>1. Accepted(old) <=> Old!EnvelopeReads(wire) /\ body # Refused
      BY <1>1, OldAccepts
    <2> DEFINE tid == Old!AsBytes(wire.t)
               version == {Old!AsBytes(x) : x \in wire.v}
               ip == {Old!bytes_to_sockaddr(Old!AsBytes(x)) : x \in wire.ip}
               ro == \E x \in wire.ro : x.int > 0
    <2>2. Accepted(old) =>
            old = [transaction_id |-> tid, version |-> version, requester_ip |-> ip, read_only |-> ro,
                   type |-> wire.y, kind |-> body.kind, args |-> body.args]
      BY <1>1, OldAccepts, Zenon
    <2>3. m.kind = "q" => ro = m.read_only
      BY <1>4, Zenon
    <2> HIDE DEF tid, version, ip, ro, body
    <2>4. Accepted(old) => old.type = wire.y /\ old.read_only = ro
      BY <2>2
    <2>5. QED
      BY <1>3, <2>1, <2>3, <2>4, Zenon
  <1>7. (body # Refused) <=> (m.query # "put" /\ fits)
    <2>1. CASE m.kind = "q"
      <3>1. m.query \in QueryNames /\ NewStruct(a, New!WireQuery[m.query])
        BY <1>5, <2>1 DEF NewBodyOk
      <3>2. body = Old!DecodeRequest(m.query, d)
        BY <1>3, <2>1 DEF OldBody
      <3>3. d = New!Written(a)
        OBVIOUS
      <3> DEFINE name == m.query
      <3>4. name \in QueryNames /\ NewStruct(a, New!WireQuery[name]) /\ body = Old!DecodeRequest(name, d)
        BY <3>1, <3>2
      <3> HIDE DEF body, d, a, name
      <3>5. /\ (name = "put" => Old!DecodeRequest(name, d) = Refused)
            /\ (name # "put" => Old!DecodeRequest(name, d) # Refused)
        BY ONLY <3>3, <3>4, QueryForOld
      <3>6. (body # Refused) <=> (name # "put")
        BY ONLY <3>4, <3>5
      <3>7. QED
        BY <2>1, <3>6 DEF name
    <2>2. CASE m.kind = "r"
      <3>1. m.query = "" /\ NewStruct(a, New!ResponseArguments)
        BY <1>5, <2>2 DEF NewBodyOk
      <3>2. body = Old!DecodeResponse(d)
        BY <1>3, <2>2 DEF OldBody
      <3> HIDE DEF body, d, a
      <3>3. body # Refused
        BY <3>1, <3>2, ResponseForOld, Zenon DEF d
      <3>4. QED
        BY <2>2, <3>1, <3>3
    <2>3. CASE m.kind = "e"
      <3>1. m.query = "" /\ IsError(a)
        BY <1>5, <2>3 DEF NewBodyOk
      <3>2. body = Old!DecodeError(d)
        BY <1>3, <2>3 DEF OldBody
      <3>3. (body # Refused) <=> (IsI32(Num(a["code"])) /\ IsUtf8(a["description"]))
        BY <3>1, <3>2, ErrorForOld, Zenon
      <3> HIDE DEF body, d
      <3>4. QED
        BY <2>3, <3>1, <3>3
    <2>4. QED
      BY <1>5, <2>1, <2>2, <2>3 DEF NewBodyOk
  <1>8. Accepted(old) <=> readable
    <2> HIDE DEF body, fits
    <2>1. QED
      BY <1>4, <1>6, <1>7, Zenon DEF TidsFit
  <1>9. ASSUME Accepted(old), m.kind # "e" PROVE Old!get_author_id(old) = {m.args["id"]}
    <2>1. old.type # "e"
      BY <1>6, <1>9
    <2>2. old.args["id"] = m.args["id"]
      <3>0. "id" # "implied_port" /\ "id" # "nodes" /\ "id" # "values"
        OBVIOUS
      <3>1. OldTaken("id", Old!Read("id", d["id"])) = Old!Read("id", d["id"]) /\ Coded("id", a["id"]) = a["id"]
        BY DEF OldTaken, Coded
      <3>2. CASE m.kind = "q"
        <4>1. m.query \in QueryNames /\ NewStruct(a, New!WireQuery[m.query])
          BY <1>5, <3>2 DEF NewBodyOk
        <4>2. "id" \in DOMAIN d /\ ReadByOld("id", d["id"], a["id"])
          BY <4>1, QueryForOld, Zenon
        <4>3. /\ wire.q \in QueryNames
              /\ DOMAIN old.args = DOMAIN wire.args \cap Old!Fields(Old!DHTRequestSpecific[wire.q])
              /\ \A f \in DOMAIN old.args : f # "implied_port" => old.args[f] = Old!Read(f, wire.args[f])
          BY <1>1, <1>3, <1>9, <3>2, RequestAccepted
        <4>4. "id" \in Old!Fields(Old!DHTRequestSpecific[wire.q])
          BY <4>3, QueryShapes DEF QueryNames
        <4> HIDE DEF d, a
        <4>5. old.args["id"] = Old!Read("id", d["id"])
          BY <1>3, <4>2, <4>3, <4>4
        <4>6. QED
          BY <3>1, <4>2, <4>5, Zenon DEF ReadByOld, a
      <3>3. CASE m.kind = "r"
        <4>1. NewStruct(a, New!ResponseArguments)
          BY <1>5, <3>3 DEF NewBodyOk
        <4>2. "id" \in DOMAIN d /\ \A f \in DOMAIN a \ {"v"} : ReadByOld(f, d[f], a[f])
          BY <4>1, ResponseForOld, Zenon
        <4>3. "id" \in DOMAIN a
          <5>1. New!ResponseArguments.required \subseteq DOMAIN a
            BY <4>1 DEF NewStruct, IsStruct
          <5>2. QED
            BY <5>1, QueryShapes
        <4>4. PICK i \in 1..7 :
                /\ DOMAIN old.args = DOMAIN wire.args \cap Known(i)
                /\ \A f \in DOMAIN old.args \ {"nodes", "values"} : old.args[f] = Old!Read(f, wire.args[f])
          BY <1>1, <1>3, <1>9, <3>3, ResponseAccepted, Zenon
        <4>5. "id" \in Known(i)
          <5>1. i \in {1, 2, 3, 4, 5, 6, 7}
            OBVIOUS
          <5>2. QED
            BY <5>1, Variants
        <4> HIDE DEF d, a
        <4>6. old.args["id"] = Old!Read("id", d["id"])
          BY <1>3, <4>2, <4>4, <4>5
        <4>7. ReadByOld("id", d["id"], a["id"])
          BY <4>2, <4>3
        <4>8. QED
          BY <3>1, <4>6, <4>7, Zenon DEF ReadByOld, a
      <3>4. QED
        BY <1>5, <1>9, <3>2, <3>3 DEF NewBodyOk
    <2>3. QED
      BY <2>1, <2>2 DEF Old!get_author_id
  <1>10. ASSUME Accepted(old), m.kind = "r", "nodes" \in DOMAIN m.args
         PROVE  Old!get_closer_nodes(old) = {m.args["nodes"]}
    <2>1. NewStruct(a, New!ResponseArguments)
      BY <1>5, <1>10 DEF NewBodyOk
    <2>2. /\ \A i \in 1..7 : FirstFit(d, i) /\ "nodes" \in DOMAIN a => i # 7
          /\ \A f \in DOMAIN a \ {"v"} : f \in DOMAIN d /\ ReadByOld(f, d[f], a[f]) /\ Coded(f, a[f]) = a[f]
      BY <2>1, ResponseForOld, Zenon
    <2>3. PICK i \in 1..7 :
            /\ FirstFit(wire.args, i) /\ old.type = "r" /\ old.kind = Kind(i)
            /\ DOMAIN old.args = DOMAIN wire.args \cap Known(i)
            /\ "nodes" \in DOMAIN old.args =>
                 old.args["nodes"] = Old!bytes_to_nodes4(Old!Read("nodes", wire.args["nodes"]))
      BY <1>1, <1>3, <1>10, ResponseAccepted, Zenon
    <2>4. /\ "nodes" \in DOMAIN d /\ ReadByOld("nodes", d["nodes"], a["nodes"])
          /\ Coded("nodes", a["nodes"]) = a["nodes"]
      <3>1. "nodes" \in DOMAIN a \ {"v"}
        BY <1>10
      <3>2. QED
        BY <2>2, <3>1, Zenon
    <2>5. i # 7
      BY <1>3, <1>10, <2>2, <2>3
    <2>6. "nodes" \in Known(i) /\ Kind(i) # "Ping"
      <3>1. i \in {1, 2, 3, 4, 5, 6}
        BY <2>5
      <3>2. QED
        BY <3>1, Variants
    <2>7. OldTaken("nodes", Old!Read("nodes", d["nodes"])) = Old!bytes_to_nodes4(Old!Read("nodes", d["nodes"]))
      BY DEF OldTaken
    <2> HIDE DEF d, a
    <2>8. "nodes" \in DOMAIN old.args
      BY <1>3, <2>3, <2>4, <2>6
    <2>9. old.args["nodes"] = a["nodes"]
      BY <1>3, <2>3, <2>4, <2>7, <2>8, Zenon DEF ReadByOld
    <2>10. QED
      BY <2>3, <2>6, <2>8, <2>9 DEF Old!get_closer_nodes, a
  <1> HIDE DEF readable, fits, d, a, body
  <1>11. QED
    BY <1>6, <1>8, <1>9, <1>10, Zenon

\* The inductive invariant about datagrams: where they come from, and what was
\* made of them.
DatagramsInv == DatagramInv /\ OriginInv

\* Datagrams keep their origin and their reading in every behaviour.
LEMMA DatagramsHold == Spec => []DatagramsInv
  <1>1. Init => DatagramsInv
    BY DEF Init, DatagramsInv, DatagramInv, OriginInv
  <1>2. DatagramsInv /\ [Next]_vars => DatagramsInv'
    BY DatagramStep, OriginStep DEF DatagramsInv
  <1>3. QED
    BY <1>1, <1>2, PTL DEF Spec

\* A put that Message::from_bytes accepts has every field of the datagram that a
\* put may have, for any fields that any node sends: no mutable put that lacks a
\* field is stored as an immutable one.
THEOREM PutsKeepTheirFields == Spec => []PutKeepsItsFields
  <1>1. DatagramsInv => PutKeepsItsFields
    BY PutKept DEF DatagramsInv
  <1>2. QED
    BY <1>1, DatagramsHold, PTL

\* However a response deviates, the untagged enum DHTResponseSpecific takes the
\* richest variant that fits, and never drops the nodes, nor the token unless
\* there are nodes that cannot be read.
THEOREM ResponsesKeepDetail == Spec => []DetailKept
  <1>1. DatagramsInv => DetailKept
    BY DetailIsKept DEF DatagramsInv
  <1>2. QED
    BY <1>1, DatagramsHold, PTL

\* Every message survives the codec of its own crate: Message::to_bytes and
\* Message::from_bytes give back what was sent, whatever the fields hold, and what
\* mainline-next accepts from anybody it serializes and reads as the same again.
THEOREM MessagesDoSurvive == Spec => []MessagesSurvive
  <1>1. ASSUME DatagramsInv PROVE MessagesSurvive
    <2>1. DatagramInv /\ OriginInv
      BY <1>1 DEF DatagramsInv
    <2>2. OldRoundTrip
      <3> SUFFICES ASSUME Read, origin.by = "old" PROVE old = AsReceived(origin.msg)
        BY DEF OldRoundTrip
      <3>1. old = Old!from_serde_message(wire) /\ wire # None
        BY <2>1, WhatWasRead DEF DatagramInv, Read
      <3>2. OldMessageOk(origin.msg) /\ wire = Old!into_serde_message(origin.msg)
        BY <2>1, <3>1 DEF OriginInv
      <3>3. QED
        BY <3>1, <3>2, OldBack
    <2>3. NewLosesNothing
      BY <2>1, NewKeeps
    <2>4. QED
      BY <2>2, <2>3 DEF MessagesSurvive
  <1>2. QED
    BY <1>1, DatagramsHold, PTL

\* The two crates read each other's messages with the same contents up to the
\* differences that wire-comparison.md lists, and where both accept a datagram of
\* any node they agree on the fields that both have.
THEOREM CratesDoInterwork == Spec => []CratesInterwork
  <1>1. ASSUME DatagramsInv PROVE CratesInterwork
    <2>1. DatagramInv /\ OriginInv
      BY <1>1 DEF DatagramsInv
    <2>2. QED
      BY <2>1, OldReadByNew, NewReadByOld, BothRead DEF CratesInterwork
  <1>2. QED
    BY <1>1, DatagramsHold, PTL

=============================================================================
