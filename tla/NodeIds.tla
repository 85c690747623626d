------------------------------ MODULE NodeIds ------------------------------
(***************************************************************************)
(* Node ids of the mainline crate: BEP 42 (an id is tied to the node's IP) *)
(* and the Kademlia distance (src/src/common/id.rs).                       *)
(*                                                                         *)
(* An id is a sequence of IdBytes bytes.  An IP is [masked, exempt]: its   *)
(* bits under IPV4_MASK, and whether it is private, link local or          *)
(* loopback.  Crc is the checksum, any function into three bytes.          *)
(***************************************************************************)
EXTENDS Naturals, Sequences

CONSTANTS
  ByteBits,    \* bits of a byte (8)
  RandomBits,  \* bits of r that count (3)
  IdBytes,     \* ID_SIZE
  MaskedIps,   \* what IPV4_MASK leaves of an IP
  Crc          \* Crc[<<masked ip, r>>]: the first three bytes of the CRC

Byte == 0..(2^ByteBits - 1)
Ids == [1..IdBytes -> Byte]
Ips == [masked : MaskedIps, exempt : BOOLEAN]

ASSUME NodeIdsAssumption ==
  /\ {ByteBits, RandomBits, IdBytes} \subseteq Nat
  /\ RandomBits \in 1..(ByteBits - 1) /\ IdBytes > 3
  /\ {2^ByteBits, 2^RandomBits} \subseteq Nat \ {0}
  /\ Crc \in [MaskedIps \X (0..(2^RandomBits - 1)) -> [1..3 -> Byte]]

\* What the proofs use of the powers of two.
ASSUME PowersAssumption ==
  2^0 = 1 /\ \A i \in 0..ByteBits :
               2^i \in Nat \ {0} /\ (i < ByteBits => 2^(i + 1) = 2 * 2^i)

LowBits(b) == b % 2^RandomBits
HighBits(b) == b - LowBits(b)

-----------------------------------------------------------------------------
(* BEP 42 *)

\* id_prefix_ipv4: of r, "<< 29" keeps the three lowest bits.
id_prefix_ipv4(ip, r) == Crc[<<ip.masked, LowBits(r)>>]

first_21_bits(bytes) == <<bytes[1], bytes[2], HighBits(bytes[3])>>

\* mutant: the last byte stays random
from_ipv4_keeping_last(bytes, ip, r) ==
  LET prefix == id_prefix_ipv4(ip, r)
  IN [bytes EXCEPT ![1] = prefix[1], ![2] = prefix[2],
                   ![3] = HighBits(prefix[3]) + LowBits(bytes[3])]

\* from_ipv4_and_r, and Id::from_ipv4 when bytes and r are random.
from_ipv4_and_r(bytes, ip, r) ==
  LET prefix == id_prefix_ipv4(ip, r)
  IN [bytes EXCEPT ![1] = prefix[1], ![2] = prefix[2],
                   ![3] = HighBits(prefix[3]) + LowBits(bytes[3]),
                   ![IdBytes] = r]

is_valid_for_ip(id, ip) ==
  \/ ip.exempt
  \/ first_21_bits(id) = first_21_bits(id_prefix_ipv4(ip, id[IdBytes]))

-----------------------------------------------------------------------------
(* Distance *)

Bit(b, i) == (b \div 2^i) % 2

XorByte(a, b) ==
  LET low[i \in 0..ByteBits] ==
        IF i = 0 THEN 0
        ELSE low[i - 1] + (IF Bit(a, i - 1) = Bit(b, i - 1) THEN 0 ELSE 2^(i - 1))
  IN low[ByteBits]

xor(a, b) == [i \in 1..IdBytes |-> XorByte(a[i], b[i])]

\* u8::leading_zeros
ByteLeadingZeros(b) == CHOOSE z \in 0..ByteBits :
  b < 2^(ByteBits - z) /\ (z < ByteBits => b >= 2^(ByteBits - z - 1))

\* mutant: one byte too many is counted as zero
leading_zeros_off_by_one(id) ==
  IF \A i \in 1..IdBytes : id[i] = 0 THEN IdBytes * ByteBits
  ELSE LET i == CHOOSE i \in 1..IdBytes : id[i] # 0 /\ \A j \in 1..(i - 1) : id[j] = 0
       IN i * ByteBits

leading_zeros(id) ==
  IF \A i \in 1..IdBytes : id[i] = 0 THEN IdBytes * ByteBits
  ELSE LET i == CHOOSE i \in 1..IdBytes : id[i] # 0 /\ \A j \in 1..(i - 1) : id[j] = 0
       IN (i - 1) * ByteBits + ByteLeadingZeros(id[i])

\* Id::distance
distance(a, b) == IdBytes * ByteBits - leading_zeros(xor(a, b))

=============================================================================
