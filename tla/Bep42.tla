------------------------------- MODULE Bep42 -------------------------------
(***************************************************************************)
(* The same of mainline-next: BEP 42 contacts (src/mainline-next/src/      *)
(* bep42.rs) and distances (src/mainline-next/src/distance.rs).            *)
(***************************************************************************)
EXTENDS NodeIds

\* id_prefix: the unused low bits are cleared here.
id_prefix(ip, random) ==
  LET crc == Crc[<<ip.masked, LowBits(random)>>]
  IN <<crc[1], crc[2], HighBits(crc[3])>>

\* Bep42NodeContact::generate, from_random_bytes
from_random_bytes(ip, random_id) ==
  LET prefix == id_prefix(ip, random_id[IdBytes])
  IN [random_id EXCEPT ![1] = prefix[1], ![2] = prefix[2],
                       ![3] = prefix[3] + LowBits(@)]

id_matches_ipv4(id, ip) ==
  LET prefix == id_prefix(ip, id[IdBytes])
  IN id[1] = prefix[1] /\ id[2] = prefix[2] /\ HighBits(id[3]) = prefix[3]

\* TryFrom<NodeContact>: the contact is accepted.
try_from(id, ip) == ip.exempt \/ id_matches_ipv4(id, ip)

-----------------------------------------------------------------------------

\* Id::xor_distance, and its order as a big-endian integer.
xor_distance(a, b) == [i \in 1..IdBytes |-> XorByte(a[i], b[i])]

Closer(d, e) ==
  \E i \in 1..IdBytes : d[i] < e[i] /\ \A j \in 1..(i - 1) : d[j] = e[j]

\* Id::bucket_distance
bucket_distance(a, b) ==
  IF a = b THEN 0
  ELSE LET i == CHOOSE i \in 1..IdBytes : a[i] # b[i] /\ \A j \in 1..(i - 1) : a[j] = b[j]
       IN IdBytes * ByteBits - (i - 1) * ByteBits - ByteLeadingZeros(XorByte(a[i], b[i]))

=============================================================================
