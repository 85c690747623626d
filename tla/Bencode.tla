------------------------------ MODULE Bencode ------------------------------
(***************************************************************************)
(* Bencoded values as serde_bencode hands them to the two KRPC codecs of   *)
(* the repository (external: the crates serde, serde_bytes and             *)
(* serde_bencode are not part of it).                                      *)
(*                                                                         *)
(* A dictionary is a function from field names to values.  Byte strings    *)
(* are sequences of bytes; the sizes of ids, keys, signatures, addresses   *)
(* and of a byte itself are scaled down by the constants, because only     *)
(* "the right length or another one" and "fits the integer type or not"    *)
(* decide what the codecs do.                                              *)
(***************************************************************************)
EXTENDS Integers, Sequences, FiniteSets

CONSTANTS
  ByteBase,   \* number of values of a byte (256)
  IdSize,     \* ID_SIZE (20)
  IpSize,     \* bytes of an IPv4 address (4); a port has two more
  KeySize,    \* 32
  SigSize,    \* 64
  TidSize,    \* bytes of a transaction id and of a version (4)
  I32Max      \* largest i32; an i64 is any integer of the model

ASSUME BencodeAssumption ==
  /\ {ByteBase, IdSize, IpSize, KeySize, SigSize, TidSize, I32Max} \subseteq Nat \ {0}
  /\ ByteBase > 1

Bytes(s) == [bytes |-> s]
Num(n) == [int |-> n]
List(l) == [list |-> l]

IsBytes(x) == DOMAIN x = {"bytes"}
IsInt(x) == DOMAIN x = {"int"}
IsList(x) == DOMAIN x = {"list"}
IsBytesOf(n, x) == IsBytes(x) /\ Len(x.bytes) = n
IsU8(x) == IsInt(x) /\ x.int \in 0..(ByteBase - 1)
IsU16(x) == IsInt(x) /\ x.int \in 0..(ByteBase * ByteBase - 1)
IsI32(x) == IsInt(x) /\ x.int \in (-I32Max - 1)..I32Max

\* The lower half of the byte values stands for ASCII, the rest for bytes that
\* are not UTF-8 on their own.
IsUtf8(s) == \A i \in DOMAIN s : 2 * s[i] < ByteBase

\* The fields of dictionary d that are in S.
Only(d, S) == [f \in DOMAIN d \cap S |-> d[f]]

\* What a decoder returns for a datagram it refuses.
Refused == [refused |-> TRUE]

=============================================================================
