-------------------------------- MODULE Wire --------------------------------
(***************************************************************************)
(* The KRPC wire types of mainline-next: src/mainline-next/src/wire/.      *)
(*                                                                         *)
(* Wire messages as in module Messages.  A WireMessage is                  *)
(* [transaction_id, version, kind, query, args, read_only,                 *)
(* requester_address]; read_only is only meaningful in a query and         *)
(* requester_address only in a response or an error, as in WireKind.       *)
(***************************************************************************)
EXTENDS Bencode

Shape(required, optional) == [required |-> required, optional |-> optional]

PingArguments == Shape({"id"}, {})
FindNodeArguments == Shape({"id", "target"}, {})
GetPeersArguments == Shape({"id", "info_hash"}, {})
AnnouncePeerArguments == Shape({"id", "info_hash", "port", "token"}, {"implied_port"})
GetArguments == Shape({"id", "target"}, {"seq"})
PutArguments == Shape({"id", "token", "v"}, {"k", "sig", "seq", "salt", "cas"})

\* Mutant: no values beside a token, as in a response with variants.
ResponseWithoutValues ==
  Shape({"id"}, {"token", "nodes", "v", "k", "sig", "seq"})

ResponseArguments ==
  Shape({"id"}, {"token", "nodes", "values", "v", "k", "sig", "seq"})

WireQuery ==
  [ping |-> PingArguments, find_node |-> FindNodeArguments,
   get_peers |-> GetPeersArguments, announce_peer |-> AnnouncePeerArguments,
   get |-> GetArguments, put |-> PutArguments]

-----------------------------------------------------------------------------
(* CompactAddress and CompactNodes.                                          *)

AddrBytes == IpSize + 2
ContactBytes == IdSize + AddrBytes

AddressToBytes(a) == a.ip \o <<a.port \div ByteBase, a.port % ByteBase>>

\* Mutant: the port in the host's byte order.
AddressFromLittleEndian(s) ==
  [ip |-> SubSeq(s, 1, IpSize), port |-> s[IpSize + 2] * ByteBase + s[IpSize + 1]]

AddressFromBytes(s) ==
  [ip |-> SubSeq(s, 1, IpSize), port |-> s[IpSize + 1] * ByteBase + s[IpSize + 2]]

NodesToBytes(nodes) ==
  [i \in 1..(Len(nodes) * ContactBytes) |->
     LET node == nodes[((i - 1) \div ContactBytes) + 1]
     IN (node.id \o AddressToBytes(node.address))[((i - 1) % ContactBytes) + 1]]

NodesFromBytes(s) ==
  [n \in 1..(Len(s) \div ContactBytes) |->
     LET contact == SubSeq(s, (n - 1) * ContactBytes + 1, n * ContactBytes)
     IN [id |-> SubSeq(contact, 1, IdSize),
         address |-> AddressFromBytes(SubSeq(contact, IdSize + 1, ContactBytes))]]

-----------------------------------------------------------------------------
(* Deserialize: ByteArray and ByteString take byte strings only, WireBool    *)
(* any integer; an item's value may be any bencoded value.                   *)

Reads(f, x) ==
  CASE f \in {"id", "target", "info_hash"} -> IsBytesOf(IdSize, x)
    [] f = "k" -> IsBytesOf(KeySize, x)
    [] f = "sig" -> IsBytesOf(SigSize, x)
    [] f \in {"token", "salt"} -> IsBytes(x)
    [] f \in {"seq", "cas", "implied_port"} -> IsInt(x)
    [] f = "port" -> IsU16(x)
    [] f = "v" -> TRUE
    [] f = "nodes" -> IsBytes(x) /\ Len(x.bytes) % ContactBytes = 0
    [] f = "values" -> IsList(x) /\ \A i \in DOMAIN x.list : IsBytesOf(AddrBytes, x.list[i])

WireBool(x) == x.int # 0

Read(f, x) ==
  CASE f = "v" -> x
    [] f = "nodes" -> NodesFromBytes(x.bytes)
    [] f = "values" -> [i \in DOMAIN x.list |-> AddressFromBytes(x.list[i].bytes)]
    [] f = "implied_port" -> WireBool(x)
    [] f \in {"seq", "cas", "port"} -> x.int
    [] OTHER -> x.bytes

Fields(shape) == shape.required \cup shape.optional

\* A recognised field that cannot be read makes the message fail.  A flag that
\* is absent is false.
Arguments(dict, shape) ==
  IF shape.required \subseteq DOMAIN dict /\
     \A f \in DOMAIN dict \cap Fields(shape) : Reads(f, dict[f])
    THEN [f \in (DOMAIN dict \cap Fields(shape)) \cup (Fields(shape) \cap {"implied_port"}) |->
            IF f \in DOMAIN dict THEN Read(f, dict[f]) ELSE FALSE]
    ELSE Refused

DecodeError(pair) ==
  IF IsInt(pair.code) /\ IsBytes(pair.description)
    THEN [code |-> pair.code.int, description |-> pair.description.bytes]
    ELSE Refused

\* "ip" is not looked at in a query, nor "ro" in a response or an error.
EnvelopeReads(w) ==
  /\ IsBytes(w.t)
  /\ \A x \in w.v : IsBytes(x)
  /\ \A x \in w.ro : w.y = "q" => IsInt(x)
  /\ \A x \in w.ip : w.y # "q" => IsBytesOf(AddrBytes, x)

Decode(w) ==
  LET args == CASE w.y = "q" /\ w.q \in DOMAIN WireQuery -> Arguments(w.args, WireQuery[w.q])
                [] w.y = "r" -> Arguments(w.args, ResponseArguments)
                [] w.y = "e" -> DecodeError(w.args)
                [] OTHER -> Refused
  IN IF ~EnvelopeReads(w) \/ args = Refused THEN Refused
     ELSE [transaction_id |-> w.t.bytes, version |-> {x.bytes : x \in w.v},
           kind |-> w.y, query |-> IF w.y = "q" THEN w.q ELSE "",
           args |-> args,
           read_only |-> w.y = "q" /\ \E x \in w.ro : WireBool(x),
           requester_address |->
             {AddressFromBytes(x.bytes) : x \in IF w.y = "q" THEN {} ELSE w.ip}]

-----------------------------------------------------------------------------
(* Serialize: what is None, and a flag that is false, is left out.           *)

Write(f, x) ==
  CASE f = "v" -> x
    [] f = "nodes" -> Bytes(NodesToBytes(x))
    [] f = "values" -> List([i \in DOMAIN x |-> Bytes(AddressToBytes(x[i]))])
    [] f = "implied_port" -> Num(IF x THEN 1 ELSE 0)
    [] f \in {"seq", "cas", "port", "code"} -> Num(x)
    [] OTHER -> Bytes(x)

Written(args) ==
  [f \in {g \in DOMAIN args : g = "implied_port" => args[g]} |-> Write(f, args[f])]

Encode(m) ==
  [t |-> Bytes(m.transaction_id), v |-> {Bytes(x) : x \in m.version},
   y |-> m.kind, q |-> m.query, args |-> Written(m.args),
   ro |-> IF m.kind = "q" /\ m.read_only THEN {Num(1)} ELSE {},
   ip |-> {Bytes(AddressToBytes(a)) : a \in m.requester_address}]

=============================================================================
