------------------------------ MODULE Messages ------------------------------
(***************************************************************************)
(* The KRPC codec of the mainline crate: src/src/common/messages.rs and    *)
(* src/src/common/messages/internal.rs.                                    *)
(*                                                                         *)
(* A wire message is [t, v, y, q, args, ip, ro]: args is the dictionary    *)
(* under "a" (queries) or "r" (responses), or the pair under "e"; v, ip    *)
(* and ro are optional, {} when absent and {value} when present.  A        *)
(* Message is [transaction_id, version, requester_ip, read_only, type,     *)
(* kind, args] with args the fields of the variant's struct; an Option     *)
(* that is None is a field that args does not have.                        *)
(***************************************************************************)
EXTENDS Bencode

\* A struct of internal.rs: its fields, and those with #[serde(default)].
Shape(required, optional) == [required |-> required, optional |-> optional]

DHTPingRequestArguments == Shape({"id"}, {})
DHTFindNodeRequestArguments == Shape({"id", "target"}, {})
DHTGetPeersRequestArguments == Shape({"id", "info_hash"}, {})
DHTAnnouncePeerRequestArguments ==
  Shape({"id", "info_hash", "port", "token"}, {"implied_port"})
DHTGetValueRequestArguments == Shape({"id", "target"}, {"seq"})
DHTPutValueRequestArguments ==
  Shape({"id", "target", "token", "v"}, {"k", "sig", "seq", "cas", "salt"})

DHTPingResponseArguments == Shape({"id"}, {})
DHTFindNodeResponseArguments == Shape({"id", "nodes"}, {})
\* Mutant: a response without a value has no nodes either.
NoValuesWithoutNodes == Shape({"id", "token"}, {})
DHTNoValuesResponseArguments == Shape({"id", "token"}, {"nodes"})
DHTGetPeersResponseArguments == Shape({"id", "token", "values"}, {"nodes"})
DHTGetImmutableResponseArguments == Shape({"id", "token", "v"}, {"nodes"})
DHTNoMoreRecentValueResponseArguments == Shape({"id", "token", "seq"}, {"nodes"})
DHTGetMutableResponseArguments ==
  Shape({"id", "token", "v", "k", "sig", "seq"}, {"nodes"})

\* The query kinds, by the name under "q".
DHTRequestSpecific ==
  [ping          |-> DHTPingRequestArguments,
   find_node     |-> DHTFindNodeRequestArguments,
   get_peers     |-> DHTGetPeersRequestArguments,
   announce_peer |-> DHTAnnouncePeerRequestArguments,
   get           |-> DHTGetValueRequestArguments,
   put           |-> DHTPutValueRequestArguments]

\* Mutant: the plain value before the signed one.
ImmutableFirst ==
  << [kind |-> "GetImmutable", shape |-> DHTGetImmutableResponseArguments],
     [kind |-> "GetMutable", shape |-> DHTGetMutableResponseArguments],
     [kind |-> "NoMoreRecentValue", shape |-> DHTNoMoreRecentValueResponseArguments],
     [kind |-> "GetPeers", shape |-> DHTGetPeersResponseArguments],
     [kind |-> "NoValues", shape |-> DHTNoValuesResponseArguments],
     [kind |-> "FindNode", shape |-> DHTFindNodeResponseArguments],
     [kind |-> "Ping", shape |-> DHTPingResponseArguments] >>

\* Mutant: the ping response, which every response matches, before find_node.
PingBeforeFindNode ==
  << [kind |-> "GetMutable", shape |-> DHTGetMutableResponseArguments],
     [kind |-> "NoMoreRecentValue", shape |-> DHTNoMoreRecentValueResponseArguments],
     [kind |-> "GetImmutable", shape |-> DHTGetImmutableResponseArguments],
     [kind |-> "GetPeers", shape |-> DHTGetPeersResponseArguments],
     [kind |-> "NoValues", shape |-> DHTNoValuesResponseArguments],
     [kind |-> "Ping", shape |-> DHTPingResponseArguments],
     [kind |-> "FindNode", shape |-> DHTFindNodeResponseArguments] >>

\* #[serde(untagged)]: the variants in the order in which they are tried.
DHTResponseSpecific ==
  << [kind |-> "GetMutable", shape |-> DHTGetMutableResponseArguments],
     [kind |-> "NoMoreRecentValue", shape |-> DHTNoMoreRecentValueResponseArguments],
     [kind |-> "GetImmutable", shape |-> DHTGetImmutableResponseArguments],
     [kind |-> "GetPeers", shape |-> DHTGetPeersResponseArguments],
     [kind |-> "NoValues", shape |-> DHTNoValuesResponseArguments],
     [kind |-> "FindNode", shape |-> DHTFindNodeResponseArguments],
     [kind |-> "Ping", shape |-> DHTPingResponseArguments] >>

-----------------------------------------------------------------------------
(* Reading a field: serde_bytes takes a list of small integers for bytes.    *)

ByteFields == {"id", "target", "info_hash", "token", "nodes", "v", "k", "sig", "salt"}

ReadsAsBytes(x) == IsBytes(x) \/ (IsList(x) /\ \A i \in DOMAIN x.list : IsU8(x.list[i]))

AsBytes(x) == IF IsBytes(x) THEN x.bytes ELSE [i \in DOMAIN x.list |-> x.list[i].int]

FixedSize(f) == CASE f = "k" -> KeySize [] f = "sig" -> SigSize [] OTHER -> IdSize

Reads(f, x) ==
  CASE f \in {"id", "target", "info_hash", "k", "sig"} ->
         ReadsAsBytes(x) /\ Len(AsBytes(x)) = FixedSize(f)
    [] f \in {"token", "nodes", "v", "salt"} -> ReadsAsBytes(x)
    [] f \in {"seq", "cas"} -> IsInt(x)
    [] f = "port" -> IsU16(x)
    [] f = "implied_port" -> IsU8(x)
    [] f = "values" -> IsList(x) /\ \A i \in DOMAIN x.list : ReadsAsBytes(x.list[i])

Read(f, x) ==
  CASE f \in ByteFields -> AsBytes(x)
    [] f = "values" -> [i \in DOMAIN x.list |-> AsBytes(x.list[i])]
    [] OTHER -> x.int

Fields(shape) == shape.required \cup shape.optional

\* Fields the struct does not have are ignored; one of its fields that cannot
\* be read, optional or not, makes the struct fail.
Deserializes(dict, shape) ==
  /\ shape.required \subseteq DOMAIN dict
  /\ \A f \in DOMAIN dict \cap Fields(shape) : Reads(f, dict[f])

Deserialized(dict, shape) ==
  [f \in DOMAIN dict \cap Fields(shape) |-> Read(f, dict[f])]

-----------------------------------------------------------------------------
(* Compact addresses and nodes.                                              *)

AddrSize == IpSize + 2

sockaddr_to_bytes(a) == a.ip \o <<a.port \div ByteBase, a.port % ByteBase>>

\* Mutant: the port in the host's byte order.
HostOrderPort(s) ==
  [ip |-> SubSeq(s, 1, IpSize), port |-> s[IpSize + 2] * ByteBase + s[IpSize + 1]]

bytes_to_sockaddr(s) ==
  [ip |-> SubSeq(s, 1, IpSize), port |-> s[IpSize + 1] * ByteBase + s[IpSize + 2]]

NodeByteSize == IdSize + AddrSize

\* Mutant: the address before the id.
AddressFirst(nodes) ==
  [i \in 1..(Len(nodes) * NodeByteSize) |->
     LET node == nodes[((i - 1) \div NodeByteSize) + 1]
     IN (sockaddr_to_bytes(node.address) \o node.id)[((i - 1) % NodeByteSize) + 1]]

nodes4_to_bytes(nodes) ==
  [i \in 1..(Len(nodes) * NodeByteSize) |->
     LET node == nodes[((i - 1) \div NodeByteSize) + 1]
     IN (node.id \o sockaddr_to_bytes(node.address))[((i - 1) % NodeByteSize) + 1]]

bytes_to_nodes4(s) ==
  [n \in 1..(Len(s) \div NodeByteSize) |->
     LET i == (n - 1) * NodeByteSize
     IN [id |-> SubSeq(s, i + 1, i + IdSize),
         address |-> bytes_to_sockaddr(SubSeq(s, i + IdSize + 1, i + NodeByteSize))]]

\* What bytes_to_nodes4 and bytes_to_peers accept.
WholeNodes(s) == Len(s) % NodeByteSize = 0
WholePeers(l) == \A i \in DOMAIN l : Len(l[i]) = AddrSize

-----------------------------------------------------------------------------
(* Message::into_serde_message.                                              *)

Write(f, x) ==
  CASE f = "nodes" -> Bytes(nodes4_to_bytes(x))
    [] f = "values" -> List([i \in DOMAIN x |-> Bytes(sockaddr_to_bytes(x[i]))])
    [] f \in ByteFields \ {"nodes"} -> Bytes(x)
    [] OTHER -> Num(x)

Written(args) == [f \in DOMAIN args |-> Write(f, args[f])]

\* A get does not send the salt it carries.  implied_port is a bool, and sent
\* as 1 whenever there is one, false too, and as 0 when there is none.
EncodeRequest(kind, args) ==
  CASE kind = "Ping" -> [q |-> "ping", args |-> Written(args)]
    [] kind = "FindNode" -> [q |-> "find_node", args |-> Written(args)]
    [] kind = "GetPeers" -> [q |-> "get_peers", args |-> Written(args)]
    [] kind = "GetValue" -> [q |-> "get", args |-> Written(Only(args, {"id", "target", "seq"}))]
    [] kind = "AnnouncePeer" ->
         [q |-> "announce_peer",
          args |-> [f \in DOMAIN args \cup {"implied_port"} |->
                      IF f = "implied_port"
                        THEN Num(IF "implied_port" \in DOMAIN args THEN 1 ELSE 0)
                        ELSE Write(f, args[f])]]
    [] kind \in {"PutImmutable", "PutMutable"} -> [q |-> "put", args |-> Written(args)]

\* Every response variant sends the fields it has.
EncodeResponse(kind, args) == [q |-> "", args |-> Written(args)]

EncodeError(args) ==
  [q |-> "", args |-> [code |-> Num(args.code), description |-> Bytes(args.description)]]

into_serde_message(m) ==
  LET body == CASE m.type = "q" -> EncodeRequest(m.kind, m.args)
                [] m.type = "r" -> EncodeResponse(m.kind, m.args)
                [] m.type = "e" -> EncodeError(m.args)
  IN [t    |-> Bytes(m.transaction_id),
      v    |-> {Bytes(x) : x \in m.version},
      ip   |-> {Bytes(sockaddr_to_bytes(a)) : a \in m.requester_ip},
      ro   |-> {Num(IF m.read_only THEN 1 ELSE 0)},
      y    |-> m.type, q |-> body.q, args |-> body.args]

-----------------------------------------------------------------------------
(* Message::from_bytes: the serde structs, then from_serde_message.          *)

\* Mutant: what has no key is immutable, whatever else it has.
DecodePutByKey(args) ==
  CASE {"k", "seq", "sig"} \subseteq DOMAIN args -> [kind |-> "PutMutable", args |-> args]
    [] "k" \notin DOMAIN args ->
         [kind |-> "PutImmutable", args |-> Only(args, {"id", "token", "target", "v"})]
    [] OTHER -> Refused

\* A put with a key must have a sequence number and a signature, and one
\* without a key none of the mutable item's fields.
DecodePut(args) ==
  CASE {"k", "seq", "sig"} \subseteq DOMAIN args -> [kind |-> "PutMutable", args |-> args]
    [] DOMAIN args \cap {"k", "seq", "sig", "salt", "cas"} = {} ->
         [kind |-> "PutImmutable", args |-> args]
    [] OTHER -> Refused

\* implied_port becomes a bool: any number but 0 is true.
DecodeRequest(q, dict) ==
  LET args == Deserialized(dict, DHTRequestSpecific[q])
  IN IF q \notin DOMAIN DHTRequestSpecific THEN Refused
     ELSE IF ~Deserializes(dict, DHTRequestSpecific[q]) THEN Refused
     ELSE CASE q = "ping" -> [kind |-> "Ping", args |-> args]
            [] q = "find_node" -> [kind |-> "FindNode", args |-> args]
            [] q = "get_peers" -> [kind |-> "GetPeers", args |-> args]
            [] q = "get" -> [kind |-> "GetValue", args |-> args]
            [] q = "announce_peer" ->
                 [kind |-> "AnnouncePeer",
                  args |-> [f \in DOMAIN args |->
                              IF f = "implied_port" THEN (IF args[f] # 0 THEN 1 ELSE 0)
                                                    ELSE args[f]]]
            [] q = "put" -> DecodePut(args)

\* The first variant that the dictionary fits, and then its nodes and peers.
DecodeResponse(dict) ==
  LET fits == {i \in DOMAIN DHTResponseSpecific :
                 Deserializes(dict, DHTResponseSpecific[i].shape)}
      first == CHOOSE i \in fits : \A j \in fits : i <= j
      args == Deserialized(dict, DHTResponseSpecific[first].shape)
  IN IF fits = {} THEN Refused
     ELSE IF "nodes" \in DOMAIN args /\ ~WholeNodes(args.nodes) THEN Refused
     ELSE IF "values" \in DOMAIN args /\ ~WholePeers(args.values) THEN Refused
     ELSE [kind |-> DHTResponseSpecific[first].kind,
           args |-> [f \in DOMAIN args |->
                       CASE f = "nodes" -> bytes_to_nodes4(args[f])
                         [] f = "values" -> [i \in DOMAIN args[f] |-> bytes_to_sockaddr(args[f][i])]
                         [] OTHER -> args[f]]]

\* DHTErrorSpecific is (i32, String).
DecodeError(pair) ==
  IF IsI32(pair.code) /\ IsBytes(pair.description) /\ IsUtf8(pair.description.bytes)
    THEN [kind |-> "Error",
          args |-> [code |-> pair.code.int, description |-> pair.description.bytes]]
    ELSE Refused

\* DHTMessage: the fields every message has, whatever its kind.
EnvelopeReads(w) ==
  /\ \A x \in {w.t} \cup w.v : ReadsAsBytes(x) /\ Len(AsBytes(x)) = TidSize
  /\ \A x \in w.ip : ReadsAsBytes(x) /\ Len(AsBytes(x)) = AddrSize
  /\ \A x \in w.ro : IsI32(x)

from_serde_message(w) ==
  LET body == CASE w.y = "q" -> DecodeRequest(w.q, w.args)
                [] w.y = "r" -> DecodeResponse(w.args)
                [] w.y = "e" -> DecodeError(w.args)
                [] OTHER -> Refused
  IN IF ~EnvelopeReads(w) \/ body = Refused THEN Refused
     ELSE [transaction_id |-> AsBytes(w.t),
           version        |-> {AsBytes(x) : x \in w.v},
           requester_ip   |-> {bytes_to_sockaddr(AsBytes(x)) : x \in w.ip},
           read_only      |-> \E x \in w.ro : x.int > 0,
           type           |-> w.y,
           kind           |-> body.kind,
           args           |-> body.args]

-----------------------------------------------------------------------------
(* What the node looks at in a message it received; {} for None.             *)

get_author_id(m) == IF m.type = "e" THEN {} ELSE {m.args.id}

get_closer_nodes(m) ==
  IF m.type = "r" /\ m.kind # "Ping" /\ "nodes" \in DOMAIN m.args THEN {m.args.nodes} ELSE {}

get_token(m) ==
  IF m.type = "r" /\ m.kind \notin {"Ping", "FindNode"}
    THEN {[id |-> m.args.id, token |-> m.args.token]} ELSE {}

=============================================================================
