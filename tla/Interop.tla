------------------------------ MODULE Interop ------------------------------
(***************************************************************************)
(* Datagrams between nodes of the mainline crate, nodes built on the wire  *)
(* types of mainline-next, and nodes of other implementations, read by     *)
(* both codecs.  What the two make of the same datagram is what            *)
(* src/mainline-next/docs/wire-comparison.md describes.  And the contacts  *)
(* they meet: which ids each crate makes for an IP and accepts from it,    *)
(* and how far it finds them from other ids.                               *)
(***************************************************************************)
EXTENDS Bencode, Bep42

CONSTANTS
  Peers,         \* the ids whose distance from a contact is taken
  OldValues,     \* field -> the values a struct of messages.rs may hold
  NewValues,     \* field -> the values a struct of mainline-next may hold
  ForeignValues, \* field -> the bencoded values other implementations send
  Envelopes      \* [t, v, ip, ro] that other implementations send

\* What the structs of both crates hold: bytes, arrays of a fixed length,
\* addresses (SocketAddrV4, CompactAddress) and nodes with their address.
ByteValues == 0..(ByteBase - 1)
ByteArray(n) == [1..n -> ByteValues]
Address == [ip : ByteArray(IpSize), port : 0..(ByteBase * ByteBase - 1)]
NodeContact == [id : ByteArray(IdSize), address : Address]

\* A bencoded value: a byte string, an integer, or a list of such.
IsScalar(x) ==
  \/ IsBytes(x) /\ x = Bytes(x.bytes) /\ x.bytes \in Seq(ByteValues)
  \/ IsInt(x) /\ x = Num(x.int) /\ x.int \in Int
IsValue(x) ==
  \/ IsScalar(x)
  \/ IsList(x) /\ x = List(x.list) /\ x.list \in Seq({x.list[i] : i \in DOMAIN x.list})
       /\ \A i \in DOMAIN x.list : IsScalar(x.list[i])

\* The fields of queries and responses.
ArgumentFields ==
  {"id", "target", "info_hash", "token", "salt", "v", "k", "sig", "seq", "cas", "port",
   "implied_port", "nodes", "values"}

\* An envelope that both codecs read, with nothing optional in it.
IsPlain(e) == IsBytesOf(TidSize, e.t) /\ e.v = {} /\ e.ip = {} /\ e.ro = {}

\* The types of the fields, which are the same in both crates but for a few.
Typed(V) ==
  /\ \A f \in {"id", "target", "info_hash"} : V[f] \subseteq ByteArray(IdSize)
  /\ V["k"] \subseteq ByteArray(KeySize) /\ V["sig"] \subseteq ByteArray(SigSize)
  /\ \A f \in {"token", "salt", "description", "tid"} : V[f] \subseteq Seq(ByteValues)
  /\ \A f \in {"seq", "cas", "code"} : V[f] \subseteq Int
  /\ V["port"] \subseteq 0..(ByteBase * ByteBase - 1)
  /\ V["nodes"] \subseteq Seq(NodeContact) /\ V["values"] \subseteq Seq(Address)
  /\ \A s \in V["ip"] : s \subseteq Address
  /\ \A s \in V["version"] : s \subseteq Seq(ByteValues)

ASSUME ValuesAssumption ==
  /\ Typed(OldValues) /\ Typed(NewValues)
  /\ OldValues["v"] \subseteq Seq(ByteValues) /\ OldValues["implied_port"] \subseteq {0, 1}
  /\ \A c \in OldValues["code"] : IsI32(Num(c))
  /\ \A d \in OldValues["description"] : IsUtf8(d)
  /\ \A s \in {OldValues["tid"]} \cup OldValues["version"] : s \subseteq ByteArray(TidSize)
  /\ \A x \in NewValues["v"] : IsValue(x)
  /\ NewValues["implied_port"] \subseteq BOOLEAN
  /\ \A f \in ArgumentFields : \A x \in ForeignValues[f] : IsValue(x)
  /\ \A e \in Envelopes : \A x \in {e.t} \cup e.v \cup e.ip \cup e.ro : IsValue(x)
  /\ \E e \in Envelopes : IsPlain(e)

ASSUME PeersAssumption == Peers \subseteq Ids

Old == INSTANCE Messages
New == INSTANCE Wire

VARIABLES
  origin,   \* who sent the datagram: [by, msg]
  wire,     \* the datagram, or None
  old,      \* what Message::from_bytes made of it, or None
  new,      \* what deserializing a WireMessage made of it, or None
  contact   \* a contact that is met: [by, id, ip], or None

vars == <<origin, wire, old, new, contact>>

None == [none |-> TRUE]

\* All dictionaries with the fields D and values from V.
Dicts(D, V) ==
  LET add[S \in SUBSET D] ==
        IF S = {} THEN {<<>>}
        ELSE LET f == CHOOSE g \in S : TRUE
             IN {[g \in S |-> IF g = f THEN x ELSE d[g]] : d \in add[S \ {f}], x \in V[f]}
  IN add[D]

\* All values of a struct: its fields, and any of the optional ones.
Structs(shape, V) ==
  UNION {Dicts(shape.required \cup S, V) : S \in SUBSET shape.optional}

-----------------------------------------------------------------------------
(* Messages each side can send.                                              *)

OldRequests ==
  [Ping         |-> Old!Shape({"id"}, {}),
   FindNode     |-> Old!Shape({"id", "target"}, {}),
   GetPeers     |-> Old!Shape({"id", "info_hash"}, {}),
   GetValue     |-> Old!Shape({"id", "target"}, {"seq", "salt"}),
   AnnouncePeer |-> Old!Shape({"id", "token", "info_hash", "port"}, {"implied_port"}),
   PutImmutable |-> Old!Shape({"id", "token", "target", "v"}, {}),
   PutMutable   |-> Old!Shape({"id", "token", "target", "v", "k", "seq", "sig"}, {"salt", "cas"})]

OldResponses ==
  [Ping              |-> Old!Shape({"id"}, {}),
   FindNode          |-> Old!Shape({"id", "nodes"}, {}),
   GetPeers          |-> Old!Shape({"id", "token", "values"}, {"nodes"}),
   GetImmutable      |-> Old!Shape({"id", "token", "v"}, {"nodes"}),
   GetMutable        |-> Old!Shape({"id", "token", "v", "k", "seq", "sig"}, {"nodes"}),
   NoValues          |-> Old!Shape({"id", "token"}, {"nodes"}),
   NoMoreRecentValue |-> Old!Shape({"id", "token", "seq"}, {"nodes"})]

OldBodies ==
  LET requests == UNION {[type : {"q"}, kind : {k}, args : Structs(OldRequests[k], OldValues)] :
                           k \in DOMAIN OldRequests}
      responses == UNION {[type : {"r"}, kind : {k}, args : Structs(OldResponses[k], OldValues)] :
                            k \in DOMAIN OldResponses}
      errors == [type : {"e"}, kind : {"Error"},
                 args : Dicts({"code", "description"}, OldValues)]
  IN requests \cup responses \cup errors

Message(body, tid, version, ip, ro) ==
  [transaction_id |-> tid, version |-> version, requester_ip |-> ip, read_only |-> ro,
   type |-> body.type, kind |-> body.kind, args |-> body.args]

NewBodies ==
  LET queries == UNION {[kind : {"q"}, query : {q},
                         args : {d \in Structs(New!WireQuery[q], NewValues) :
                                   q = "announce_peer" => "implied_port" \in DOMAIN d}] :
                          q \in DOMAIN New!WireQuery}
      responses == [kind : {"r"}, query : {""}, args : Structs(New!ResponseArguments, NewValues)]
      errors == [kind : {"e"}, query : {""}, args : Dicts({"code", "description"}, NewValues)]
  IN queries \cup responses \cup errors

WireMessage(body, tid, version, ip, ro) ==
  [transaction_id |-> tid, version |-> version, kind |-> body.kind, query |-> body.query,
   args |-> body.args, read_only |-> ro /\ body.kind = "q",
   requester_address |-> IF body.kind = "q" THEN {} ELSE ip]

-----------------------------------------------------------------------------
Init == origin = None /\ wire = None /\ old = None /\ new = None /\ contact = None

Idle == wire = None /\ contact = None

Sent(by, msg, w) ==
  /\ origin' = [by |-> by, msg |-> msg] /\ wire' = w
  /\ UNCHANGED <<old, new, contact>>

SendOld ==
  Idle /\ \E body \in OldBodies, version \in OldValues["version"], ip \in OldValues["ip"],
     ro \in BOOLEAN, tid \in OldValues["tid"] :
       LET m == Message(body, tid, version, ip, ro)
       IN Sent("old", m, Old!into_serde_message(m))

SendNew ==
  Idle /\ \E body \in NewBodies, version \in NewValues["version"], ip \in NewValues["ip"],
     ro \in BOOLEAN, tid \in NewValues["tid"] :
       LET m == WireMessage(body, tid, version, ip, ro)
       IN Sent("new", m, New!Encode(m))

\* Any combination of fields under an envelope that both codecs read, and any
\* envelope around an empty dictionary.
Foreign(y, q, args, envelope) ==
  [t |-> envelope.t, v |-> envelope.v, ip |-> envelope.ip, ro |-> envelope.ro,
   y |-> y, q |-> q, args |-> args]

PlainEnvelope == CHOOSE e \in Envelopes : IsPlain(e)

ResponseFields ==
  UNION {Old!Fields(Old!DHTResponseSpecific[i].shape) : i \in DOMAIN Old!DHTResponseSpecific}

SendForeignQuery ==
  Idle /\ \E q \in DOMAIN Old!DHTRequestSpecific :
    LET shape == Old!DHTRequestSpecific[q]
    IN \E d \in Structs(Old!Shape({}, Old!Fields(shape)), ForeignValues) :
         Sent("foreign", None, Foreign("q", q, d, PlainEnvelope))

SendForeignResponse ==
  Idle /\ \E d \in Structs(Old!Shape({}, ResponseFields), ForeignValues) :
    Sent("foreign", None, Foreign("r", "", d, PlainEnvelope))

SendForeignEnvelope ==
  Idle /\ \E e \in Envelopes, y \in {"q", "r"}, id \in ForeignValues["id"] :
    Sent("foreign", None, Foreign(y, IF y = "q" THEN "ping" ELSE "", [id |-> id], e))

ReadOld ==
  /\ wire # None /\ old = None
  /\ old' = Old!from_serde_message(wire)
  /\ UNCHANGED <<origin, wire, new, contact>>

ReadNew ==
  /\ wire # None /\ old # None /\ new = None
  /\ new' = New!Decode(wire)
  /\ UNCHANGED <<origin, wire, old, contact>>

\* A contact: an id that one of the crates made for its IP, or any id.
Met(by, id, ip) ==
  /\ contact' = [by |-> by, id |-> id, ip |-> ip]
  /\ UNCHANGED <<origin, wire, old, new>>

MeetOld ==
  Idle /\ \E ip \in Ips, bytes \in Ids, r \in Byte :
    Met("old", from_ipv4_and_r(bytes, ip, r), ip)

MeetNew ==
  Idle /\ \E ip \in Ips, bytes \in Ids :
    Met("new", from_random_bytes(ip, bytes), ip)

MeetForeign ==
  Idle /\ \E ip \in Ips, id \in Ids : Met("foreign", id, ip)

Next ==
  \/ MeetOld \/ MeetNew \/ MeetForeign
  \/ SendOld \/ SendNew
  \/ SendForeignQuery \/ SendForeignResponse \/ SendForeignEnvelope
  \/ ReadOld \/ ReadNew

Spec == Init /\ [][Next]_vars

-----------------------------------------------------------------------------
(* Properties, of a datagram that both codecs have read.                     *)

Read == new # None
Accepted(result) == result # None /\ result # Refused

\* What arrives of a message of the mainline crate: without the salt of a get,
\* and with implied_port set to whether there was one.
AsReceived(m) ==
  [m EXCEPT !.args =
     CASE m.kind = "GetValue" -> Only(@, {"id", "target", "seq"})
       [] m.kind = "AnnouncePeer" ->
            [f \in DOMAIN @ \cup {"implied_port"} |->
               IF f = "implied_port" THEN (IF "implied_port" \in DOMAIN @ THEN 1 ELSE 0)
                                     ELSE @[f]]
       [] OTHER -> @]

\* A message of the mainline crate (Message::to_bytes, Message::from_bytes)
\* arrives as it was sent: no response is taken for one of another kind by the
\* untagged enum, and no field is lost or exchanged on the way.
OldRoundTrip == Read /\ origin.by = "old" => old = AsReceived(origin.msg)

\* The fields of a message of the mainline crate as mainline-next holds them.
Translated(args) ==
  [f \in DOMAIN args |->
     CASE f = "implied_port" -> args[f] # 0
       [] f = "v" -> Bytes(args[f])
       [] OTHER -> args[f]]

\* mainline-next reads every message the mainline crate sends, with the same
\* contents; only a put's target is left out, which the receiver computes.
NewReadsOld ==
  Read /\ origin.by = "old" =>
    LET m == AsReceived(origin.msg)
        args == Translated(m.args)
    IN /\ Accepted(new)
       /\ new.transaction_id = m.transaction_id
       /\ new.args = IF m.kind \in {"PutImmutable", "PutMutable"}
                       THEN [f \in DOMAIN args \ {"target"} |-> args[f]] ELSE args
       /\ m.type = "q" => new.read_only = m.read_only
       /\ m.type # "q" => new.requester_address = m.requester_ip

\* The mainline crate reads what mainline-next sends, except what
\* wire-comparison.md lists: a put ("the existing decoder rejects PUTs emitted
\* by the new types"), transaction ids and versions that are not four bytes,
\* errors that are not (i32, UTF-8), and then with the same kind of message; a
\* response may lose fields, never nodes or an author.
OldReadsNew ==
  Read /\ origin.by = "new" =>
    LET m == origin.msg
        readable == /\ m.query # "put"
                    /\ Len(m.transaction_id) = TidSize
                    /\ \A v \in m.version : Len(v) = TidSize
                    /\ m.kind = "e" => IsI32(Num(m.args.code)) /\ IsUtf8(m.args.description)
    IN /\ Accepted(old) <=> readable
       /\ readable =>
            /\ old.type = m.kind
            /\ m.kind # "e" => Old!get_author_id(old) = {m.args.id}
            /\ m.kind = "q" => old.read_only = m.read_only
            /\ m.kind = "r" /\ "nodes" \in DOMAIN m.args =>
                 Old!get_closer_nodes(old) = {m.args.nodes}

\* wire-comparison.md: "The new response structure preserves recognized fields
\* and rejects malformed representations."  What mainline-next reads, it can
\* send on (Serialize) and it is read as the same again, and nothing the
\* sender put in a recognised field is missing.
NewLosesNothing ==
  Read /\ Accepted(new) =>
    /\ New!Decode(New!Encode(new)) = new
    /\ wire.y = "r" =>
         DOMAIN wire.args \cap ResponseFields \subseteq DOMAIN new.args

\* internal.rs: "order matters! Order these from most to least detailed".  No
\* variant with more of the fields that were sent could have been taken.
MostDetailedVariant ==
  Read /\ wire.y = "r" /\ Accepted(old) =>
    \A i \in DOMAIN Old!DHTResponseSpecific :
      LET shape == Old!DHTResponseSpecific[i].shape
      IN Old!Deserializes(wire.args, shape) =>
           ~(DOMAIN old.args \subseteq Old!Fields(shape) \cap DOMAIN wire.args
             /\ DOMAIN old.args # Old!Fields(shape) \cap DOMAIN wire.args)

\* A response that the untagged enum takes for a poorer one still moves the
\* lookup on: its nodes are kept whatever the other fields are, and its token
\* unless the nodes cannot be read (get_closer_nodes, get_token).
FallbackKeepsNodesAndToken ==
  Read /\ wire.y = "r" /\ Accepted(old) =>
    LET reads(f) == f \in DOMAIN wire.args /\ Old!Reads(f, wire.args[f])
    IN /\ reads("nodes") => Old!get_closer_nodes(old) # {}
       /\ reads("token") /\ ("nodes" \in DOMAIN wire.args => reads("nodes")) =>
            \E t \in Old!get_token(old) : t.token = Old!AsBytes(wire.args.token)

\* A put is stored as what it was sent as: of a put that is accepted no field is
\* dropped, so that the fields of a mutable item without its key never pass for
\* an immutable item (MissingMutableSequence, MissingMutableSignature,
\* UnexpectedMutableFieldsInImmutablePut).
PutKeepsItsFields ==
  Read /\ wire.y = "q" /\ wire.q = "put" /\ Accepted(old) =>
    DOMAIN old.args = DOMAIN wire.args \cap Old!Fields(Old!DHTPutValueRequestArguments)

\* Where both codecs accept a datagram they agree on who sent it and on every
\* field that the mainline crate hands on, but for an item whose value is a list
\* of small integers: wire-comparison.md has it read as a byte string by the one
\* ("including integer-list coercion") and kept as it is by the other ("Any
\* bencoded value").
BothAgree ==
  Read /\ Accepted(old) /\ Accepted(new) /\ old.type # "e" =>
    \A f \in DOMAIN old.args \cap DOMAIN new.args :
      \/ f = "v" /\ IsList(wire.args.v)
      \/ Translated(old.args)[f] = new.args[f]

\* Nothing is lost on the way: each crate reads what it writes itself.
MessagesSurvive == OldRoundTrip /\ NewLosesNothing

\* Nodes of the two crates understand each other, and understand other nodes in
\* the same way, up to the differences that wire-comparison.md lists.
CratesInterwork == NewReadsOld /\ OldReadsNew /\ BothAgree

\* However a response deviates, the untagged enum of internal.rs makes the most
\* of it: the richest variant, and never less than what the lookup needs.
DetailKept == MostDetailedVariant /\ FallbackKeepsNodesAndToken

-----------------------------------------------------------------------------
(* Properties of a contact                                                   *)

\* An id that one crate made for its IP is accepted by both, and of any other
\* contact both say the same (Id::is_valid_for_ip and Bep42NodeContact).
ContactsAgree ==
  contact # None =>
    /\ is_valid_for_ip(contact.id, contact.ip) <=> try_from(contact.id, contact.ip)
    /\ contact.by # "foreign" => try_from(contact.id, contact.ip)

\* Both crates put a node in the same bucket (Id::distance and
\* Id::bucket_distance), and the buckets are ordered as the XOR metric that
\* lookups sort by: a closer node is never in a farther bucket.
BucketsFollowXor ==
  contact # None => \A p \in Peers :
    LET d == distance(contact.id, p)
    IN /\ d = bucket_distance(contact.id, p)
       /\ d = distance(p, contact.id)
       /\ d = 0 <=> p = contact.id
       /\ \A q \in Peers :
            Closer(xor_distance(contact.id, p), xor_distance(contact.id, q))
              => d <= distance(contact.id, q)

\* The two crates judge a contact alike and put it in the same place.
ContactsTreatedAlike == ContactsAgree /\ BucketsFollowXor

=============================================================================
