---------------------------- MODULE RoutingTable ----------------------------
(***************************************************************************)
(* The Kademlia routing table (src/src/common/routing_table.rs, Node in    *)
(* src/src/common/node.rs) and its upkeep: periodic_node_maintenance,      *)
(* ping_and_purge and the places in src/src/rpc.rs that add to it.         *)
(*                                                                         *)
(* A contact is an id at an address: [id, ip, secure, prefix], where       *)
(* secure is Node::is_secure (the id is valid for the ip) and prefix is    *)
(* Id::first_21_bits.  Bucket[id] is Id::distance to the node's own id;    *)
(* only the own id has distance 0.  The clock counts steps of five         *)
(* minutes, so "more than ten seconds ago" is "before now".                *)
(***************************************************************************)
EXTENDS Naturals, Sequences, FiniteSets

CONSTANTS
  Contacts,         \* the contacts that may be heard of
  Bucket,           \* Bucket[id]: the bucket an id belongs to
  BucketSizeK,      \* MAX_BUCKET_SIZE_K
  StaleTime,        \* STALE_TIME
  PingInterval,     \* PING_TABLE_INTERVAL
  RefreshInterval,  \* REFRESH_TABLE_INTERVAL
  MaxDistance,      \* the last bucket, 160 in the code
  Rank,             \* Rank[t][id]: the XOR distance of an id to a target t
  MaxTime           \* bound: where the clock stops

Ids == {c.id : c \in Contacts}
Buckets == {Bucket[i] : i \in Ids} \ {0}

ASSUME ContactsAssumption ==
  /\ \A c \in Contacts : c = [id |-> c.id, ip |-> c.ip, secure |-> c.secure, prefix |-> c.prefix]
  /\ \A c \in Contacts : c.secure \in BOOLEAN
  /\ \A c, d \in Contacts : c.id = d.id => c.prefix = d.prefix
  /\ Bucket \in [Ids -> Nat]

ASSUME DistancesAssumption ==
  /\ MaxDistance \in Nat /\ \A i \in Ids : Bucket[i] <= MaxDistance
  /\ \A t \in DOMAIN Rank :
       Rank[t] \in [Ids -> Nat] /\ \A i, j \in Ids : Rank[t][i] = Rank[t][j] => i = j

ASSUME TimesAssumption ==
  /\ BucketSizeK \in Nat \ {0}
  /\ {StaleTime, PingInterval, RefreshInterval, MaxTime} \subseteq Nat

VARIABLES
  table,        \* buckets: the nodes of each, the least recently seen first
  now,          \* the clock
  lastPing,     \* last_table_ping
  lastRefresh   \* last_table_refresh

vars == <<table, now, lastPing, lastRefresh>>

Entries == [contact : Contacts, seen : Nat]

EmptyTable == [b \in Buckets |-> <<>>]

ContactsIn(nodes) == {nodes[i].contact : i \in DOMAIN nodes}

InTable == UNION {ContactsIn(table[b]) : b \in Buckets}

Init ==
  /\ table = EmptyTable
  /\ now = 0 /\ lastPing = 0 /\ lastRefresh = 0

-----------------------------------------------------------------------------
(* Node *)

\* Node::is_stale
IsStale(e) == now - e.seen > StaleTime

\* mutant: only the address is compared with insecure nodes
AlreadyExistsLoose(c, S) == \E d \in S : c.ip = d.ip /\ ~ d.secure

\* Node::already_exists: one insecure node per IP, and no two nodes of an IP
\* with the same first 21 bits.
AlreadyExists(c, S) ==
  \E d \in S : c.ip = d.ip /\ (~ d.secure \/ c.prefix = d.prefix)

-----------------------------------------------------------------------------
(* KBucket and RoutingTable *)

Removed(nodes, i) == SubSeq(nodes, 1, i - 1) \o SubSeq(nodes, i + 1, Len(nodes))

\* mutant: a node that moved is written over its old entry, in place
KBucketAddInPlace(nodes, e) ==
  LET same == {i \in DOMAIN nodes : nodes[i].contact.id = e.contact.id}
  IN  IF same # {} THEN [i \in DOMAIN nodes |-> IF i \in same THEN e ELSE nodes[i]]
      ELSE IF Len(nodes) < BucketSizeK THEN Append(nodes, e)
      ELSE IF IsStale(nodes[1]) THEN Append(Removed(nodes, 1), e)
      ELSE nodes

\* mutant: a full bucket drops its first node, stale or not
KBucketAddLikeLru(nodes, e) ==
  LET same == {i \in DOMAIN nodes : nodes[i].contact.id = e.contact.id}
  IN  IF same # {} THEN nodes
      ELSE IF Len(nodes) < BucketSizeK THEN Append(nodes, e)
      ELSE Append(Removed(nodes, 1), e)

\* mutant: ids are not compared
KBucketAddSameId(nodes, e) ==
  IF Len(nodes) < BucketSizeK THEN Append(nodes, e)
  ELSE IF IsStale(nodes[1]) THEN Append(Removed(nodes, 1), e)
  ELSE nodes

\* KBucket::add
KBucketAdd(nodes, e) ==
  LET same == {i \in DOMAIN nodes : nodes[i].contact.id = e.contact.id}
  IN  IF same # {}
      THEN LET i   == CHOOSE i \in same : TRUE
               old == nodes[i].contact
           IN  IF e.contact.secure \/ (~ old.secure /\ old.ip = e.contact.ip)
               THEN Append(Removed(nodes, i), e) ELSE nodes
      ELSE IF Len(nodes) < BucketSizeK THEN Append(nodes, e)
      ELSE IF IsStale(nodes[1]) THEN Append(Removed(nodes, 1), e)
      ELSE nodes

\* RoutingTable::add: not the own id, and no contact that already exists in
\* any bucket.
Add(e) ==
  LET b == Bucket[e.contact.id]
  IN  IF b = 0 \/ AlreadyExists(e.contact, InTable) THEN table
      ELSE [table EXCEPT ![b] = KBucketAdd(@, e)]

\* mutant: node_index is not set back for the next bucket
CursorWithoutReset(b, i) == IF i = Len(table[b]) THEN <<b + 1, i + 1>> ELSE <<b, i + 1>>

\* RoutingTableIterator: where it goes on after the i-th node of bucket b.
CursorAfter(b, i) == IF i = Len(table[b]) THEN <<b + 1, 1>> ELSE <<b, i + 1>>

\* RoutingTable::nodes: what RoutingTableIterator yields, also to to_bootstrap.
AllNodes ==
  LET from[c \in (1..MaxDistance + 1) \X (1..BucketSizeK + 1)] ==
        IF c[1] > MaxDistance THEN <<>>
        ELSE IF c[1] \in Buckets /\ c[2] <= Len(table[c[1]])
             THEN <<table[c[1]][c[2]]>> \o from[CursorAfter(c[1], c[2])]
             ELSE from[<<c[1] + 1, c[2]>>]
  IN from[<<1, 1>>]

\* mutant: secure nodes are sorted with the others
BeforeByDistance(t, c, d) == Rank[t][c.id] < Rank[t][d.id]

\* The order of ClosestNodes: secure nodes first, then by distance.
Before(t, c, d) ==
  \/ c.secure /\ ~ d.secure
  \/ c.secure = d.secure /\ Rank[t][c.id] < Rank[t][d.id]

\* ClosestNodes::add: the node goes where binary_search_by says, unless it
\* already exists or is listed as just as secure.
AddClosest(t, list, c) ==
  LET listed == {list[i] : i \in DOMAIN list}
      ahead  == {i \in DOMAIN list : Before(t, list[i], c)}
      pos    == Cardinality(ahead)
  IN IF AlreadyExists(c, listed) \/ (\E d \in listed : d.id = c.id /\ d.secure = c.secure)
     THEN list
     ELSE SubSeq(list, 1, pos) \o <<c>> \o SubSeq(list, pos + 1, Len(list))

\* The list that closest and closest_secure take their first nodes from.
closest(t) ==
  LET upto[n \in 0..Len(AllNodes)] ==
        IF n = 0 THEN <<>> ELSE AddClosest(t, upto[n - 1], AllNodes[n].contact)
  IN upto[Len(AllNodes)]

-----------------------------------------------------------------------------
(* Where nodes come from *)

\* A contact answers a request of a lookup: handle_response adds it (the first
\* node of a network adds those that ask it, in handle_request).  One that
\* answers a ping of ping_and_purge, or a lookup with a value, is not added,
\* and the entry it may have stays as it is.
LookupAnswered(c) ==
  /\ table' = Add([contact |-> c, seen |-> now])
  /\ UNCHANGED <<now, lastPing, lastRefresh>>

\* The node takes a new id (handle_request): RoutingTable::new.  The new buckets
\* are as good as the old ones: Bucket stays.
NewTable ==
  /\ table' = EmptyTable
  /\ UNCHANGED <<now, lastPing, lastRefresh>>

-----------------------------------------------------------------------------
(* periodic_node_maintenance *)

PingDue == now - lastPing >= PingInterval
RefreshDue == now - lastRefresh >= RefreshInterval

\* mutant: nodes are pinged and none is removed
PurgedNone == table

\* Vec::retain: the nodes at the positions in kept, in their order.
Retained(nodes, kept) ==
  LET upto[n \in 0..Len(nodes)] ==
        IF n = 0 THEN <<>>
        ELSE IF n \in kept THEN Append(upto[n - 1], nodes[n]) ELSE upto[n - 1]
  IN upto[Len(nodes)]

\* purge_nodes on the stale nodes.
Purged ==
  [b \in Buckets |-> Retained(table[b], {i \in DOMAIN table[b] : ~ IsStale(table[b][i])})]

\* Purging when pings are due, and populate() when the table was empty or a
\* refresh is due.
Maintain ==
  /\ PingDue \/ RefreshDue \/ InTable = {}
  /\ table' = IF PingDue THEN Purged ELSE table
  /\ lastPing' = IF PingDue THEN now ELSE lastPing
  /\ lastRefresh' = IF RefreshDue \/ InTable = {} THEN now ELSE lastRefresh
  /\ UNCHANGED now

\* Five minutes pass.  The actor ticks many times a second: upkeep that is due
\* is done by then.
Advance ==
  /\ now < MaxTime /\ ~ PingDue /\ ~ RefreshDue
  /\ now' = now + 1
  /\ UNCHANGED <<table, lastPing, lastRefresh>>

Next ==
  \/ \E c \in Contacts : LookupAnswered(c)
  \/ NewTable
  \/ Maintain
  \/ Advance

Spec == Init /\ [][Next]_vars

-----------------------------------------------------------------------------

\* Every node sits in the bucket of its distance, never the own id, no bucket
\* holds more than K nodes, and no id is listed twice.
InTheirBuckets ==
  \A b \in Buckets :
    /\ Len(table[b]) <= BucketSizeK
    /\ \A i \in DOMAIN table[b] : Bucket[table[b][i].contact.id] = b
    /\ \A i, j \in DOMAIN table[b] :
         table[b][i].contact.id = table[b][j].contact.id => i = j

\* One IP cannot fill the table: of the nodes of an IP at most one is insecure,
\* and the secure ones differ in their first 21 bits, which leaves eight.
PerIpLimit ==
  \A c, d \in InTable : (c.ip = d.ip /\ c # d) =>
    (c.secure \/ d.secure) /\ c.prefix # d.prefix

\* "Nodes in the k-bucket, sorted by the least recently seen": the node that a
\* full bucket checks for staleness is the oldest one, so none that is stale
\* keeps a new node out.
SortedBySeen ==
  \A b \in Buckets : \A i, j \in DOMAIN table[b] :
    i < j => table[b][i].seen <= table[b][j].seen

\* What RoutingTable::add and KBucket::add rely on and keep, however nodes move,
\* claim each other's ids and go stale.
WellFormed == InTheirBuckets /\ PerIpLimit /\ SortedBySeen

\* A dead contact does not linger: the table holds no node last seen longer ago
\* than StaleTime and one PingInterval.
NothingLingers ==
  \A b \in Buckets : \A i \in DOMAIN table[b] :
    now - table[b][i].seen <= StaleTime + PingInterval

\* RoutingTable::nodes, which the upkeep, lookups and to_bootstrap go through:
\* every node of the table once, whatever buckets are empty or were emptied.
NodesIteratedOnce ==
  /\ Len(AllNodes) = Cardinality(InTable)
  /\ ContactsIn(AllNodes) = InTable

\* RoutingTable::closest: "the closest nodes to the target while prioritizing
\* secure nodes".  The list is in that order, and a node of the table that is
\* not in it has the IP of an insecure one that is.
ClosestSecureFirst ==
  \A t \in DOMAIN Rank :
    LET list == closest(t)
    IN /\ \A i, j \in DOMAIN list : i < j =>
            /\ list[j].secure => list[i].secure
            /\ list[i].secure = list[j].secure => Rank[t][list[i].id] < Rank[t][list[j].id]
       /\ \A c \in InTable \ {list[i] : i \in DOMAIN list} :
            \E i \in DOMAIN list : list[i].ip = c.ip /\ ~ list[i].secure

\* Whoever reads the table, through nodes() or closest(), sees what is in it.
ReadsComplete == NodesIteratedOnce /\ ClosestSecureFirst

\* New contacts cannot push a node out of the table: it leaves it because it
\* was added longer than StaleTime ago, because its id turns up at an address it
\* is valid for, or because the node itself takes a new id.
DroppedOnlyForCause ==
  [][\A c \in InTable \ InTable' :
       \/ table' = EmptyTable
       \/ \E b \in Buckets : \E i \in DOMAIN table[b] :
            table[b][i].contact = c /\ IsStale(table[b][i])
       \/ \E d \in InTable' : d.id = c.id /\ d.secure]_vars

=============================================================================
