----------------------------- MODULE NodeState -----------------------------
(***************************************************************************)
(* What a node knows about itself and about the network's size             *)
(* (src/src/rpc.rs): its id, the public address that lookups vote for, the *)
(* self-ping that shows it is not behind a firewall, adaptive server mode, *)
(* and the cache of finished lookups with the sums kept over it.           *)
(*                                                                         *)
(* Rpc::tick finishes lookups, maintains the node and reads one message,   *)
(* each of which may have nothing to do: any sequence of the actions below *)
(* is a sequence of ticks.  How a lookup proceeds is modelled in Rpc, what *)
(* is in the routing table in RoutingTable; here a lookup ends with any    *)
(* votes and any sizes.  The sums are whole numbers, floats in the code.   *)
(***************************************************************************)
EXTENDS NodeIds, LruCache, FiniteSets

CONSTANTS
  Addresses,         \* [ip, port]
  RandomIds,         \* ids that Id::random and Id::from_ipv4 may draw
  RandomBytes,       \* values of r that Id::from_ipv4 may draw
  Targets,           \* ids that callers look up
  Results,           \* what a lookup may estimate: [size, responders, subnets]
  HasBootstrap,      \* are there bootstrap nodes?
  MaxVotes,          \* bound: votes for an address in one lookup
  CacheCap,          \* MAX_CACHED_ITERATIVE_QUERIES
  ColdStartSize,     \* responders_based_dht_size_estimates_sum at the start
  ColdStartSubnets,  \* subnets_sum at the start
  MaxCount           \* bound: the number of lookups counted

ASSUME NodeStateAssumption ==
  /\ Addresses \subseteq [ip : Ips, port : Nat]
  /\ RandomIds \subseteq Ids /\ RandomBytes \subseteq Byte /\ Targets \subseteq Ids
  /\ Results \subseteq [size : Nat, responders : Nat, subnets : Nat]
  /\ HasBootstrap \in BOOLEAN
  /\ {MaxVotes, CacheCap, MaxCount} \subseteq Nat \ {0}
  /\ {ColdStartSize, ColdStartSubnets} \subseteq Nat

VARIABLES
  id,              \* routing_table.id()
  server_mode,     \* socket.server_mode
  public_address,  \* {} or {address}
  firewalled,
  lookups,         \* iterative_queries: [target, find], find for a FindNode
  cached,          \* cached_iterative_queries
  dht_size_estimates_sum,
  responders_sum,    \* responders_based_dht_size_estimates_sum
  responders_count,  \* responders_based_dht_size_estimates_count
  subnets_sum,
  configured,      \* history: server_mode was set in the Config
  pinged,          \* history: self-pings since the public address was learnt
  reached,         \* history: the public address, once a ping came from it
  retired          \* history: FindNode lookups that left the cache

addressVars == <<public_address, firewalled, pinged, reached>>
cacheVars == <<cached, dht_size_estimates_sum, responders_sum, responders_count,
               subnets_sum, retired>>
vars == <<id, server_mode, lookups, configured, addressVars, cacheVars>>

\* Id::from_ipv4
FreshIds(ip) == {from_ipv4_and_r(x[1], ip, x[2]) : x \in RandomIds \X RandomBytes}

\* Rpc::new: an id for the configured public IP or a random one; whatever is
\* configured, the public address is not known and the node is firewalled.
Init ==
  /\ id \in RandomIds \cup UNION {FreshIds(a.ip) : a \in Addresses}
  /\ configured \in BOOLEAN /\ server_mode = configured
  /\ public_address = {} /\ firewalled = TRUE
  /\ lookups = {} /\ cached = <<>>
  /\ dht_size_estimates_sum = 0
  /\ responders_sum = ColdStartSize /\ responders_count = 0
  /\ subnets_sum = ColdStartSubnets
  /\ pinged = {} /\ reached = {} /\ retired = 0

-----------------------------------------------------------------------------
(* Lookups *)

\* Rpc::get: joins the lookup of the target or starts one, which reads the
\* cache for the nodes to start from.
Get(target, find) ==
  IF \E q \in lookups : q.target = target THEN UNCHANGED <<lookups, cached>>
  ELSE /\ lookups' = lookups \cup {[target |-> target, find |-> find]}
       /\ cached' = LruGet(cached, target)

NotGet == UNCHANGED <<lookups, cached>>

statVars == <<dht_size_estimates_sum, responders_sum, responders_count, subnets_sum, retired>>

\* Dht::find_node, get_peers, get_mutable...
CallGet(target, find) ==
  /\ Get(target, find)
  /\ UNCHANGED <<id, server_mode, configured, addressVars, statVars>>

\* Rpc::put: reads the cache too, and looks the target up unless the cached
\* nodes gave tokens, which those of a FindNode lookup never do.
CallPut(target) ==
  /\ \/ Get(target, FALSE)
     \/ /\ target \in Keys(cached) /\ ~ At(cached, target).find
        /\ cached' = LruGet(cached, target) /\ UNCHANGED lookups
  /\ UNCHANGED <<id, server_mode, configured, addressVars, statVars>>

-----------------------------------------------------------------------------
(* A lookup is finished: cleanup_done_queries *)

\* IterativeQuery::best_address: the one with most votes, whichever of several.
BestAddresses(votes) ==
  {a \in Addresses : votes[a] > 0 /\ \A b \in Addresses : votes[b] <= votes[a]}

\* mutant: a node that was reachable stays so whatever its address
UpdateAddressStillReachable(best) ==
  /\ public_address' = {best}
  /\ UNCHANGED firewalled
  /\ IF public_address = {best} THEN UNCHANGED <<pinged, reached>>
     ELSE pinged' = {best} /\ reached' = {}

\* update_address_votes_from_iterative_query: a new address is to be confirmed
\* by one ping to it.
UpdateAddress(best) ==
  /\ public_address' = {best}
  /\ IF public_address = {best} THEN UNCHANGED <<firewalled, pinged, reached>>
     ELSE firewalled' = TRUE /\ pinged' = {best} /\ reached' = {}

UpdateAddressVotes ==
  \/ \E best \in UNION {BestAddresses(votes) : votes \in [Addresses -> 0..MaxVotes]} :
       UpdateAddress(best)
  \/ UNCHANGED addressVars

\* The entries that the cache loses when a lookup of the target ends: the least
\* recently used one if it is full, and the old one of the target.
Popped == IF Len(cached) >= CacheCap THEN {cached[Len(cached)]} ELSE {}

AfterPop == IF Len(cached) >= CacheCap THEN SubSeq(cached, 1, Len(cached) - 1) ELSE cached

Replaced(target) == {AfterPop[i] : i \in {j \in DOMAIN AfterPop : AfterPop[j].key = target}}

Total(entries, f) ==
  LET sum[S \in SUBSET entries] ==
        IF S = {} THEN 0
        ELSE LET e == CHOOSE e \in S : TRUE IN e.val[f] + sum[S \ {e}]
  IN sum[entries]

\* mutant: what LruCache::put pushes out is not subtracted
GoneOnReplace(target, found) == IF found = {} THEN {} ELSE Replaced(target)

\* The entries passed to decrement_cached_iterative_query_stats.
Gone(target, found) == Popped \cup (IF found = {} THEN {} ELSE Replaced(target))

\* mutant: the number of lookups counted goes down with every entry
UncountedAlways(gone) == Cardinality(gone)

\* What the count goes down by: entries of FindNode lookups are not subtracted.
Uncounted(gone) == Cardinality({e \in gone : ~ e.val.find})

\* cache_iterative_query with its decrements: the cache makes room before the
\* lookup of an offline node (no closest nodes: found is empty) is thrown away.
CacheLookup(q, found) ==
  LET gone    == Gone(q.target, found)
      entries == {[key |-> q.target,
                   val |-> [find |-> q.find, size |-> r.size, responders |-> r.responders,
                            subnets |-> r.subnets]] : r \in found}
  IN /\ responders_count + Cardinality(found) <= MaxCount
     /\ cached' = IF found = {} THEN AfterPop
                  ELSE LruPut(AfterPop, q.target, (CHOOSE e \in entries : TRUE).val, CacheCap)
     /\ dht_size_estimates_sum' = (dht_size_estimates_sum + Total(entries, "size")) - Total(gone, "size")
     /\ responders_sum' = (responders_sum + Total(entries, "responders")) - Total(gone, "responders")
     /\ subnets_sum' = (subnets_sum + Total(entries, "subnets")) - Total(gone, "subnets")
     /\ responders_count' = (responders_count + Cardinality(found)) - Uncounted(gone)
     /\ retired' = retired + Cardinality({e \in gone : e.val.find})

FinishLookup(q) ==
  /\ lookups' = lookups \ {q}
  /\ UpdateAddressVotes
  /\ \E found \in {{}} \cup {{r} : r \in Results} : CacheLookup(q, found)
  /\ UNCHANGED <<id, server_mode, configured>>

-----------------------------------------------------------------------------
(* Upkeep and messages *)

\* mutant: any node becomes a server once it has run long enough
SwitchWhenRefreshing == TRUE

\* try_switching_to_server_mode
SwitchedToServer == server_mode \/ ~ firewalled

\* periodic_node_maintenance when a refresh is due, and populate alone when the
\* routing table is empty: the node looks its own id up.
Maintain ==
  /\ \/ server_mode' = SwitchedToServer
     \/ UNCHANGED server_mode
  /\ IF HasBootstrap THEN Get(id, TRUE) ELSE NotGet
  /\ UNCHANGED <<id, configured, addressVars, statVars>>

\* mutant: the id stays
KeepId(ip) == id' = id /\ NotGet

\* A new id if the present one is not valid for the IP, and a lookup of it; the
\* routing table starts from nothing.
SecureId(ip) ==
  IF is_valid_for_ip(id, ip) THEN id' = id /\ NotGet
  ELSE \E new_id \in FreshIds(ip) : id' = new_id /\ Get(new_id, TRUE)

\* from == our_address
IsOurAddress(from) == public_address = {from}

\* handle_request, of a ping; other requests do not change this state, and
\* what a server answers is modelled in Server.
ReceivePing(from) ==
  /\ reached' = reached \cup ({from} \cap public_address)
  /\ IF IsOurAddress(from)
     THEN firewalled' = FALSE /\ SecureId(from.ip)
     ELSE UNCHANGED <<firewalled, id>> /\ NotGet
  /\ UNCHANGED <<server_mode, configured, public_address, pinged, statVars>>

Next ==
  \/ \E t \in Targets : CallPut(t) \/ \E find \in BOOLEAN : CallGet(t, find)
  \/ \E q \in lookups : FinishLookup(q)
  \/ Maintain
  \/ \E a \in Addresses : ReceivePing(a)

Spec == Init /\ [][Next]_vars

-----------------------------------------------------------------------------

\* A node that says it is reachable was pinged from the address that it says is
\* its own, after it learnt that address; and the reachability it has not shown
\* yet has been asked for by a ping (firewalled, public_address).
ReachableWasConfirmed ==
  /\ ~ firewalled => public_address # {} /\ public_address \subseteq reached
  /\ firewalled => public_address = pinged

\* Once its address is confirmed, the node's id is valid for it (BEP 42), so
\* that other nodes keep it in their tables as a secure one.
ConfirmedIdIsSecure ==
  ~ firewalled => \A a \in public_address : is_valid_for_ip(id, a.ip)

\* In adaptive mode a node serves only after it was reachable at some address.
ServesOnlyOnceReachable ==
  [][server_mode' /\ ~ server_mode => public_address # {} /\ public_address \subseteq reached]_vars

\* The sums are those of the cached lookups, over what they start from: neither
\* eviction, nor a lookup of a cached target, nor an offline lookup leaves
\* something behind that the averages are off by from then on.
SumsMatchCache ==
  LET entries == {cached[i] : i \in DOMAIN cached}
  IN /\ dht_size_estimates_sum = Total(entries, "size")
     /\ responders_sum = ColdStartSize + Total(entries, "responders")
     /\ subnets_sum = ColdStartSubnets + Total(entries, "subnets")

\* The count that responders_sum is divided by: one for each cached lookup, and
\* one for each FindNode lookup that was ever cached and is not any more.  It
\* never goes below zero, and it drifts upwards.
CountDriftsByFindNodes == responders_count = Len(cached) + retired

\* The statistics belong to what is cached, after any sequence of lookups that
\* are cached, replaced, evicted or left out.
StatisticsMatchCache == SumsMatchCache /\ CountDriftsByFindNodes

=============================================================================
