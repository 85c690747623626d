--------------------------- MODULE IterativeQuery ---------------------------
(***************************************************************************)
(* The data of a lookup: ClosestNodes and IterativeQuery                   *)
(* (src/src/rpc/closest_nodes.rs, src/src/rpc/iterative_query.rs).         *)
(*                                                                         *)
(* A remote node is one address with one id; Distance[t] ranks the nodes   *)
(* for target t the way ClosestNodes sorts them (secure ids first, then by *)
(* XOR distance).  Every node has its own IP, so the one-per-IP rule of    *)
(* Node::already_exists is "skip a node that is already listed".           *)
(*                                                                         *)
(* A request in flight is named by who asked (owner), the node asked (to)  *)
(* and its role (op).  In the code it is a u32 transaction id; KrpcSocket  *)
(* is the module about those.                                              *)
(***************************************************************************)
EXTENDS Naturals, FiniteSets, Sequences

CONSTANTS
  Nodes,            \* addresses of remote nodes
  Targets,          \* ids that are looked up
  Distance,         \* Distance[t][n]: rank of n among the nodes closest to t
  MaxBucketSizeK,   \* MAX_BUCKET_SIZE_K, 20 in the code
  Values            \* kinds of value a node may answer with: the subset of
                    \* {"Peers", "Immutable", "Mutable"} a run looks at

ASSUME NodesAssumption == IsFiniteSet(Nodes)

ASSUME DistanceAssumption ==
  /\ Distance \in [Targets -> [Nodes -> Nat]]
  /\ \A t \in Targets : \A m, n \in Nodes :
        Distance[t][m] = Distance[t][n] => m = n

ASSUME KAssumption == MaxBucketSizeK \in Nat \ {0}

-----------------------------------------------------------------------------
(* ClosestNodes *)

\* A Node as a list of closest nodes holds it: whether it carries a token, and
\* whether Node::valid_token holds (last seen within TOKEN_ROTATE_INTERVAL).
Entries == [node : Nodes, token : BOOLEAN, fresh : BOOLEAN]

\* Node::new: no token, last_seen = now.
Claimed(S) == [node : S, token : {FALSE}, fresh : {TRUE}]

\* Node::new_with_token.
Responding(S) == [node : S, token : {TRUE}, fresh : {TRUE}]

NodesOf(es) == {e.node : e \in es}

\* ClosestNodes::add for each entry of new: an address already listed is left
\* as it is, so its token and its last_seen are not refreshed.
ClosestAdd(es, new) == es \cup {e \in new : e.node \notin NodesOf(es)}

CloserThan(t, es, e) ==
  {f \in es : Distance[t][f.node] < Distance[t][e.node]}

\* mutant: one candidate short
TakeAllButOneK(t, es) ==
  {e \in es : Cardinality(CloserThan(t, es, e)) + 1 < MaxBucketSizeK}

\* nodes().iter().take(MAX_BUCKET_SIZE_K)
TakeK(t, es) ==
  {e \in es : Cardinality(CloserThan(t, es, e)) < MaxBucketSizeK}

\* ClosestNodes::take_until_secure: how far past the K closest it goes depends
\* on size estimates and subnets; the result is some prefix of the sorted list
\* that holds the K closest nodes.
TakeUntilSecure(t, es) ==
  {p \in SUBSET es : /\ TakeK(t, es) \subseteq p
                     /\ \A e \in p : CloserThan(t, es, e) \subseteq p}

-----------------------------------------------------------------------------
(* IterativeQuery *)

QueryKinds == {"FindNode", "GetPeers", "GetValue"}

\* recorded is GetMutableOutcome::responded(), the sum of its counters.
\* inflight_requests and query_requests are QueryRequests(t, visited).
Queries ==
  [kind : QueryKinds, closest : SUBSET Entries, responders : SUBSET Nodes,
   visited : SUBSET Nodes, responses : Seq(Values), recorded : Nat]

QueryRequests(t, S) == [owner : {t}, to : S, op : {"query", "ping"}]

\* IterativeQuery::new, with the candidates and the addresses Rpc::get gives it.
NewQuery(kind, candidates, addresses) ==
  [kind |-> kind, closest |-> candidates, responders |-> {},
   visited |-> addresses, responses |-> <<>>, recorded |-> 0]

\* mutant: nodes already visited are asked again
ToVisitAgain(t, q) == NodesOf(TakeK(t, q.closest))

\* The addresses visit_closest sends to.
ToVisit(t, q) == NodesOf(TakeK(t, q.closest)) \ q.visited

\* visit_closest: a query request and a ping to each of them.
VisitClosest(t, q) == [q EXCEPT !.visited = @ \cup ToVisit(t, q)]

\* Is any request of the query still in flight in the socket?
AnyInflight(t, inflight) ==
  \E r \in inflight : r.owner = t /\ r.op \in {"query", "ping"}

\* mutant: a query is done once its own requests were answered, pings or not
QueryDoneIgnoringPings(t, inflight) ==
  ~ \E r \in inflight : r.owner = t /\ r.op = "query"

\* IterativeQuery::tick, after visit_closest.
QueryDone(t, inflight) == ~ AnyInflight(t, inflight)

=============================================================================
