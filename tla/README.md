# mainline in TLA+

A verification project for `mainline`, a BitTorrent Mainline DHT node in Rust.
The modules model the node's own logic as the code in `src/src/` has it: the
API and its channels, the actor loop with its lookups and puts, what the node
knows about its own address, the socket's request table, the server with its
write tokens and stores, the routing table, the KRPC codec and the ids; and the
parts of the rewrite in `src/mainline-next/` that exist: its reactor, its wire
types and its BEP 42 contacts. TLC checks small instances of each; TLAPS proves
the most important invariants for every value of the constants.

Run `tlc -config X.cfg MCModule` for a run of `PROJECT.json`, and
`tlapm XProofs.tla` for the proofs. `PROJECT.json` maps every definition to
the source lines it stands for.

## 1. Inventory

| Component | State | Operations | What is hard |
|---|---|---|---|
| Actor (`dht.rs`: `run`) | `put_senders`, `get_senders` | receive one message per turn, `Rpc::tick`, report | callers wait on channels; a query that is dropped without a report blocks them for ever |
| Query engine (`rpc.rs`) | `iterative_queries`, `put_queries`, `cached_iterative_queries` | `get`, `put`, `tick` and its five steps | calls join, refuse or replace each other; requests time out between any two steps |
| Lookups (`iterative_query.rs`, `closest_nodes.rs`) | candidates, responders, visited, responses, counters | `visit_closest`, `tick`, `response`, `add_*` | when is a lookup over; late, lying and silent nodes |
| Puts (`put_query.rs`) | requests sent, `stored_at`, sorted error counts | `start`, `success`, `error`, `poll_completion` | mixed answers; one result for all |
| Socket (`socket.rs`, `inflight_requests.rs`) | `next_tid`, requests in flight, last cleanup | `request`, `recv_from`, cleanup | id wrap-around, late and duplicated answers |
| Server (`server.rs`, `peers.rs`) | LRU stores of peers, values and items | `handle_request` | order of checks, cas races between clients, full stores |
| Tokens (`tokens.rs`) | two secrets, time of last rotation | `generate_token`, `validate`, lazy `rotate` | rotation between a get and its put |
| Routing table (`routing_table.rs`, `node.rs`) | k-buckets | `add`, `remove`, purge, refresh | per-IP rule, moved nodes, staleness |
| Public address, adaptive mode (`rpc.rs`) | `public_address`, `firewalled`, `server_mode`, the id | votes, self ping, new id, switch to server mode | a self ping that is lost, late, or for an address given up meanwhile |
| Statistics (`rpc.rs`, `closest_nodes.rs`) | LRU cache of lookups, sums and counts over it | `cache_iterative_query` | drift over a long run, a full cache |
| API (`dht.rs`, `async_dht.rs`) | clones of one channel to the actor, a channel per call | `new`, `clone`, drop, calls, streams | the last drop against pending calls, cancelled futures, blocking sends of the actor |
| Messages (`messages.rs`, `internal.rs`) | - | `to_bytes`, `from_bytes` | an untagged enum, optional fields, fields of the wrong type |
| Ids (`id.rs`), items (`mutable.rs`) | - | BEP 42, distance, `most_recent_mutable_item` | bits that end inside a byte; ties |
| `mainline-next` reactor | a worker thread with the socket, shared handles | `bind`, `clone`, `shutdown`, drop | concurrent shutdowns, a lost wake, the last drop |
| `mainline-next` wire types, `bep42.rs`, `distance.rs` | - | encode, decode, validate | agreement with the `mainline` crate |

How they interact: an API call sends a message to the actor thread and waits
on a channel. The actor passes it to `Rpc::get` or `Rpc::put`, which send
requests through the socket; every turn, `Rpc::tick` polls puts, then lookups,
cleans up what is done (which may start puts), maintains the routing table,
and receives one datagram. A request goes to the server, an answer to the put
or lookup that has its transaction id in flight. What finished is reported to
the senders registered under the target id. Everything runs on one thread; the
concurrency is that of calls, answers and timeouts between the steps.

What makes each part correct:

- engine: no caller is forgotten, every accepted call is answered, a result is
  the result of what was asked, each value is delivered once;
- lookups: they end, they end only when exhausted, no answer reaches the wrong
  lookup;
- puts: Ok means stored, a majority conflict is not hidden, no silent override;
- socket: an answer is matched to its request, once, in time; no live request
  is lost; the table does not grow;
- tokens and server: a fresh token is accepted; acknowledged items stay; cas
  updates exclude each other;
- routing table: well-formed buckets, the per-IP limit, order by last seen, no
  dead contacts, no contact dropped without cause; the iterator visits every
  node once; the closest nodes are the closest, secure ones first;
- address and mode: a node claims only an address it was reached at, has a
  valid id there, and serves on its own initiative only then; the sums match
  the cache;
- API: no caller panics while the node is in use, the actor never blocks on a
  reply, a stream has every value, reads return, the last drop ends the actor;
- codec and ids: what is sent is what is read, by the same crate and by the
  other; nothing a lookup needs is lost in a poorer variant; an id made for an
  IP is accepted for it; buckets follow the XOR metric;
- reactor: shutdown waits and answers everyone alike; the worker stops when
  asked, and when the last handle goes, and not before.

The hazards behind these are listed in `PROJECT.json`, each at its line.

## 2. Modules

| Module | Models | Extends |
|---|---|---|
| `IterativeQuery` | `ClosestNodes`, `IterativeQuery` as data and operators | - |
| `PutQuery` | `PutQuery` as data and operators | `IterativeQuery` |
| `Rpc` | the actor loop composed with lookups and puts | `PutQuery` |
| `RpcProofs` | theorems about the lookups and the puts of `Rpc` | `Rpc` |
| `KrpcSocket`, `KrpcSocketProofs` | the table of requests in flight, against a lossy network | - |
| `Tokens` | write tokens | - |
| `LruCache` | the `lru` crate as used (external) | - |
| `Server`, `ServerProofs` | `handle_request` over tokens and stores | `Tokens`, `LruCache` |
| `RoutingTable`, `RoutingTableProofs` | buckets, upkeep, the iterator, `closest` | - |
| `NodeIds` | `Id`: BEP 42 and distance, as operators | - |
| `NodeState`, `NodeStateProofs` | public address, id, server mode, cache and sums | `NodeIds`, `LruCache` |
| `Dht`, `DhtProofs` | handles, calls, streams and channels around the actor | - |
| `Bencode` | bencoded values as serde gives them (external) | - |
| `Messages` | the codec of `mainline`, as operators | `Bencode` |
| `Wire`, `Bep42` | wire types, contacts and distances of `mainline-next` | `Bencode`; `NodeIds` |
| `Interop`, `InteropProofs` | datagrams and contacts between the two crates and others | `Bencode`, `Bep42`; instances of `Messages`, `Wire` |
| `ReactorLifecycle` | what the reactor's documentation promises | - |
| `Reactor`, `ReactorProofs` | the reactor's threads, step by step | - |
| `MC...` | instances for TLC | the module of that name |

`Tokens` is also the abstract specification of what the server does with its
secrets: `ServerTokens` checks that every request handler is a step of it
(`ImplementsTokens`), which carries `FreshTokenAccepted` over to the server.
`KrpcSocket` justifies the view `Rpc` has of the socket: a request in flight is
named by who sent it, to whom and what for, an answer is handed on at most once
and only for a request in flight (`AnswersMatched`), and a request that is in
flight stays so until it is answered or expires (`LiveRequestsKept`). `Rpc` in
turn justifies the view `Dht` has of lookups: they bring values and end
(`GetsAnswered`).

`ReactorLifecycle` is an abstract specification of the reactor: off, running,
stopping, stopped. `Reactor` implements it under the mapping in
`Lifecycle == INSTANCE ReactorLifecycle WITH ...` (a stop is requested when the
flag is stored; the result is there when the worker has left): with fairness on
the instance of `Reactor.cfg`, its safety part by proof for any number of
threads.

### How the models correspond to the code

**Rpc.** `phase` is the position in a turn of `run`:
`recv -> put -> get -> cleanup -> maintain -> message -> report`. `recv` is the
`match receiver.try_recv()` (`RecvGet`, the four `RecvPut...` actions, one per
way out of `Rpc::put`), then one action per call in `Rpc::tick` (`TickPut`,
`TickGet`, `Cleanup`, `Maintain`, and the actions of `HandleMessage`), then
`Report` for the rest of the loop body. HashMaps are partial functions. A
request is `[owner, to, op]` in place of a transaction id: lookups send a
`query` and a `ping` to every node they visit, puts send `put` requests and, to
extra nodes, `extra` ones. `Expire` may happen between any two steps, as
`Instant::elapsed` does. Nodes are addresses with distinct IPs; `Distance` is
the order `ClosestNodes` sorts by. Answers are a `body` (bare, nodes, token, or
a kind of value) and any set of closer nodes, so remote nodes may lie about
whom they know. `take_until_secure` returns any prefix with at least the K
closest, since how far it goes depends on statistics that are not modelled.
`Seeds` are the node sets the routing table may offer. `got`, `result`,
`callState` are what a caller sees; `acked` is history.

**KrpcSocket.** `requests` is `inflight_requests`; ids wrap at `TidSpace`.
`serial`, `accepted`, `mistaken` are history. `Rate` requests per unit of time
stand for the sending rate of the node, and the loop calls `recv_from` at least
once per unit (the socket has a read timeout of 50 ms). `EnoughTids` is the
assumption the comment of `tid()` makes in words.

**Tokens and Server.** Secrets are numbered by rotation; a token is its IP and
secret. Each server action is a whole request: filter, rotation, checks in
order, store, reply. LRU order is kept exactly, including that reading an item
for a comparison counts as a use even if the put is refused afterwards. `best`,
`casAcks`, `touched`, `issued` are history.

**RoutingTable.** A contact is an id at an IP with the two facts the code
derives from them (valid for the IP, first 21 bits). The clock moves in steps
of five minutes and waits for upkeep that is due, as the loop ticks many times
a second. A bucket is a sequence with the least recently seen first; `AllNodes`
follows the two indices of `RoutingTableIterator`, `closest` inserts one node
after the other as `ClosestNodes::add` does.

**NodeState.** One action per finished lookup (votes, then the cache), upkeep,
ping received and call; `Rpc` and `RoutingTable` have the rest of these steps.
`Option` is a set of at most one element. An IP is what the CRC sees of it and
whether it is exempt; the CRC is any function. A lookup ends with any sizes.
`pinged`, `reached`, `retired`, `configured` are history.

**Dht.** A call's sender is idle, in the actor's inbox, waiting in
`get_senders` or `put_senders`, or dropped; `values` and `reply` are what its
two channels hold. Calls that borrow the `Dht` keep their handle from being
dropped, streams do not. Dropping a future or a stream is `Cancel`. A target
belongs to one kind of item, as hashes and keys make it. `to_bootstrap` and
`SeedRouting` are `info` calls, `get_peers` is `get_mutable` and
`get_closest_nodes` is `find_node` with other data.

**Messages, Wire, Interop.** A wire message is its dictionary, byte strings are
sequences of bytes with scaled sizes (a byte has two values, an id one byte): a
length is right or wrong and an integer fits or not, which is all the codecs
look at. `DHTResponseSpecific` is the list of variants in the order serde tries
them. `Interop` sends every message either crate can build, and every
dictionary over good, short and ill-typed fields that another implementation
might send, to both decoders. The values are constants; `ValuesAssumption` gives
them the types of the Rust structs, and bencode where other implementations send
them, and TLC evaluates it on the instance.

**NodeIds, Bep42.** Ids of four bytes of two bits, so that the prefix ends
inside a byte and the last byte holds r, as in the code.

**Reactor.** Each user thread is at a step of `shutdown` or of dropping its
handle; the flag, the wake, the lock and the join are separate steps, and the
worker's check, poll and exit too. A wake may be lost, poll may fail, time out
or be interrupted, and the worker may panic.

## 3. Runs

| Run | Bounds | Shows |
|---|---|---|
| `RpcLookup` | 2 nodes, K = 1, cold or warm table, 2 get calls, own-id lookups, 2 kinds of value | lookups end exhausted, answers find their owner, each node counted once, each value delivered once and in order |
| `RpcPut` | 2 nodes, 1 of them extra for one put, K = 2, 2 of 6 puts of one target and a get, all error codes | joins, refusals, overrides and caches; what callers are told, what is counted as stored, error counts and the majority rule |
| `RpcLive` | 2 nodes, K = 1, 2 of 2 puts and a get | every get and every put is answered when no find_node uses the target |
| `RpcPutHang` | 1 node, 1 put, 1 find_node | **violated**: the put never ends |
| `KrpcSocket` | 3 ids, timeout 2, delay 2, time 5 | matching, no loss, no leak across a wrap-around |
| `ServerMutable` | 3 targets in a store of 2, 2 seqs, 2 items | acknowledged items stay, cas updates exclude each other |
| `ServerTokens` | interval 1, time 4, one of each store | fresh tokens accepted and never refused; refines `Tokens` |
| `RoutingTable` | 6 contacts, 2 buckets of 2, time 8 | bucket and per-IP rules, order, no dead contacts, none dropped without cause; iterator and closest nodes |
| `Interop` | bytes of 2 values, ids of 1 byte; contacts: 4 bytes of 2 bits, 4 kinds of IP | round trips, agreement of the two crates, what an untagged enum may lose |
| `Reactor` | 3 threads | shutdown and drop in any interleaving; refines `ReactorLifecycle` |
| `NodeState` | 3 addresses on 2 IPs, cache of 2, 3 lookups counted | confirmed address and id, server mode, sums and counts |
| `Dht` | 2 handles, 2 of 6 calls, 2 values per lookup | panics, replies, streams, the end of the actor |

Why the bounds are enough: each is the smallest in which its hazard can happen.
Two nodes with K = 1 leave one candidate beyond the K closest. Two calls are
enough for any pair to meet at any point of each other's life. Three ids with a
timeout of two wrap around while answers are under way. Three targets overflow
a store of two. Eight units of time let a contact be added, go stale, be purged
and come back. With two values of a byte and one wrong value per field, every
path of a decoder is taken. Three threads are one that joins, one that waits
for the lock and one that drops. A cache of two evicts and replaces at once.
Two calls on two handles meet in every order with the drop of either. The
bounds on counters (`MaxCount`, `MaxResponses`, `MaxCalls`, `MaxTime`) are
guards of the environment's actions.

Several properties are conjunctions of parts that have names of their own:
`WellFormed` and `ReadsComplete` of `RoutingTable`, `ConflictsSurface`,
`PutsReachStorage` and `CallsAnswered` of `Rpc`, `StatisticsMatchCache` of
`NodeState`, `Delivered` and `Released` of `Dht`, `ShutdownContract` of
`Reactor`, and all but `PutKeepsItsFields` of `Interop`. Each property, and
each part of a conjunction, has a mutant of the code's logic (marked `mutant:`
in the modules) that TLC finds to violate it. The type invariants are proved
(section 4) and have no run.

**Fairness.** `Fairness` of `Rpc` is weak fairness of the loop, because the
actor thread loops without blocking for longer than the socket's read timeout,
and of each `Expire(r)`, because time passes. Nothing makes a remote node
answer, a call be made or the node ping itself. `RpcPutHang` is a violation
under the same fairness.

`FairSpec` of `Reactor` is weak fairness of every step of a call that has begun,
since threads are scheduled and the mutex is released, and of the worker's
check, timeout and exit; not of a wake, an event or a failure. `Fairness` of
`Dht` is that of the creating thread and the actor's thread, of callers that
can be woken, and of the end of each lookup, which `RpcLive` establishes. That
a put ends is not assumed, because of `RpcPutHang`.

### The violated run, and known disagreements

`RpcPutHang` is a defect of the code: a put whose target is also looked up with
find_node (by a call, or because the target is the node's own id) waits for
ever, either because `cleanup_done_queries` skips FindNode lookups or because
the cached FindNode nodes carry no tokens. `PROJECT.json` quotes the line.

The models show some more places where comments and code differ. They have no
run of their own; the properties are stated as the code has it, with the
exception named.

- An announce or put_immutable that nodes answer with 301 or 302 gets a
  concurrency error, which `dht.rs:281` declares unreachable.
- A token is accepted for as long as no request comes in, and up to ten minutes
  after that; `tokens.rs:49` says ten minutes. Rotation is lazy.
- A node in the routing table is never refreshed, however often it answers, and
  so turns stale; `routing_table.rs:182` says responsive nodes are not dropped.
- `Dht::new` panics, or waits for ever if the channel keeps what is queued, when
  the socket cannot be bound and the actor looks for the `Check` message before
  it is sent; `dht.rs:130` promises an error.
- The receiver of a detailed get panics if the node is dropped before the lookup
  ends (`async_dht.rs:415`): the exception in `PanicsOnlyAfterLastDrop`.
- An implied port of `Some(false)` is sent as 1 (`messages.rs`), and the salt of
  a get is not sent: `AsReceived` in `Interop`.
- The count of responder-based estimates is never reduced for FindNode lookups
  (`rpc.rs:975`), so the estimate shrinks with every refresh that leaves the
  cache: `CountDriftsByFindNodes`.
- `public_address` is set before it is confirmed (`rpc.rs:909`); whether it is
  confirmed is `firewalled`. A self ping that is lost is not repeated until the
  address changes.
- `closest` leaves out a secure node whose IP an insecure one of the list has,
  depending on which came first: the second part of `ClosestSecureFirst`.
- `Timeout` is also the result of a put that got only errors other than 301 and
  302 (`put_query.rs:235`); of two overlapping announces the first gets the
  result of the second, and an announce replaces a put of the same target
  (`rpc.rs:342`); a node that is both closest and extra counts twice in
  `stored_at` (`put_query.rs:203`).

## 4. Proofs

All proofs are for arbitrary constants under the named `ASSUME`s of the modules.
Each invariant has the same shape: an inductive invariant, a lemma that `Init`
gives it, one lemma per action that it is kept, and the theorems that read the
properties off it. Most of the properties are not inductive; the bullets say
what had to be added and why.

Recursive functions (`Retained`, `Taken`, `MostRecent`, `XorByte`, `Dicts`) are
reasoned about by least counterexample: a set of numbers that is not empty has a
least member (`LeastNat`, from `NatLessThanWellFounded` and `WFMin`), so that the
least length at which the definition would fail leads to a contradiction.

- `RpcProofs`: `RpcTypeCorrect`, `NoCallerForgotten`, `LookupRequestsOwned`.
  The inductive invariant `RpcInv` adds to the three properties `PhaseInv`
  (results exist only between the step that computes them and the report, and
  until `Cleanup` the queries they are about are still there with nothing in
  flight) and `SendersInv` (senders are registered under their own target).
  Without `PhaseInv`, `Cleanup` could remove a lookup with a request in flight;
  without `SendersInv`, `Report` could drop a sender it does not answer.

  `LookupInv`, on top of it, is about what lookups find: `LookupsRunToTheEnd`,
  `StorageNodesGaveTokens`, `NodesCountedOnce`, `ValuesDeliveredOnce`. It relates
  the nodes a lookup visited to its requests in flight and to those that
  answered, and what each caller was sent to the responses of the lookup it
  joined; that one more response is one more step of `Taken` is
  `TakenOneByOne`.

  About puts: `AddErrorIs` says that `PutQuery::error` counts one answer more
  and keeps the list sorted. `PutFacts` is the account of one put: every answer
  takes one of its requests out of the socket and is counted once. It survives
  the steps of other puts since no two have the same owner (`PutInv`). From it
  follow `StoredAtCounted`, `ConflictsAreReported` and `OverridesAreExplicit`.
  `StoredInv` adds that the item under way covers those of all callers it took
  over, hence `OkMeansAcknowledged`: Ok is for an item that some node
  acknowledged, through any chain of joins and overrides. This rests on
  `ContentAssumption`: items with the same target are of the same kind,
  immutable ones are then the same item, and equal signatures are over equal
  seqs. The code makes targets by hashing the value, or the key and salt, and
  signs the seq with the value (`hash_immutable`, `target_from_key`,
  `encode_signable`). `ReachInv` adds where tokens come from, for
  `PutsGetToStorage`: a put that has sent nothing has a value lookup to wait
  for. Its hypothesis `NoFindNodeOnItems`, that nobody looks up the target of a
  put with `find_node`, is needed: the run `RpcPutHang` shows what happens
  without it.
- `KrpcSocketProofs`: `SocketTypeCorrect`, `AnswersNeverConfused`,
  `LiveRequestsNeverLost`, `RequestsDoNotPileUp`. `SocketInv` numbers the
  requests: the one with serial s has the id given out `sent - s` requests ago,
  the last `TidSpace` ids are different, and the rate limits how many were sent
  since; so by `EnoughTids` an id comes round again only after its request and
  its answers are gone. `CleanupInv` relates the age of requests to the last
  cleanup.
- `ServerProofs`. Tokens first: `TokensTypeCorrect`, `FreshTokensAccepted`.
  `TokenAges` places the tokens of each secret in time relative to the last
  rotation. Then `ServerImplementsTokens`: every request handler is a step of
  `Tokens` or a stutter, which gives `ServerAcceptsFreshTokens` and
  `FreshTokensNotRefused`. Then the stores: `AcknowledgedItemsKept`,
  `CasUpdatesAreExclusive`, `StoresStayBounded`. That an acknowledged item is
  kept is not inductive, for it does not say which item is evicted next;
  `Recency` does, by relating the order of the LRU cache to the history of uses.
  The lemmas about the cache (`LruGetKeeps`, `LruPutKeeps`, `EvictedAfterCap`)
  are stated for any keys and values.
- `RoutingTableProofs`: `TableWellFormed`, `NoNodeLingers`,
  `NodesDroppedForCause`, `ReadsSeeTheTable`. `Picks` says that a sequence has the elements of
  another at some positions, in their order, which is what `Vec::remove` and
  `Vec::retain` do. `TableInv` adds to `WellFormed` that no node was seen in the
  future and none was stale at the last upkeep. For reads: the iterator's cursor
  only goes forward, so its recursion has a solution, and from the last bucket
  down it lists what is left once (`IteratedOnce`); `AddClosestGood` says that
  one ordered insertion keeps the list in order and leaves out only a node with
  the IP of an insecure one that is listed.
- `DhtProofs`: `DhtTypeOK`, `NoPanicWhileInUse`, `EveryValueDelivered`,
  `MostRecentReturned`. `DhtInv` adds `Startup` (a handle exists only after
  the actor answered `Check`, and the actor runs as long as one does), `Queued`
  (a call is in the actor's channel once, until it is taken out) and `Answered`
  (a sender is dropped after it was used, or with the actor) to the property
  about streams.
- `ReactorProofs`: `ReactorCorrect`, `ShutdownSharesResult`,
  `ShutdownAwaitsWorker`, `WorkerStopsOnlyOnRequest`, which make up
  `ShutdownContractKept`, and `ReactorRefinesLifecycle`. `ReactorInv` is `WorkerInv` (what the worker has
  left behind in each state), `JoinInv` (answers are the cached result, which is
  the outcome of a worker that is gone) and `RequestInv` (whoever stored the flag
  is in shutdown, was answered, or was the last to drop). The refinement needs
  the first for `Stop` and `Fail`, the second for `Answer`.
- `NodeStateProofs`: `FreshIdIsValid` (the id that `from_ipv4_and_r` makes passes
  `is_valid_for_ip`: replacing the low bits of a byte keeps its high bits and the
  other way round), then `AddressCorrect` for `AddressInv`, from which
  `ReachabilityConfirmed`, `ConfirmedIdSecure` and `ServesOnceReachable`.
  Then the statistics of cached lookups, `StatisticsBelongToCache`. `Total` adds up
  a set and chooses which entry comes first; `TotalIsSum` says that the choice
  does not matter. `CacheInv` adds that a target is cached once and that the
  cache never exceeds its capacity: two entries of a target would make the sum
  over a set of entries differ from what was added.

- `InteropProofs`: `ContactsAreTreatedAlike`, `MessagesDoSurvive`,
  `CratesDoInterwork`, `ResponsesKeepDetail`, `PutsKeepTheirFields`. For contacts,
  `XorByteFacts` and `LeadingZerosOrdered` say what the distance of two bytes and
  its leading zeros are, from which `DistanceIs`: both crates compute the same
  distance, and it follows the order of XOR. `ContactInv` says that a contact has
  an id, and one that is valid for its IP if a crate made it; that replacing the
  low bits of a byte keeps the high ones (`MixedByte`) gives the second part.

  For datagrams the inductive invariant is `DatagramsInv`, the conjunction of
  `OriginInv` (a datagram is what one of the crates encoded from a message of its
  own types, or any bencode) and `DatagramInv` (what was read is what the codecs
  make of the datagram). The properties talk about both ends of the wire, and
  without `OriginInv` nothing would relate them. The rest is about the codecs,
  from the bottom up: addresses and lists of nodes survive (`AddressRoundTrip`,
  `NodesRoundTrip`, `SameNodesRead`), hence fields (`FieldSurvives`,
  `NewFieldSurvives`, `FieldsAgree`), structs, bodies, envelopes and messages
  (`OldBack`, `OldReadByNew`, `NewReadByOld`, `NewKeeps`, `BothRead`). That no
  response is taken for one of another kind rests on `MostDetailedFirst`: each
  variant of `DHTResponseSpecific` needs a field that no later one knows.
  `ValuesAssumption` states the Rust types of the fields and that other
  implementations send bencode; it says nothing about which values they send.

Every invariant that a run checks is the conclusion of one of these theorems.
Only model-checked, since fairness is out of the prover's reach: `CallsAnswered`,
`ShutdownReturns`, `FinalDropFreesSocket`, `Released`, and the fairness part of
`ImplementsLifecycle`.

## 5. Not modelled

- Floating point: the size estimate of one lookup (`closest_nodes.rs`), hence how
  far `take_until_secure` goes, which is any admissible prefix; the random choice
  in `get_random_peers`.
- Hashes, the CRC and signatures: their outcomes are inputs, or any function.
- The text of ids, errors and bencode itself.
- Answers to maintenance pings: they belong to no query, so `handle_response`
  ignores them.
- Widths of counters (`u8` in `PutQuery`): the model counts in Nat. Underflow of
  the monotonic clock.
- Builders, `Info`, Testnet, the examples and the statistical simulation under
  `docs/`: plain data, test support, usage.

## 6. Plan

1. Done: the core (`IterativeQuery`, `PutQuery`, `Rpc`, `KrpcSocket`, `Tokens`,
   `Server`, `RoutingTable`); the rest of the node (`NodeState`, `Dht`,
   `Messages`, `NodeIds`); `mainline-next` (`Reactor`, `Wire`, `Bep42`) and its
   agreement with `mainline` (`Interop`); eight proof modules.
2. Compositions left: `Rpc` over `KrpcSocket` as a refinement, so that the set
   `inflight` is the abstract view of the table; two clients and a server
   (`PutQuery` with `Server`) for cas updates end to end; `PutQuery` with 8-bit
   counters.
3. Theorems left: liveness, which needs a prover for fairness; the compositions
   of item 2, once they are modelled.
