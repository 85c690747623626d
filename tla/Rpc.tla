-------------------------------- MODULE Rpc --------------------------------
(***************************************************************************)
(* The query engine of a node: the actor loop of Dht (run in               *)
(* src/src/dht.rs) around Rpc::put, Rpc::get and Rpc::tick                 *)
(* (src/src/rpc.rs), with the lookups of IterativeQuery and the puts of    *)
(* PutQuery.                                                               *)
(*                                                                         *)
(* One turn of the loop is seven steps of the model, in the code's order:  *)
(*   recv -> put -> get -> cleanup -> maintain -> message -> report        *)
(* The clock runs between any two of them: Expire is a request timing out. *)
(* HashMaps are partial functions.  The routing table is the environment   *)
(* here: a lookup starts from any of the node sets in Seeds.  Address      *)
(* votes and the statistics of cached lookups are left out.                *)
(***************************************************************************)
EXTENDS PutQuery

CONSTANTS
  GetCalls,     \* API calls that get
  GetReq,       \* GetReq[c]: the request of call c and the sender it waits on
  Bootstrap,    \* addresses of the bootstrap nodes
  Seeds,        \* possible results of routing_table.closest_secure
  SelfTargets,  \* the ids the node may have as its own, which it looks up
  MaxCalls      \* bound: how many of the calls are made

Calls == GetCalls \cup PutCalls

GetRequests ==
  [kind : QueryKinds, target : Targets,
   sender : {"ClosestNodes", "Peers", "Immutable", "Mutable", "MutableDetailed"}]

ASSUME RpcAssumption ==
  /\ GetReq \in [GetCalls -> GetRequests]
  /\ GetCalls \cap PutCalls = {}
  /\ IsFiniteSet(GetCalls) /\ IsFiniteSet(PutCalls)
  /\ Bootstrap \subseteq Nodes
  /\ Seeds \subseteq SUBSET Nodes /\ Seeds # {}
  /\ SelfTargets \subseteq Targets
  /\ MaxCalls \in Nat

VARIABLES
  phase,        \* where the loop is
  queries,      \* iterative_queries
  puts,         \* put_queries
  cached,       \* cached_iterative_queries: the closest_responding_nodes
  inflight,     \* requests the socket still expects an answer to
  getSenders,   \* get_senders
  putSenders,   \* put_senders
  callState,    \* what each API call sees: "idle", "waiting" or "answered"
  got,          \* the values a get call received
  result,       \* the result a put call received
  doneGet,      \* done_get_queries of this turn
  donePut,      \* done_put_queries of this turn
  newResponse,  \* new_query_response of this turn: at most one <<target, value>>
  acked         \* history: which node acknowledged a put request of which call

vars == <<phase, queries, puts, cached, inflight, getSenders, putSenders,
          callState, got, result, doneGet, donePut, newResponse, acked>>

Phases == {"recv", "put", "get", "cleanup", "maintain", "message", "report"}

Results == {"None", "Ok", "NoClosestNodes", "Timeout",
            "CasFailed", "NotMostRecent", "ConflictRisk"}

\* m is a HashMap with keys in D and values in R.
IsMap(m, D, R) == DOMAIN m \subseteq D /\ m \in [DOMAIN m -> R]

Requests == [owner : Targets, to : Nodes, op : {"query", "ping"}]
              \cup [owner : PutCalls, to : Nodes, op : {"put", "extra"}]

\* HashMap::insert and HashMap::remove
Put(m, k, v) == [x \in DOMAIN m \cup {k} |-> IF x = k THEN v ELSE m[x]]

Without(m, ks) == [x \in DOMAIN m \ ks |-> m[x]]

Empty == [x \in {} |-> {}]

Init ==
  /\ phase = "recv"
  /\ queries = Empty /\ puts = Empty /\ cached = Empty
  /\ inflight = {}
  /\ getSenders = [t \in Targets |-> {}]
  /\ putSenders = [t \in Targets |-> {}]
  /\ callState = [c \in Calls |-> "idle"]
  /\ got = [c \in GetCalls |-> <<>>]
  /\ result = [c \in PutCalls |-> "None"]
  /\ doneGet = Empty /\ donePut = Empty
  /\ newResponse = {}
  /\ acked = {}

-----------------------------------------------------------------------------
(* Rpc::get *)

\* The candidates of a new lookup: the routing table's nodes, with those among
\* them seen lately, then the nodes cached by the last lookup of the target.
Candidates(t, seed, recent) ==
  ClosestAdd(Claimed(recent) \cup [node : seed \ recent, token : {FALSE}, fresh : {FALSE}],
             IF t \in DOMAIN cached THEN cached[t] ELSE {})

\* The bootstrap nodes are asked when the routing table is too thin.
BootstrapVisits(seed) ==
  IF seed = {} \/ Cardinality(seed) < Cardinality(Bootstrap) THEN Bootstrap ELSE {}

\* A call that finds a lookup of the same target joins it, whatever its kind.
JoinOrStart(t, kind) ==
  \/ t \in DOMAIN queries /\ UNCHANGED <<queries, inflight>>
  \/ /\ t \notin DOMAIN queries
     /\ \E seed \in Seeds : \E recent \in SUBSET seed :
          LET q == VisitClosest(t, NewQuery(kind, Candidates(t, seed, recent),
                                            BootstrapVisits(seed)))
          IN  /\ queries' = Put(queries, t, q)
              /\ inflight' = inflight \cup QueryRequests(t, q.visited)

-----------------------------------------------------------------------------
(* The actor receives at most one message per turn. *)

MayCall(c) ==
  /\ phase = "recv" /\ callState[c] = "idle"
  /\ Cardinality({d \in Calls : callState[d] # "idle"}) < MaxCalls

RecvNothing ==
  /\ phase = "recv"
  /\ phase' = "put"
  /\ UNCHANGED <<queries, puts, cached, inflight, getSenders, putSenders, callState,
                 got, result, doneGet, donePut, newResponse, acked>>

\* fn send in dht.rs: which values a sender takes.
Accepts(sender, v) ==
  \/ sender = v
  \/ sender = "MutableDetailed" /\ v = "Mutable"

\* The values of a lookup that a sender takes, in order.
Taken(sender, responses) ==
  LET upto[n \in 0 .. Len(responses)] ==
        IF n = 0 THEN <<>>
        ELSE IF Accepts(sender, responses[n]) THEN Append(upto[n - 1], responses[n])
        ELSE upto[n - 1]
  IN  upto[Len(responses)]

\* mutant: a call that joins a lookup gets no replay of earlier responses
NoReplay(c) == <<>>

\* What a new caller is sent at once: the responses the lookup has seen so far.
Replay(c) ==
  LET t == GetReq[c].target
  IN  IF t \in DOMAIN queries THEN Taken(GetReq[c].sender, queries[t].responses) ELSE <<>>

\* ActorMessage::Get
RecvGet(c) ==
  LET t == GetReq[c].target
  IN  /\ MayCall(c)
      /\ JoinOrStart(t, GetReq[c].kind)
      /\ got' = [got EXCEPT ![c] = Replay(c)]
      /\ getSenders' = [getSenders EXCEPT ![t] = @ \cup {c}]
      /\ callState' = [callState EXCEPT ![c] = "waiting"]
      /\ phase' = "put"
      /\ UNCHANGED <<puts, cached, putSenders, result, doneGet, donePut, newResponse, acked>>

\* Rpc::put on a mutable item while another one is being put to the target.
Conflicts(c) ==
  LET t == PutReq[c].target
  IN  /\ PutReq[c].kind = "Mutable"
      /\ t \in DOMAIN puts
      /\ PutReq[puts[t].owner].kind = "Mutable"

\* mutant: any put on a busy target is taken over
VerdictAlwaysOverride(c) == "Override"

Verdict(c) ==
  LET old == PutReq[puts[PutReq[c].target].owner]
  IN  IF PutReq[c].sig = old.sig THEN "Join"
      ELSE IF PutReq[c].seq < old.seq THEN "NotMostRecent"
      ELSE IF PutReq[c].cas = {} THEN "ConflictRisk"
      ELSE IF PutReq[c].cas = {old.seq} THEN "Override"
      ELSE "CasFailed"

\* The request is refused and the caller told at once.
RecvPutRefused(c) ==
  /\ MayCall(c) /\ Conflicts(c)
  /\ Verdict(c) \in {"NotMostRecent", "ConflictRisk", "CasFailed"}
  /\ result' = [result EXCEPT ![c] = Verdict(c)]
  /\ callState' = [callState EXCEPT ![c] = "answered"]
  /\ phase' = "put"
  /\ UNCHANGED <<queries, puts, cached, inflight, getSenders, putSenders,
                 got, doneGet, donePut, newResponse, acked>>

AwaitPut(c) ==
  /\ putSenders' = [putSenders EXCEPT ![PutReq[c].target] = @ \cup {c}]
  /\ callState' = [callState EXCEPT ![c] = "waiting"]
  /\ phase' = "put"
  /\ UNCHANGED <<cached, getSenders, got, result, doneGet, donePut, newResponse, acked>>

\* The same item is being put: wait for that query.
RecvPutJoin(c) ==
  /\ MayCall(c) /\ Conflicts(c) /\ Verdict(c) = "Join"
  /\ AwaitPut(c)
  /\ UNCHANGED <<queries, puts, inflight>>

\* Rpc::put goes on to make a PutQuery, which replaces the one it overrides, or
\* any put of another kind to the same target.
Admitted(c) == Conflicts(c) => Verdict(c) = "Override"

\* The cached nodes of an earlier lookup are used if one of them is fresh.
CacheUsable(t) == t \in DOMAIN cached /\ \E e \in cached[t] : e.fresh

RecvPutFromCache(c) ==
  LET t == PutReq[c].target
      p == Start(NewPut(c), cached[t])
  IN  /\ MayCall(c) /\ Admitted(c) /\ CacheUsable(t)
      /\ puts' = Put(puts, t, p)
      /\ inflight' = inflight \cup p.sent
      /\ AwaitPut(c)
      /\ UNCHANGED queries

\* Otherwise the put waits for a lookup.
RecvPutWithLookup(c) ==
  LET t == PutReq[c].target
  IN  /\ MayCall(c) /\ Admitted(c) /\ ~ CacheUsable(t)
      /\ JoinOrStart(t, "GetValue")
      /\ puts' = Put(puts, t, NewPut(c))
      /\ AwaitPut(c)

-----------------------------------------------------------------------------
(* Rpc::tick *)

\* tick_put_queries
TickPut ==
  /\ phase = "put"
  /\ donePut' = [t \in {u \in DOMAIN puts : PollCompletion(puts[u], inflight) # "Pending"}
                   |-> PollCompletion(puts[t], inflight)]
  /\ phase' = "get"
  /\ UNCHANGED <<queries, puts, cached, inflight, getSenders, putSenders, callState,
                 got, result, doneGet, newResponse, acked>>

\* mutant: candidates are reported as storage nodes
ClosestOfCandidates(t, q) == {TakeK(t, q.closest)}

\* The nodes a finished lookup reports, as tick_get_queries computes them.
ClosestOf(t, q) ==
  IF q.kind = "FindNode" THEN {TakeK(t, q.closest)}
  ELSE TakeUntilSecure(t, Responding(q.responders))

\* tick_get_queries
TickGet ==
  /\ phase = "get"
  /\ queries' = [t \in DOMAIN queries |-> VisitClosest(t, queries[t])]
  /\ inflight' = inflight \cup
       UNION {QueryRequests(t, ToVisit(t, queries[t])) : t \in DOMAIN queries}
  /\ LET done == {t \in DOMAIN queries : QueryDone(t, inflight')}
     IN  \E f \in [done -> UNION {ClosestOf(t, queries[t]) : t \in done}] :
           /\ \A t \in done : f[t] \in ClosestOf(t, queries[t])
           /\ doneGet' = f
  /\ phase' = "cleanup"
  /\ UNCHANGED <<puts, cached, getSenders, putSenders, callState,
                 got, result, donePut, newResponse, acked>>

\* Puts that were waiting for one of the finished lookups.  A FindNode lookup
\* starts none: its answers carry no tokens.
PutsToStart ==
  {t \in DOMAIN doneGet \cap DOMAIN puts :
     queries[t].kind # "FindNode" /\ ~ Started(puts[t])}

\* mutant: the error of PutQuery::start is ignored
NoPutWithoutNodes == {}

\* PutQuery::start fails with NoClosestNodes.
PutsWithoutNodes == {t \in PutsToStart : doneGet[t] = {}}

\* mutant: a put that cannot start is dropped without a result
DonePutsForgettingErrors == donePut

DonePuts ==
  [t \in DOMAIN donePut \cup PutsWithoutNodes |->
     IF t \in PutsWithoutNodes THEN "NoClosestNodes" ELSE donePut[t]]

\* cache_iterative_query stores nothing when the lookup heard of no node at all.
ToCache == {t \in DOMAIN doneGet : queries[t].closest # {}}

\* cleanup_done_queries
Cleanup ==
  /\ phase = "cleanup"
  /\ queries' = Without(queries, DOMAIN doneGet)
  /\ cached' = [t \in DOMAIN cached \cup ToCache |->
                  IF t \in ToCache THEN doneGet[t] ELSE cached[t]]
  /\ puts' = [t \in DOMAIN puts \ (DOMAIN donePut \cup PutsWithoutNodes) |->
                IF t \in PutsToStart THEN Start(puts[t], doneGet[t]) ELSE puts[t]]
  /\ inflight' = inflight \cup
       UNION {StartRequests(puts[t].owner, doneGet[t]) :
                t \in PutsToStart \ PutsWithoutNodes}
  /\ donePut' = DonePuts
  /\ phase' = "maintain"
  /\ UNCHANGED <<getSenders, putSenders, callState, got, result, doneGet,
                 newResponse, acked>>

\* periodic_node_maintenance, as far as lookups go: when the table is empty or
\* a refresh is due, populate() looks the node's own id up.
Maintain ==
  /\ phase = "maintain"
  /\ \/ UNCHANGED <<queries, inflight>>
     \/ Bootstrap # {} /\ \E t \in SelfTargets : JoinOrStart(t, "FindNode")
  /\ phase' = "message"
  /\ UNCHANGED <<puts, cached, getSenders, putSenders, callState,
                 got, result, doneGet, donePut, newResponse, acked>>

-----------------------------------------------------------------------------
(* handle_message and handle_response: at most one message per turn, and the
   socket passes on only the answer to a request that is in flight. *)

Unaffected == <<cached, getSenders, putSenders, callState, got, result,
                doneGet, donePut>>

\* Nothing arrived, or a request of another node, or an answer nobody waits for.
NoMessage ==
  /\ phase = "message"
  /\ phase' = "report"
  /\ UNCHANGED <<queries, puts, inflight, newResponse, acked, Unaffected>>

\* The ping this node sent to its own public address arrives (handle_request),
\* and the id it then takes, valid for that address, is looked up.
OwnPing ==
  /\ phase = "message"
  /\ \E t \in SelfTargets : JoinOrStart(t, "FindNode")
  /\ phase' = "report"
  /\ UNCHANGED <<puts, newResponse, acked, Unaffected>>

Answered(r) ==
  /\ phase = "message" /\ r \in inflight
  /\ inflight' = inflight \ {r}
  /\ phase' = "report"

\* mutant: any put answer counts for the put now under way at the target
OfPutAnyOwner(r, t) ==
  t \in DOMAIN puts /\ r.op \in {"put", "extra"} /\ PutReq[r.owner].target = t

\* Is r a request of the put under way at target t?  Requests of a put that
\* was overridden or is over belong to no one.
OfPut(r, t) == t \in DOMAIN puts /\ r \in puts[t].sent

OfQuery(r) == r.op \in {"query", "ping"} /\ r.owner \in DOMAIN queries

\* A read-only node: the answer is only counted as invalid.
ReadOnlyAnswer(r) ==
  /\ Answered(r)
  /\ queries' = IF OfQuery(r) /\ r.op = "query"
                THEN [queries EXCEPT ![r.owner].recorded = @ + 1] ELSE queries
  /\ UNCHANGED <<puts, newResponse, acked, Unaffected>>

PutAck(r) ==
  /\ Answered(r)
  /\ \E t \in Targets :
       /\ OfPut(r, t)
       /\ puts' = [puts EXCEPT ![t] = Success(@)]
  /\ acked' = acked \cup {<<r.owner, r.to>>}
  /\ UNCHANGED <<queries, newResponse, Unaffected>>

PutRejected(r) ==
  /\ Answered(r)
  /\ \E t \in Targets, code \in Codes :
       /\ OfPut(r, t)
       /\ puts' = [puts EXCEPT ![t] = AddError(@, code)]
  /\ UNCHANGED <<queries, newResponse, acked, Unaffected>>

\* Another kind of answer to a put request, or the answer to a request whose
\* put is gone, changes nothing.
AnswerIgnored(r) ==
  /\ Answered(r) /\ ~ OfQuery(r)
  /\ UNCHANGED <<queries, puts, newResponse, acked, Unaffected>>

\* What an answer to a lookup may bring: "bare" is a ping answer or an error,
\* "nodes" a find_node answer, "token" one with a token and no usable value
\* (NoValues, NoMoreRecentValue, a value that fails validation).
Bodies == {"bare", "nodes", "token"} \cup Values

\* mutant: the answer to the ping is counted like the one to the query
HearCountingPings(q, r, body, nodes) ==
  [q EXCEPT !.closest    = ClosestAdd(@, Claimed(nodes)),
            !.responders = IF body \in {"bare", "nodes"} THEN @ ELSE @ \cup {r.to},
            !.responses  = IF body \in Values THEN Append(@, body) ELSE @,
            !.recorded   = IF q.kind = "GetValue" THEN @ + 1 ELSE @]

Hear(q, r, body, nodes) ==
  [q EXCEPT !.closest    = ClosestAdd(@, Claimed(nodes)),
            !.responders = IF body \in {"bare", "nodes"} THEN @ ELSE @ \cup {r.to},
            !.responses  = IF body \in Values THEN Append(@, body) ELSE @,
            !.recorded   = IF r.op = "query" /\ q.kind = "GetValue" THEN @ + 1 ELSE @]

QueryAnswer(r) ==
  /\ Answered(r) /\ OfQuery(r)
  /\ \E body \in Bodies : \E nodes \in (IF body = "bare" THEN {{}} ELSE SUBSET Nodes) :
       /\ queries' = [queries EXCEPT ![r.owner] = Hear(@, r, body, nodes)]
       /\ newResponse' = IF body \in Values THEN {<<r.owner, body>>} ELSE {}
  /\ UNCHANGED <<puts, acked, Unaffected>>

-----------------------------------------------------------------------------
(* The rest of the loop of run(): the report of the tick goes to the callers. *)

Served(c) == \E t \in DOMAIN doneGet : c \in getSenders[t]

\* mutant: the result reaches a caller only when it is alone
SettledIfAlone(c) == \E t \in DOMAIN donePut : putSenders[t] = {c}

Settled(c) == \E t \in DOMAIN donePut : c \in putSenders[t]

Live(c) == {v \in Values : <<GetReq[c].target, v>> \in newResponse
                              /\ c \in getSenders[GetReq[c].target]
                              /\ Accepts(GetReq[c].sender, v)}

Report ==
  /\ phase = "report"
  /\ got' = [c \in GetCalls |->
               IF Live(c) = {} THEN got[c] ELSE Append(got[c], CHOOSE v \in Live(c) : TRUE)]
  /\ getSenders' = [t \in Targets |-> IF t \in DOMAIN doneGet THEN {} ELSE getSenders[t]]
  /\ putSenders' = [t \in Targets |-> IF t \in DOMAIN donePut THEN {} ELSE putSenders[t]]
  /\ callState' = [c \in Calls |->
       IF Served(c) \/ Settled(c) THEN "answered" ELSE callState[c]]
  /\ result' = [c \in PutCalls |->
       IF Settled(c) THEN donePut[PutReq[c].target] ELSE result[c]]
  /\ doneGet' = Empty /\ donePut' = Empty /\ newResponse' = {}
  /\ phase' = "recv"
  /\ UNCHANGED <<queries, puts, cached, inflight, acked>>

-----------------------------------------------------------------------------
(* Time *)

\* A request times out: InflightRequests::contains and ::remove both treat it
\* as gone from then on.
Expire(r) ==
  /\ r \in inflight
  /\ inflight' = inflight \ {r}
  /\ UNCHANGED <<phase, queries, puts, cached, getSenders, putSenders, callState, got,
                 result, doneGet, donePut, newResponse, acked>>

\* More than TOKEN_ROTATE_INTERVAL passes, much longer than any lookup takes:
\* no cached node is fresh any more.
CacheAges ==
  /\ phase = "recv" /\ DOMAIN queries = {} /\ inflight = {}
  /\ cached' = [t \in DOMAIN cached |-> {[e EXCEPT !.fresh = FALSE] : e \in cached[t]}]
  /\ UNCHANGED <<phase, queries, puts, inflight, getSenders, putSenders, callState, got,
                 result, doneGet, donePut, newResponse, acked>>

Recv ==
  \/ RecvNothing
  \/ \E c \in GetCalls : RecvGet(c)
  \/ \E c \in PutCalls :
       RecvPutRefused(c) \/ RecvPutJoin(c) \/ RecvPutFromCache(c) \/ RecvPutWithLookup(c)

HandleMessage ==
  \/ NoMessage
  \/ OwnPing
  \/ \E r \in inflight :
       ReadOnlyAnswer(r) \/ PutAck(r) \/ PutRejected(r) \/ AnswerIgnored(r) \/ QueryAnswer(r)

Loop == Recv \/ TickPut \/ TickGet \/ Cleanup \/ Maintain \/ HandleMessage \/ Report

Next == Loop \/ (\E r \in Requests : Expire(r)) \/ CacheAges

Spec == Init /\ [][Next]_vars

\* The actor thread never stops looping, and time passes: every request is
\* answered or times out.  Nothing makes a remote node answer.
Fairness == WF_vars(Loop) /\ \A r \in Requests : WF_vars(Expire(r))

FairSpec == Spec /\ Fairness

-----------------------------------------------------------------------------
(* Properties *)

\* The maps of Rpc and of run() hold what their Rust types say; in particular a
\* put is reported only with a final result, never as pending.
TypeOK ==
  /\ phase \in Phases
  /\ IsMap(queries, Targets, Queries)
  /\ IsMap(puts, Targets, PutQueries)
  /\ IsMap(cached, Targets, SUBSET Entries)
  /\ inflight \subseteq Requests
  /\ getSenders \in [Targets -> SUBSET GetCalls]
  /\ putSenders \in [Targets -> SUBSET PutCalls]
  /\ callState \in [Calls -> {"idle", "waiting", "answered"}]
  /\ DOMAIN got = GetCalls      \* what it holds is EachValueDeliveredOnce
  /\ result \in [PutCalls -> Results]
  /\ IsMap(doneGet, Targets, SUBSET Entries)
  /\ IsMap(donePut, Targets, Results)
  /\ newResponse \subseteq Targets \X Values
  /\ acked \subseteq PutCalls \X Nodes

\* No caller is forgotten: a call that waits is registered as a sender of its
\* target, and a query of that target is under way or its end is about to be
\* reported (the actor drops a query only together with its senders).
NoForgottenCaller ==
  /\ \A c \in GetCalls : callState[c] = "waiting" =>
       LET t == GetReq[c].target
       IN  c \in getSenders[t] /\ t \in DOMAIN queries \cup DOMAIN doneGet
  /\ \A c \in PutCalls : callState[c] = "waiting" =>
       LET t == PutReq[c].target
       IN  c \in putSenders[t] /\ t \in DOMAIN puts \cup DOMAIN donePut

\* An answer always finds its owner: a lookup is never removed while one of its
\* requests is in flight, so no later lookup of the target can be handed an
\* answer meant for an earlier one.
RequestsOwned ==
  \A r \in inflight : r.op \in {"query", "ping"} =>
    r.owner \in DOMAIN queries /\ r.to \in queries[r.owner].visited

\* A lookup that is reported done has nothing in flight, and every candidate it
\* did not visit has at least K closer candidates ("until no closer nodes that
\* aren't already queried are found").
LookupExhausted ==
  phase = "cleanup" => \A t \in DOMAIN doneGet :
    /\ ~ AnyInflight(t, inflight)
    /\ \A e \in queries[t].closest : e.node \in queries[t].visited
         \/ Cardinality({f \in queries[t].closest :
               Distance[t][f.node] < Distance[t][e.node]}) >= MaxBucketSizeK

\* The storage nodes a value lookup reports all answered it with a token, so a
\* put that waited for it sends a request to each of them.
StorageNodesHaveTokens ==
  phase = "cleanup" => \A t \in DOMAIN doneGet : queries[t].kind # "FindNode" =>
    \A e \in doneGet[t] : e.token /\ e.node \in queries[t].visited

\* Between two turns every waiting get call has received each value its lookup
\* saw exactly once and in order: those seen before it joined by replay, the
\* others as they came in.
EachValueDeliveredOnce ==
  phase = "recv" => \A t \in Targets : \A c \in getSenders[t] :
    got[c] = Taken(GetReq[c].sender, queries[t].responses)

\* GetMutableOutcome: a node counts once however often it answers, so
\* responded() never exceeds queried and timed_out() never saturates.
OutcomeCountsNodes ==
  \A t \in DOMAIN queries : queries[t].kind = "GetValue" =>
    queries[t].recorded
      + Cardinality({r \in inflight : r.owner = t /\ r.op = "query"})
      <= Cardinality(queries[t].visited)

\* A put that has sent nothing yet has a value lookup to wait for.
UnstartedPutHasLookup ==
  \A t \in DOMAIN puts : ~ Started(puts[t]) =>
    t \in DOMAIN queries /\ queries[t].kind # "FindNode"

\* PutQuery::errors: the first error is the most frequent one, each code is
\* listed once, and no node is counted both as a success and as an error.
MostCommonErrorFirst ==
  \A t \in DOMAIN puts :
    LET e == puts[t].errors
    IN  /\ \A i \in DOMAIN e : e[i].count >= 1 /\ e[i].count <= e[1].count
        /\ \A i, j \in DOMAIN e : e[i].code = e[j].code => i = j
        /\ Len(e) + puts[t].storedAt <= Cardinality(puts[t].sent)

\* A call told Ok had its item acknowledged by some node, or, for a mutable
\* item, one at least as recent that took the query over; unless its target was
\* also announced, which replaces the put (the caller gets the other's result).
OkMeansStored ==
  \A c \in PutCalls : result[c] = "Ok" /\ PutReq[c].kind # "Announce" =>
    \/ \E a \in acked : LET r == PutReq[a[1]] IN
         /\ r.kind = PutReq[c].kind /\ r.target = PutReq[c].target
         /\ r.sig = PutReq[c].sig \/ (r.kind = "Mutable" /\ r.seq >= PutReq[c].seq)
    \/ \E d \in PutCalls : /\ PutReq[d].kind = "Announce" /\ callState[d] # "idle"
                            /\ PutReq[d].target = PutReq[c].target

\* A mutable put is never reported as stored when most of the nodes it was sent
\* to answered that it lost against a newer item.
MajorityConflictWins ==
  phase \in {"get", "cleanup"} => \A t \in DOMAIN donePut :
    (PutReq[puts[t].owner].kind = "Mutable" /\ donePut[t] = "Ok") =>
      ~ \E i \in DOMAIN puts[t].errors :
          /\ puts[t].errors[i].code \in {301, 302}
          /\ 2 * puts[t].errors[i].count > Cardinality(puts[t].sent)

\* What the nodes answered decides what a put reports: PutQuery::errors is kept
\* sorted while answers come in, and a conflict that most nodes saw is never
\* hidden by a success.
ConflictsSurface == MostCommonErrorFirst /\ MajorityConflictWins

\* A put gets to its storage nodes: while it has sent nothing there is a value
\* lookup it waits for, and that lookup hands over only nodes it can send to.
PutsReachStorage == UnstartedPutHasLookup /\ StorageNodesHaveTokens

\* A mutable put under way gives way only to one that is not older and that
\* names its seq as cas (no silent lost update inside the node).
NoSilentOverride ==
  [][\A t \in DOMAIN puts \cap DOMAIN puts' :
       LET old == PutReq[puts[t].owner]
           new == PutReq[puts'[t].owner]
       IN  (old.kind = "Mutable" /\ new.kind = "Mutable" /\ old.sig # new.sig) =>
              new.cas = {old.seq} /\ new.seq >= old.seq]_vars

\* PutOutcome::stored_at: "Number of DHT nodes that acknowledged storing the
\* item.", unless an extra node is also one of the closest: it is sent the item
\* twice and counted twice.
StoredAtCountsNodes ==
  \A t \in DOMAIN puts :
    (\A r, s \in puts[t].sent : r.to = s.to => r = s) =>
      puts[t].storedAt = Cardinality({n \in Nodes : <<puts[t].owner, n>> \in acked})

\* Every lookup ends and its callers are told: whatever answers or times out,
\* the set of visited nodes only grows.
GetsAnswered ==
  \A c \in GetCalls : callState[c] = "waiting" ~> callState[c] = "answered"

\* Every put that was accepted ends with a result.
PutsAnswered ==
  \A c \in PutCalls : callState[c] = "waiting" ~> callState[c] = "answered"

\* Nobody blocks in recv() for ever (Dht's callers wait without a timeout).
CallsAnswered == GetsAnswered /\ PutsAnswered

=============================================================================
