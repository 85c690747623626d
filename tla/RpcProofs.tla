----------------------------- MODULE RpcProofs -----------------------------
(***************************************************************************)
(* Proofs about the query engine, for every set of nodes, targets and      *)
(* calls.  RpcInv: Rpc is well typed, no caller is forgotten, and no       *)
(* answer outlives the lookup it belongs to.                               *)
(*                                                                         *)
(* LookupInv, on top of it, is about what lookups find: they run to the    *)
(* end, count every node once and hand every value to every caller once.   *)
(* Taken is a recursive function: that one more response means one more    *)
(* step of it (TakenOneByOne) is proved by least counterexample.           *)
(*                                                                         *)
(* Puts: AddErrorIs says that PutQuery::error counts one more answer and   *)
(* keeps the list sorted.  PutFacts is the account of one put: every       *)
(* answer takes one of its requests out of the socket and is counted once, *)
(* and a node is on record as storing the item only for a request that is  *)
(* no longer in flight.  It survives what other puts do because no two     *)
(* puts have the same owner (PutInv).  StoredInv adds who waits for whom:  *)
(* the item under way covers those of all callers it has taken over.       *)
(* ReachInv adds where tokens come from.                                   *)
(***************************************************************************)
EXTENDS Rpc, FiniteSetTheorems, SequenceTheorems, NaturalsInduction, WellFoundedInduction, TLAPS

-----------------------------------------------------------------------------
(* What the operators return *)

\* Node::new and Node::new_with_token make entries.
LEMMA EntryTypes ==
  ASSUME NEW S \in SUBSET Nodes
  PROVE  Claimed(S) \subseteq Entries /\ Responding(S) \subseteq Entries
  BY DEF Claimed, Responding, Entries

\* ClosestNodes::add keeps a list of entries.
LEMMA ClosestAddType ==
  ASSUME NEW es \in SUBSET Entries, NEW new \in SUBSET Entries
  PROVE  ClosestAdd(es, new) \in SUBSET Entries
  BY DEF ClosestAdd

\* Taking the K closest gives some of the entries, at known addresses.
LEMMA TakeKType ==
  ASSUME NEW t, NEW es \in SUBSET Entries
  PROVE  TakeK(t, es) \in SUBSET es /\ NodesOf(es) \in SUBSET Nodes
  BY DEF TakeK, NodesOf, Entries

\* visit_closest sends to addresses of nodes.
LEMMA ToVisitType ==
  ASSUME NEW t, NEW q \in Queries
  PROVE  ToVisit(t, q) \in SUBSET Nodes
<1>1. q.closest \in SUBSET Entries
  BY DEF Queries
<1>2. TakeK(t, q.closest) \in SUBSET Entries
  BY <1>1, TakeKType
<1> QED
  BY <1>2, TakeKType DEF ToVisit

\* visit_closest extends the visited set and nothing else.
LEMMA VisitClosestType ==
  ASSUME NEW t, NEW q \in Queries
  PROVE  /\ VisitClosest(t, q) \in Queries
         /\ VisitClosest(t, q).visited = q.visited \cup ToVisit(t, q)
         /\ VisitClosest(t, q).kind = q.kind
  BY ToVisitType DEF VisitClosest, Queries

\* IterativeQuery::new makes a query.
LEMMA NewQueryType ==
  ASSUME NEW kind \in QueryKinds, NEW es \in SUBSET Entries, NEW S \in SUBSET Nodes
  PROVE  NewQuery(kind, es, S) \in Queries
<1>1. <<>> \in Seq(Values)
  OBVIOUS
<1> QED
  BY <1>1 DEF NewQuery, Queries

\* tick_get_queries reports sets of entries.
LEMMA ClosestOfType ==
  ASSUME NEW t, NEW q \in Queries
  PROVE  ClosestOf(t, q) \subseteq SUBSET Entries
<1>1. q.closest \in SUBSET Entries /\ q.responders \in SUBSET Nodes
  BY DEF Queries
<1>2. TakeK(t, q.closest) \in SUBSET Entries
  BY <1>1, TakeKType
<1>3. TakeUntilSecure(t, Responding(q.responders)) \subseteq SUBSET Entries
  BY <1>1, EntryTypes DEF TakeUntilSecure
<1> QED
  BY <1>2, <1>3 DEF ClosestOf

\* An answer leaves a query well formed and visits nothing.
LEMMA HearType ==
  ASSUME NEW q \in Queries, NEW r, r.to \in Nodes,
         NEW body \in Bodies, NEW nodes \in SUBSET Nodes
  PROVE  /\ Hear(q, r, body, nodes) \in Queries
         /\ Hear(q, r, body, nodes).visited = q.visited
<1>1. ClosestAdd(q.closest, Claimed(nodes)) \in SUBSET Entries
  BY EntryTypes, ClosestAddType DEF Queries
<1>2. body \in Values => Append(q.responses, body) \in Seq(Values)
  BY DEF Queries
<1>3. q.responders \cup {r.to} \in SUBSET Nodes
  BY DEF Queries
<1>4. q.recorded + 1 \in Nat
  BY DEF Queries
<1> QED
  BY <1>1, <1>2, <1>3, <1>4 DEF Hear, Queries

\* PutQuery::start sends put requests to nodes, and remembers exactly those.
LEMMA StartType ==
  ASSUME NEW p \in PutQueries, NEW closest \in SUBSET Entries
  PROVE  /\ Start(p, closest) \in PutQueries
         /\ Start(p, closest).sent = StartRequests(p.owner, closest)
         /\ \A r \in StartRequests(p.owner, closest) :
              r \in Requests /\ r.op \in {"put", "extra"}
<1>1. p.owner \in PutCalls /\ ExtraNodes[p.owner] \in SUBSET Nodes
  BY PutReqAssumption DEF PutQueries, PutReqAssumption
<1>2. NodesOf({e \in closest : e.token}) \in SUBSET Nodes
  BY TakeKType
<1>3. StartRequests(p.owner, closest)
        \in SUBSET [owner : PutCalls, to : Nodes, op : {"put", "extra"}]
  BY <1>1, <1>2 DEF StartRequests
<1>4. Start(p, closest) \in PutQueries
  BY <1>3 DEF Start, PutQueries
<1>5. Start(p, closest).sent = StartRequests(p.owner, closest)
  BY DEF Start, PutQueries
<1> QED
  BY <1>3, <1>4, <1>5 DEF Requests

\* PutQuery::new makes a put query of its call.
LEMMA NewPutType ==
  ASSUME NEW c \in PutCalls
  PROVE  NewPut(c) \in PutQueries /\ NewPut(c).owner = c
<1>1. <<>> \in Seq([code : Codes, count : Nat])
  OBVIOUS
<1> QED
  BY <1>1 DEF NewPut, PutQueries

\* PutQuery::success keeps a put query well formed.
LEMMA SuccessType ==
  ASSUME NEW p \in PutQueries
  PROVE  Success(p) \in PutQueries
  BY DEF Success, PutQueries

\* The elements of a sequence over E are in E.
LEMMA SeqElement ==
  ASSUME NEW E, NEW s \in Seq(E)
  PROVE  \A k \in 1..Len(s) : s[k] \in E
  OBVIOUS

\* Moving a counted error forward keeps the list of errors well formed.
LEMMA CountAndMoveType ==
  ASSUME NEW errs \in Seq([code : Codes, count : Nat]), NEW pos \in DOMAIN errs
  PROVE  CountAndMove(errs, pos) \in Seq([code : Codes, count : Nat])
<1> DEFINE E == [code : Codes, count : Nat]
           counted == [errs[pos] EXCEPT !.count = @ + 1]
           first   == CHOOSE i \in 1..pos :
                        /\ \A k \in i..(pos - 1) : errs[k].count < counted.count
                        /\ i = 1 \/ errs[i - 1].count >= counted.count
           moved   == [k \in DOMAIN errs |->
                         IF k = first THEN counted
                         ELSE IF k \in 2..pos /\ k > first THEN errs[k - 1] ELSE errs[k]]
<1>1. Len(errs) \in Nat /\ DOMAIN errs = 1..Len(errs) /\ pos \in 1..Len(errs)
  OBVIOUS
<1>2. \A k \in 1..Len(errs) : errs[k] \in E
  BY SeqElement
<1>3. counted \in E
  <2>1. errs[pos] \in E
    BY <1>1, <1>2
  <2> QED
    BY <2>1
<1> HIDE DEF counted, first
<1>4. moved \in [1..Len(errs) -> E]
  <2> SUFFICES ASSUME NEW k \in 1..Len(errs)
               PROVE  (IF k = first THEN counted
                       ELSE IF k \in 2..pos /\ k > first THEN errs[k - 1] ELSE errs[k]) \in E
    BY <1>1
  <2>1. k \in 2..pos => k - 1 \in 1..Len(errs)
    BY <1>1
  <2> QED
    BY <1>2, <1>3, <2>1
<1>5. moved \in Seq(E)
  BY <1>1, <1>4
<1> QED
  BY <1>5 DEF CountAndMove, counted, first

\* PutQuery::error keeps a put query well formed.
LEMMA AddErrorType ==
  ASSUME NEW p \in PutQueries, NEW code \in Codes
  PROVE  AddError(p, code) \in PutQueries
<1> DEFINE E == [code : Codes, count : Nat]
           at == {i \in DOMAIN p.errors : p.errors[i].code = code}
<1>1. p.errors \in Seq(E)
  BY DEF PutQueries
<1>2. Append(p.errors, [code |-> code, count |-> 1]) \in Seq(E)
  BY <1>1
<1>3. at # {} => (CHOOSE i \in at : TRUE) \in DOMAIN p.errors
  OBVIOUS
<1>4. at # {} => CountAndMove(p.errors, CHOOSE i \in at : TRUE) \in Seq(E)
  BY <1>1, <1>3, CountAndMoveType
<1> QED
  BY <1>2, <1>4 DEF AddError, PutQueries

\* poll_completion gives a final result or says that the put is pending.
LEMMA PollCompletionType ==
  ASSUME NEW p \in PutQueries, NEW S
  PROVE  PollCompletion(p, S) \in Results \cup {"Pending"}
  BY DEF PollCompletion, CommonError, NameOf, Results

\* HashMap::insert keeps a map.
LEMMA PutIsMap ==
  ASSUME NEW D, NEW R, NEW m, IsMap(m, D, R), NEW k \in D, NEW v \in R
  PROVE  /\ IsMap(Put(m, k, v), D, R)
         /\ DOMAIN Put(m, k, v) = DOMAIN m \cup {k}
         /\ Put(m, k, v)[k] = v
         /\ \A x \in DOMAIN m : x # k => Put(m, k, v)[x] = m[x]
  BY DEF IsMap, Put

\* HashMap::remove keeps a map.
LEMMA WithoutIsMap ==
  ASSUME NEW D, NEW R, NEW m, IsMap(m, D, R), NEW ks
  PROVE  /\ IsMap(Without(m, ks), D, R)
         /\ DOMAIN Without(m, ks) = DOMAIN m \ ks
         /\ \A x \in DOMAIN m \ ks : Without(m, ks)[x] = m[x]
  BY DEF IsMap, Without

\* HashMap::new is a map of any type.
LEMMA EmptyIsMap ==
  ASSUME NEW D, NEW R
  PROVE  IsMap(Empty, D, R) /\ DOMAIN Empty = {}
  BY DEF IsMap, Empty

-----------------------------------------------------------------------------
(* The inductive invariant *)

\* What a turn of the loop has found so far: results exist only between the
\* step that computes them and the report, and until cleanup_done_queries the
\* queries they are about are still there, with nothing in flight.
PhaseInv ==
  /\ phase \in {"recv", "put", "get"} => DOMAIN doneGet = {}
  /\ phase \in {"recv", "put"} => DOMAIN donePut = {}
  /\ phase \in {"get", "cleanup"} => DOMAIN donePut \subseteq DOMAIN puts
  /\ phase = "cleanup" => \A t \in DOMAIN doneGet :
       t \in DOMAIN queries /\ ~ AnyInflight(t, inflight)

\* Senders are registered under the target of their request.
SendersInv ==
  /\ \A t \in Targets : \A c \in getSenders[t] : GetReq[c].target = t
  /\ \A t \in Targets : \A c \in putSenders[t] : PutReq[c].target = t

RpcInv == TypeOK /\ PhaseInv /\ SendersInv /\ NoForgottenCaller /\ RequestsOwned

\* The requests of the API calls name targets.
LEMMA RequestTargets ==
  /\ \A c \in GetCalls : GetReq[c].target \in Targets /\ GetReq[c].kind \in QueryKinds
  /\ \A c \in PutCalls : PutReq[c].target \in Targets
  BY RpcAssumption, PutReqAssumption
  DEF RpcAssumption, PutReqAssumption, GetRequests, PutRequests

\* Rpc::new and an actor without senders satisfy RpcInv.
LEMMA RpcInvInit == Init => RpcInv
<1> SUFFICES ASSUME Init PROVE RpcInv
  OBVIOUS
<1>1. /\ IsMap(queries, Targets, Queries) /\ IsMap(puts, Targets, PutQueries)
      /\ IsMap(cached, Targets, SUBSET Entries) /\ IsMap(doneGet, Targets, SUBSET Entries)
      /\ IsMap(donePut, Targets, Results)
      /\ DOMAIN doneGet = {} /\ DOMAIN donePut = {}
  BY EmptyIsMap DEF Init
<1>2. TypeOK
  <2>1. DOMAIN got = GetCalls
    BY DEF Init
  <2> QED
    BY <1>1, <2>1 DEF Init, TypeOK, Phases, Results
<1>3. PhaseInv /\ SendersInv /\ RequestsOwned
  BY <1>1 DEF Init, PhaseInv, SendersInv, RequestsOwned
<1>4. NoForgottenCaller
  BY DEF Init, NoForgottenCaller, Calls
<1> QED
  BY <1>2, <1>3, <1>4 DEF RpcInv

\* Rpc::get joins a lookup or starts one that owns all the requests it sends.
LEMMA JoinOrStartKeeps ==
  ASSUME RpcInv, NEW t \in Targets, NEW kind \in QueryKinds, JoinOrStart(t, kind)
  PROVE  /\ IsMap(queries', Targets, Queries)
         /\ DOMAIN queries' = DOMAIN queries \cup {t}
         /\ inflight' \subseteq Requests
         /\ RequestsOwned'
<1>1. CASE t \in DOMAIN queries /\ UNCHANGED <<queries, inflight>>
  BY <1>1 DEF RpcInv, TypeOK, RequestsOwned
<1>2. ASSUME t \notin DOMAIN queries, NEW seed \in Seeds, NEW recent \in SUBSET seed,
             NEW q, q = VisitClosest(t, NewQuery(kind, Candidates(t, seed, recent),
                                                 BootstrapVisits(seed))),
             queries' = Put(queries, t, q),
             inflight' = inflight \cup QueryRequests(t, q.visited)
      PROVE  /\ IsMap(queries', Targets, Queries)
             /\ DOMAIN queries' = DOMAIN queries \cup {t}
             /\ inflight' \subseteq Requests
             /\ RequestsOwned'
  <2>1. seed \in SUBSET Nodes /\ BootstrapVisits(seed) \in SUBSET Nodes
    BY RpcAssumption DEF RpcAssumption, BootstrapVisits
  <2>2. Candidates(t, seed, recent) \in SUBSET Entries
    <3>1. Claimed(recent) \cup [node : seed \ recent, token : {FALSE}, fresh : {FALSE}]
            \in SUBSET Entries
      BY <2>1 DEF Claimed, Entries
    <3>2. (IF t \in DOMAIN cached THEN cached[t] ELSE {}) \in SUBSET Entries
      BY DEF RpcInv, TypeOK, IsMap
    <3> QED
      BY <3>1, <3>2, ClosestAddType DEF Candidates
  <2>3. q \in Queries
    BY <1>2, <2>1, <2>2, NewQueryType, VisitClosestType
  <2>4. q.visited \in SUBSET Nodes
    BY <2>3 DEF Queries
  <2>5. \A r \in QueryRequests(t, q.visited) :
          r \in Requests /\ r.owner = t /\ r.to \in q.visited
    BY <2>4 DEF QueryRequests, Requests
  <2>6. /\ IsMap(queries', Targets, Queries)
        /\ DOMAIN queries' = DOMAIN queries \cup {t}
        /\ queries'[t] = q
        /\ \A x \in DOMAIN queries : x # t => queries'[x] = queries[x]
    <3>1. IsMap(queries, Targets, Queries)
      BY DEF RpcInv, TypeOK
    <3> QED
      BY <1>2, <2>3, <3>1, PutIsMap
  <2>7. RequestsOwned'
    BY <1>2, <2>5, <2>6 DEF RpcInv, RequestsOwned
  <2>8. inflight \subseteq Requests
    BY DEF RpcInv, TypeOK
  <2> QED
    BY <1>2, <2>5, <2>6, <2>7, <2>8
<1> QED
  BY <1>1, <1>2 DEF JoinOrStart

-----------------------------------------------------------------------------
(* The actor receives a message. *)

\* A turn without a message changes nothing.
LEMMA RecvNothingKeepsInv ==
  ASSUME RpcInv, RecvNothing
  PROVE  RpcInv'
<1>1. phase = "recv" /\ phase' = "put"
      /\ UNCHANGED <<queries, puts, cached, inflight, getSenders, putSenders, callState,
                     got, result, doneGet, donePut, newResponse, acked>>
  BY DEF RecvNothing
<1>2. TypeOK'
  BY <1>1 DEF RpcInv, TypeOK, Phases
<1>3. PhaseInv'
  BY <1>1 DEF RpcInv, PhaseInv
<1>4. SendersInv' /\ NoForgottenCaller' /\ RequestsOwned'
  BY <1>1 DEF RpcInv, SendersInv, NoForgottenCaller, RequestsOwned
<1> QED
  BY <1>2, <1>3, <1>4 DEF RpcInv

\* A get call is registered with the lookup it joins or starts.
LEMMA RecvGetKeepsInv ==
  ASSUME RpcInv, NEW c \in GetCalls, RecvGet(c)
  PROVE  RpcInv'
<1> DEFINE t == GetReq[c].target
<1>1. /\ phase = "recv" /\ phase' = "put" /\ JoinOrStart(t, GetReq[c].kind)
      /\ got' = [got EXCEPT ![c] = Replay(c)]
      /\ getSenders' = [getSenders EXCEPT ![t] = @ \cup {c}]
      /\ callState' = [callState EXCEPT ![c] = "waiting"]
      /\ UNCHANGED <<puts, cached, putSenders, result, doneGet, donePut, newResponse, acked>>
  BY DEF RecvGet, MayCall
<1>2. t \in Targets /\ GetReq[c].kind \in QueryKinds
  BY RequestTargets
<1>3. /\ IsMap(queries', Targets, Queries) /\ DOMAIN queries' = DOMAIN queries \cup {t}
      /\ inflight' \subseteq Requests /\ RequestsOwned'
  BY <1>1, <1>2, JoinOrStartKeeps
<1>4. /\ getSenders \in [Targets -> SUBSET GetCalls]
      /\ callState \in [Calls -> {"idle", "waiting", "answered"}]
      /\ DOMAIN got = GetCalls
  BY DEF RpcInv, TypeOK
<1>5. TypeOK'
  <2>1. DOMAIN got' = GetCalls
    BY <1>1, <1>4
  <2>2. /\ getSenders' \in [Targets -> SUBSET GetCalls]
        /\ callState' \in [Calls -> {"idle", "waiting", "answered"}]
    BY <1>1, <1>2, <1>4
  <2> QED
    BY <1>1, <1>3, <2>1, <2>2 DEF RpcInv, TypeOK, Phases
<1>6. PhaseInv'
  BY <1>1 DEF RpcInv, PhaseInv
<1>7. SendersInv'
  BY <1>1, <1>2, <1>4 DEF RpcInv, SendersInv
<1>8. NoForgottenCaller'
  <2>1. ASSUME NEW d \in GetCalls, callState'[d] = "waiting"
        PROVE  /\ d \in getSenders'[GetReq[d].target]
               /\ GetReq[d].target \in DOMAIN queries' \cup DOMAIN doneGet'
    <3>1. CASE d = c
      BY <1>1, <1>2, <1>3, <1>4, <3>1
    <3>2. CASE d # c
      <4>1. callState[d] = "waiting"
        BY <1>1, <1>4, <2>1, <3>2 DEF Calls
      <4>2. d \in getSenders[GetReq[d].target]
            /\ GetReq[d].target \in DOMAIN queries \cup DOMAIN doneGet
        BY <4>1 DEF RpcInv, NoForgottenCaller
      <4> QED
        BY <1>1, <1>2, <1>3, <1>4, <4>2, RequestTargets
    <3> QED
      BY <3>1, <3>2
  <2>2. ASSUME NEW d \in PutCalls, callState'[d] = "waiting"
        PROVE  /\ d \in putSenders'[PutReq[d].target]
               /\ PutReq[d].target \in DOMAIN puts' \cup DOMAIN donePut'
    <3>1. d # c /\ d \in Calls
      BY RpcAssumption DEF RpcAssumption, Calls
    <3>2. callState[d] = "waiting"
      BY <1>1, <1>4, <2>2, <3>1
    <3> QED
      BY <1>1, <3>2 DEF RpcInv, NoForgottenCaller
  <2> QED
    BY <2>1, <2>2 DEF NoForgottenCaller
<1> QED
  BY <1>3, <1>5, <1>6, <1>7, <1>8 DEF RpcInv

\* A refused put is answered at once and registered nowhere.
LEMMA RecvPutRefusedKeepsInv ==
  ASSUME RpcInv, NEW c \in PutCalls, RecvPutRefused(c)
  PROVE  RpcInv'
<1>1. /\ phase = "recv" /\ phase' = "put"
      /\ result' = [result EXCEPT ![c] = Verdict(c)]
      /\ callState' = [callState EXCEPT ![c] = "answered"]
      /\ Verdict(c) \in Results
      /\ UNCHANGED <<queries, puts, cached, inflight, getSenders, putSenders,
                     got, doneGet, donePut, newResponse, acked>>
  BY DEF RecvPutRefused, MayCall, Results
<1>2. TypeOK'
  BY <1>1 DEF RpcInv, TypeOK, Phases
<1>3. PhaseInv'
  BY <1>1 DEF RpcInv, PhaseInv
<1>4. SendersInv' /\ RequestsOwned'
  BY <1>1 DEF RpcInv, SendersInv, RequestsOwned
<1>5. NoForgottenCaller'
  <2>1. \A d \in Calls : callState'[d] = "waiting" => callState[d] = "waiting"
    BY <1>1 DEF RpcInv, TypeOK
  <2> QED
    BY <1>1, <2>1 DEF RpcInv, NoForgottenCaller, Calls
<1> QED
  BY <1>2, <1>3, <1>4, <1>5 DEF RpcInv

\* A put that is taken: it waits under its target, where a put is under way.
LEMMA AwaitPutKeepsInv ==
  ASSUME RpcInv, NEW c \in PutCalls, phase = "recv", AwaitPut(c),
         IsMap(queries', Targets, Queries), DOMAIN queries \subseteq DOMAIN queries',
         IsMap(puts', Targets, PutQueries),
         DOMAIN puts \subseteq DOMAIN puts', PutReq[c].target \in DOMAIN puts',
         inflight' \subseteq Requests, RequestsOwned'
  PROVE  RpcInv'
<1> DEFINE t == PutReq[c].target
<1>1. /\ phase' = "put"
      /\ putSenders' = [putSenders EXCEPT ![t] = @ \cup {c}]
      /\ callState' = [callState EXCEPT ![c] = "waiting"]
      /\ UNCHANGED <<cached, getSenders, got, result, doneGet, donePut, newResponse, acked>>
  BY DEF AwaitPut
<1>2. t \in Targets
  BY RequestTargets
<1>3. /\ putSenders \in [Targets -> SUBSET PutCalls]
      /\ callState \in [Calls -> {"idle", "waiting", "answered"}]
  BY DEF RpcInv, TypeOK
<1>4. TypeOK'
  <2>1. /\ putSenders' \in [Targets -> SUBSET PutCalls]
        /\ callState' \in [Calls -> {"idle", "waiting", "answered"}]
    BY <1>1, <1>2, <1>3
  <2> QED
    BY <1>1, <2>1 DEF RpcInv, TypeOK, Phases
<1>5. PhaseInv'
  BY <1>1 DEF RpcInv, PhaseInv
<1>6. SendersInv'
  BY <1>1, <1>2, <1>3 DEF RpcInv, SendersInv
<1>7. NoForgottenCaller'
  <2>1. ASSUME NEW d \in PutCalls, callState'[d] = "waiting"
        PROVE  /\ d \in putSenders'[PutReq[d].target]
               /\ PutReq[d].target \in DOMAIN puts' \cup DOMAIN donePut'
    <3>1. CASE d = c
      BY <1>1, <1>2, <1>3, <3>1
    <3>2. CASE d # c
      <4>1. callState[d] = "waiting"
        BY <1>1, <1>3, <2>1, <3>2 DEF Calls
      <4>2. d \in putSenders[PutReq[d].target]
            /\ PutReq[d].target \in DOMAIN puts \cup DOMAIN donePut
        BY <4>1 DEF RpcInv, NoForgottenCaller
      <4> QED
        BY <1>1, <1>2, <1>3, <4>2, RequestTargets
    <3> QED
      BY <3>1, <3>2
  <2>2. ASSUME NEW d \in GetCalls, callState'[d] = "waiting"
        PROVE  /\ d \in getSenders'[GetReq[d].target]
               /\ GetReq[d].target \in DOMAIN queries' \cup DOMAIN doneGet'
    <3>1. d # c /\ d \in Calls
      BY RpcAssumption DEF RpcAssumption, Calls
    <3>2. callState[d] = "waiting"
      BY <1>1, <1>3, <2>2, <3>1
    <3> QED
      BY <1>1, <3>2 DEF RpcInv, NoForgottenCaller
  <2> QED
    BY <2>1, <2>2 DEF NoForgottenCaller
<1> QED
  BY <1>4, <1>5, <1>6, <1>7 DEF RpcInv

\* A put of the same item is registered with the put under way.
LEMMA RecvPutJoinKeepsInv ==
  ASSUME RpcInv, NEW c \in PutCalls, RecvPutJoin(c)
  PROVE  RpcInv'
<1>1. /\ phase = "recv" /\ AwaitPut(c) /\ UNCHANGED <<queries, puts, inflight>>
      /\ PutReq[c].target \in DOMAIN puts
  BY DEF RecvPutJoin, MayCall, Conflicts
<1>2. /\ IsMap(queries', Targets, Queries) /\ IsMap(puts', Targets, PutQueries)
      /\ inflight' \subseteq Requests
  BY <1>1 DEF RpcInv, TypeOK
<1>3. RequestsOwned'
  BY <1>1 DEF RpcInv, RequestsOwned
<1> QED
  BY <1>1, <1>2, <1>3, AwaitPutKeepsInv

\* A put from cached nodes is registered and sends only put requests.
LEMMA RecvPutFromCacheKeepsInv ==
  ASSUME RpcInv, NEW c \in PutCalls, RecvPutFromCache(c)
  PROVE  RpcInv'
<1> DEFINE t == PutReq[c].target
           p == Start(NewPut(c), cached[t])
<1>1. /\ phase = "recv" /\ AwaitPut(c) /\ t \in DOMAIN cached
      /\ puts' = Put(puts, t, p) /\ inflight' = inflight \cup p.sent
      /\ queries' = queries
  BY DEF RecvPutFromCache, MayCall, CacheUsable
<1>2. t \in Targets
  BY RequestTargets
<1>3. cached[t] \in SUBSET Entries
  BY <1>1 DEF RpcInv, TypeOK, IsMap
<1>4. /\ p \in PutQueries
      /\ \A r \in p.sent : r \in Requests /\ r.op \in {"put", "extra"}
  BY <1>3, NewPutType, StartType
<1>5. IsMap(puts', Targets, PutQueries) /\ DOMAIN puts' = DOMAIN puts \cup {t}
  <2>1. IsMap(puts, Targets, PutQueries)
    BY DEF RpcInv, TypeOK
  <2> QED
    BY <1>1, <1>2, <1>4, <2>1, PutIsMap
<1>6. IsMap(queries', Targets, Queries) /\ inflight' \subseteq Requests
  BY <1>1, <1>4 DEF RpcInv, TypeOK
<1>7. RequestsOwned'
  BY <1>1, <1>4 DEF RpcInv, RequestsOwned
<1> QED
  BY <1>1, <1>5, <1>6, <1>7, AwaitPutKeepsInv

\* A put that needs a lookup is registered, and the lookup owns its requests.
LEMMA RecvPutWithLookupKeepsInv ==
  ASSUME RpcInv, NEW c \in PutCalls, RecvPutWithLookup(c)
  PROVE  RpcInv'
<1> DEFINE t == PutReq[c].target
<1>1. /\ phase = "recv" /\ AwaitPut(c) /\ JoinOrStart(t, "GetValue")
      /\ puts' = Put(puts, t, NewPut(c))
  BY DEF RecvPutWithLookup, MayCall
<1>2. t \in Targets /\ "GetValue" \in QueryKinds
  BY RequestTargets DEF QueryKinds
<1>3. /\ IsMap(queries', Targets, Queries) /\ DOMAIN queries' = DOMAIN queries \cup {t}
      /\ inflight' \subseteq Requests /\ RequestsOwned'
  BY <1>1, <1>2, JoinOrStartKeeps
<1>4. IsMap(puts', Targets, PutQueries) /\ DOMAIN puts' = DOMAIN puts \cup {t}
  <2>1. IsMap(puts, Targets, PutQueries)
    BY DEF RpcInv, TypeOK
  <2> QED
    BY <1>1, <1>2, <2>1, PutIsMap, NewPutType
<1> QED
  BY <1>1, <1>3, <1>4, AwaitPutKeepsInv

-----------------------------------------------------------------------------
(* Rpc::tick *)

\* tick_put_queries reports only puts that are under way.
LEMMA TickPutKeepsInv ==
  ASSUME RpcInv, TickPut
  PROVE  RpcInv'
<1> DEFINE done == {t \in DOMAIN puts : PollCompletion(puts[t], inflight) # "Pending"}
<1>1. /\ phase = "put" /\ phase' = "get"
      /\ donePut' = [t \in done |-> PollCompletion(puts[t], inflight)]
      /\ UNCHANGED <<queries, puts, cached, inflight, getSenders, putSenders, callState,
                     got, result, doneGet, newResponse, acked>>
  BY DEF TickPut
<1>2. DOMAIN puts \subseteq Targets /\ \A t \in DOMAIN puts : puts[t] \in PutQueries
  BY DEF RpcInv, TypeOK, IsMap
<1>3. \A t \in done : PollCompletion(puts[t], inflight) \in Results
  BY <1>2, PollCompletionType
<1>4. IsMap(donePut', Targets, Results) /\ DOMAIN donePut' = done
  BY <1>1, <1>2, <1>3 DEF IsMap
<1>5. TypeOK'
  BY <1>1, <1>4 DEF RpcInv, TypeOK, Phases
<1>6. PhaseInv'
  BY <1>1, <1>4 DEF RpcInv, PhaseInv
<1>7. SendersInv' /\ RequestsOwned'
  BY <1>1 DEF RpcInv, SendersInv, RequestsOwned
<1>8. NoForgottenCaller'
  BY <1>1 DEF RpcInv, NoForgottenCaller, PhaseInv
<1> QED
  BY <1>5, <1>6, <1>7, <1>8 DEF RpcInv

\* tick_get_queries reports only lookups without a request in flight.
LEMMA TickGetKeepsInv ==
  ASSUME RpcInv, TickGet
  PROVE  RpcInv'
<1> DEFINE done == {t \in DOMAIN queries : QueryDone(t, inflight')}
<1>1. /\ phase = "get" /\ phase' = "cleanup"
      /\ queries' = [t \in DOMAIN queries |-> VisitClosest(t, queries[t])]
      /\ inflight' = inflight \cup
           UNION {QueryRequests(t, ToVisit(t, queries[t])) : t \in DOMAIN queries}
      /\ UNCHANGED <<puts, cached, getSenders, putSenders, callState,
                     got, result, donePut, newResponse, acked>>
  BY DEF TickGet
<1>2. DOMAIN queries \subseteq Targets /\ \A t \in DOMAIN queries : queries[t] \in Queries
  BY DEF RpcInv, TypeOK, IsMap
<1>3. /\ DOMAIN doneGet' = done
      /\ \A t \in done : doneGet'[t] \in ClosestOf(t, queries[t])
      /\ doneGet' \in [done -> UNION {ClosestOf(t, queries[t]) : t \in done}]
  BY DEF TickGet
<1>4. IsMap(doneGet', Targets, SUBSET Entries)
  <2>1. \A t \in done : ClosestOf(t, queries[t]) \subseteq SUBSET Entries
    BY <1>2, ClosestOfType
  <2>2. \A t \in done : doneGet'[t] \in SUBSET Entries
    BY <1>3, <2>1
  <2> QED
    BY <1>2, <1>3, <2>2 DEF IsMap
<1>5. /\ IsMap(queries', Targets, Queries) /\ DOMAIN queries' = DOMAIN queries
      /\ \A t \in DOMAIN queries :
           queries'[t].visited = queries[t].visited \cup ToVisit(t, queries[t])
  BY <1>1, <1>2, VisitClosestType DEF IsMap
<1>6. \A t \in DOMAIN queries : \A r \in QueryRequests(t, ToVisit(t, queries[t])) :
        /\ r \in Requests /\ r.owner = t
        /\ r.to \in ToVisit(t, queries[t])
  BY <1>2, ToVisitType DEF QueryRequests, Requests
<1>7. inflight' \subseteq Requests
  <2>1. inflight \subseteq Requests
    BY DEF RpcInv, TypeOK
  <2> QED
    BY <1>1, <1>6, <2>1
<1>8. TypeOK'
  BY <1>1, <1>4, <1>5, <1>7 DEF RpcInv, TypeOK, Phases
<1>9. PhaseInv'
  BY <1>1, <1>3, <1>5 DEF RpcInv, PhaseInv, QueryDone
<1>10. RequestsOwned'
  BY <1>1, <1>5, <1>6 DEF RpcInv, RequestsOwned
<1>11. SendersInv' /\ NoForgottenCaller'
  BY <1>1, <1>5 DEF RpcInv, SendersInv, NoForgottenCaller, PhaseInv
<1> QED
  BY <1>8, <1>9, <1>10, <1>11 DEF RpcInv

\* cleanup_done_queries removes only what this turn reports.
LEMMA CleanupKeepsInv ==
  ASSUME RpcInv, Cleanup
  PROVE  RpcInv'
<1>1. /\ phase = "cleanup" /\ phase' = "maintain"
      /\ queries' = Without(queries, DOMAIN doneGet)
      /\ cached' = [t \in DOMAIN cached \cup ToCache |->
                      IF t \in ToCache THEN doneGet[t] ELSE cached[t]]
      /\ puts' = [t \in DOMAIN puts \ (DOMAIN donePut \cup PutsWithoutNodes) |->
                    IF t \in PutsToStart THEN Start(puts[t], doneGet[t]) ELSE puts[t]]
      /\ inflight' = inflight \cup
           UNION {StartRequests(puts[t].owner, doneGet[t]) :
                    t \in PutsToStart \ PutsWithoutNodes}
      /\ donePut' = DonePuts
      /\ UNCHANGED <<getSenders, putSenders, callState, got, result, doneGet,
                     newResponse, acked>>
  BY DEF Cleanup
<1>2. /\ DOMAIN puts \subseteq Targets /\ \A t \in DOMAIN puts : puts[t] \in PutQueries
      /\ DOMAIN doneGet \subseteq Targets
      /\ \A t \in DOMAIN doneGet : doneGet[t] \in SUBSET Entries
      /\ DOMAIN donePut \subseteq Targets
      /\ \A t \in DOMAIN donePut : donePut[t] \in Results
      /\ DOMAIN cached \subseteq Targets
      /\ \A t \in DOMAIN cached : cached[t] \in SUBSET Entries
      /\ IsMap(queries, Targets, Queries) /\ inflight \subseteq Requests
  BY DEF RpcInv, TypeOK, IsMap
<1>3. /\ PutsToStart \subseteq DOMAIN doneGet \cap DOMAIN puts
      /\ PutsWithoutNodes \subseteq PutsToStart
      /\ ToCache \subseteq DOMAIN doneGet
  BY DEF PutsToStart, PutsWithoutNodes, ToCache
<1>4. /\ IsMap(queries', Targets, Queries)
      /\ DOMAIN queries' = DOMAIN queries \ DOMAIN doneGet
      /\ \A t \in DOMAIN queries \ DOMAIN doneGet : queries'[t] = queries[t]
  <2>1. IsMap(queries, Targets, Queries) /\ queries' = Without(queries, DOMAIN doneGet)
    BY <1>1, <1>2
  <2> QED
    BY <2>1, WithoutIsMap
<1>5. IsMap(cached', Targets, SUBSET Entries)
  BY <1>1, <1>2, <1>3 DEF IsMap
<1>6. \A t \in PutsToStart :
        /\ Start(puts[t], doneGet[t]) \in PutQueries
        /\ \A r \in StartRequests(puts[t].owner, doneGet[t]) :
             r \in Requests /\ r.op \in {"put", "extra"}
  BY <1>2, <1>3, StartType
<1>7. /\ IsMap(puts', Targets, PutQueries)
      /\ DOMAIN puts' = DOMAIN puts \ (DOMAIN donePut \cup PutsWithoutNodes)
  BY <1>1, <1>2, <1>6 DEF IsMap
<1>8. /\ IsMap(donePut', Targets, Results)
      /\ DOMAIN donePut' = DOMAIN donePut \cup PutsWithoutNodes
  BY <1>1, <1>2, <1>3 DEF IsMap, DonePuts, Results
<1>9. \A r \in inflight' : r \in Requests /\ (r \in inflight \/ r.op \in {"put", "extra"})
  BY <1>1, <1>2, <1>6
<1>10. TypeOK'
  <2>1. inflight' \subseteq Requests
    BY <1>9
  <2> QED
    BY <1>1, <1>4, <1>5, <1>7, <1>8, <2>1 DEF RpcInv, TypeOK, Phases
<1>11. PhaseInv'
  BY <1>1 DEF PhaseInv
<1>12. RequestsOwned'
  <2> SUFFICES ASSUME NEW r \in inflight', r.op \in {"query", "ping"}
               PROVE  r.owner \in DOMAIN queries' /\ r.to \in queries'[r.owner].visited
    BY DEF RequestsOwned
  <2>1. r \in inflight
    BY <1>9
  <2>2. r.owner \in DOMAIN queries /\ r.to \in queries[r.owner].visited
    BY <2>1 DEF RpcInv, RequestsOwned
  <2>3. r.owner \notin DOMAIN doneGet
    BY <1>1, <2>1 DEF RpcInv, PhaseInv, AnyInflight
  <2> QED
    BY <1>4, <2>2, <2>3
<1>13. SendersInv' /\ NoForgottenCaller'
  BY <1>1, <1>4, <1>7, <1>8 DEF RpcInv, SendersInv, NoForgottenCaller
<1> QED
  BY <1>10, <1>11, <1>12, <1>13 DEF RpcInv

\* populate only adds a lookup.
LEMMA MaintainKeepsInv ==
  ASSUME RpcInv, Maintain
  PROVE  RpcInv'
<1>1. /\ phase = "maintain" /\ phase' = "message"
      /\ UNCHANGED <<puts, cached, getSenders, putSenders, callState,
                     got, result, doneGet, donePut, newResponse, acked>>
  BY DEF Maintain
<1>2. /\ IsMap(queries', Targets, Queries) /\ DOMAIN queries \subseteq DOMAIN queries'
      /\ inflight' \subseteq Requests /\ RequestsOwned'
  <2>1. CASE UNCHANGED <<queries, inflight>>
    BY <2>1 DEF RpcInv, TypeOK, RequestsOwned
  <2>2. CASE \E t \in SelfTargets : JoinOrStart(t, "FindNode")
    <3>1. PICK t \in SelfTargets : JoinOrStart(t, "FindNode")
      BY <2>2
    <3>2. t \in Targets /\ "FindNode" \in QueryKinds
      BY RpcAssumption DEF RpcAssumption, QueryKinds
    <3> QED
      BY <3>1, <3>2, JoinOrStartKeeps
  <2> QED
    BY <2>1, <2>2 DEF Maintain
<1>3. TypeOK'
  BY <1>1, <1>2 DEF RpcInv, TypeOK, Phases
<1>4. PhaseInv'
  BY <1>1 DEF PhaseInv
<1>5. SendersInv' /\ NoForgottenCaller'
  BY <1>1, <1>2 DEF RpcInv, SendersInv, NoForgottenCaller
<1> QED
  BY <1>2, <1>3, <1>4, <1>5 DEF RpcInv

-----------------------------------------------------------------------------
(* handle_message *)

\* What every step of handle_message leaves alone, and what it may change.
LEMMA MessageKeepsInv ==
  ASSUME RpcInv, phase = "message", phase' = "report", UNCHANGED Unaffected,
         IsMap(queries', Targets, Queries), DOMAIN queries' = DOMAIN queries,
         \A t \in DOMAIN queries : queries'[t].visited = queries[t].visited,
         IsMap(puts', Targets, PutQueries), DOMAIN puts' = DOMAIN puts,
         inflight' \subseteq inflight,
         newResponse' \subseteq Targets \X Values, acked' \subseteq PutCalls \X Nodes
  PROVE  RpcInv'
<1>1. UNCHANGED <<cached, getSenders, putSenders, callState, got, result, doneGet, donePut>>
  BY DEF Unaffected
<1>2. TypeOK'
  BY <1>1 DEF RpcInv, TypeOK, Phases
<1>3. PhaseInv'
  BY DEF PhaseInv
<1>4. SendersInv' /\ NoForgottenCaller'
  BY <1>1 DEF RpcInv, SendersInv, NoForgottenCaller
<1>5. RequestsOwned'
  BY DEF RpcInv, RequestsOwned
<1> QED
  BY <1>2, <1>3, <1>4, <1>5 DEF RpcInv

\* A request from another node, or silence, changes no query.
LEMMA NoMessageKeepsInv ==
  ASSUME RpcInv, NoMessage
  PROVE  RpcInv'
<1>1. /\ phase = "message" /\ phase' = "report" /\ UNCHANGED Unaffected
      /\ UNCHANGED <<queries, puts, inflight, newResponse, acked>>
  BY DEF NoMessage, Unaffected
<1>2. /\ IsMap(queries', Targets, Queries) /\ IsMap(puts', Targets, PutQueries)
      /\ newResponse' \subseteq Targets \X Values /\ acked' \subseteq PutCalls \X Nodes
  BY <1>1 DEF RpcInv, TypeOK
<1> QED
  BY <1>1, <1>2, MessageKeepsInv

\* The ping from the node's own address only adds a lookup.
LEMMA OwnPingKeepsInv ==
  ASSUME RpcInv, OwnPing
  PROVE  RpcInv'
<1>1. /\ phase' = "report"
      /\ UNCHANGED <<puts, cached, getSenders, putSenders, callState,
                     got, result, doneGet, donePut, newResponse, acked>>
  BY DEF OwnPing, Unaffected
<1>2. PICK t \in SelfTargets : JoinOrStart(t, "FindNode")
  BY DEF OwnPing
<1>3. t \in Targets /\ "FindNode" \in QueryKinds
  BY RpcAssumption DEF RpcAssumption, QueryKinds
<1>4. /\ IsMap(queries', Targets, Queries) /\ DOMAIN queries \subseteq DOMAIN queries'
      /\ inflight' \subseteq Requests /\ RequestsOwned'
  BY <1>2, <1>3, JoinOrStartKeeps
<1>5. TypeOK'
  BY <1>1, <1>4 DEF RpcInv, TypeOK, Phases
<1>6. PhaseInv'
  BY <1>1 DEF PhaseInv
<1>7. SendersInv' /\ NoForgottenCaller'
  BY <1>1, <1>4 DEF RpcInv, SendersInv, NoForgottenCaller
<1> QED
  BY <1>4, <1>5, <1>6, <1>7 DEF RpcInv

\* A read-only answer is counted and nothing else.
LEMMA ReadOnlyAnswerKeepsInv ==
  ASSUME RpcInv, NEW r \in inflight, ReadOnlyAnswer(r)
  PROVE  RpcInv'
<1>1. /\ phase = "message" /\ phase' = "report" /\ UNCHANGED Unaffected
      /\ UNCHANGED <<puts, newResponse, acked>> /\ inflight' \subseteq inflight
      /\ queries' = IF OfQuery(r) /\ r.op = "query"
                    THEN [queries EXCEPT ![r.owner].recorded = @ + 1] ELSE queries
  BY DEF ReadOnlyAnswer, Answered, Unaffected
<1>2. /\ IsMap(puts', Targets, PutQueries)
      /\ newResponse' \subseteq Targets \X Values /\ acked' \subseteq PutCalls \X Nodes
  BY <1>1 DEF RpcInv, TypeOK
<1>3. /\ IsMap(queries', Targets, Queries) /\ DOMAIN queries' = DOMAIN queries
      /\ \A t \in DOMAIN queries : queries'[t].visited = queries[t].visited
  <2>1. DOMAIN queries \subseteq Targets /\ queries \in [DOMAIN queries -> Queries]
    BY DEF RpcInv, TypeOK, IsMap
  <2>2. ASSUME NEW q \in Queries
        PROVE  /\ [q EXCEPT !.recorded = @ + 1] \in Queries
               /\ [q EXCEPT !.recorded = @ + 1].visited = q.visited
    BY DEF Queries
  <2> QED
    BY <1>1, <2>1, <2>2 DEF IsMap
<1> QED
  BY <1>1, <1>2, <1>3, MessageKeepsInv

\* A put answer changes one put.
LEMMA PutChanged ==
  ASSUME RpcInv, NEW t \in DOMAIN puts, NEW p \in PutQueries,
         puts' = [puts EXCEPT ![t] = p]
  PROVE  IsMap(puts', Targets, PutQueries) /\ DOMAIN puts' = DOMAIN puts
  BY DEF RpcInv, TypeOK, IsMap

\* An acknowledgement changes one put.
LEMMA PutAckKeepsInv ==
  ASSUME RpcInv, NEW r \in inflight, PutAck(r)
  PROVE  RpcInv'
<1>1. /\ phase = "message" /\ phase' = "report" /\ UNCHANGED Unaffected
      /\ UNCHANGED <<queries, newResponse>> /\ inflight' \subseteq inflight
      /\ acked' = acked \cup {<<r.owner, r.to>>}
  BY DEF PutAck, Answered, Unaffected
<1>2. PICK t \in Targets : OfPut(r, t) /\ puts' = [puts EXCEPT ![t] = Success(@)]
  BY DEF PutAck
<1>3. t \in DOMAIN puts /\ r \in puts[t].sent /\ puts[t] \in PutQueries
  BY <1>2 DEF OfPut, RpcInv, TypeOK, IsMap
<1>4. r.owner \in PutCalls /\ r.to \in Nodes
  BY <1>3 DEF PutQueries
<1>5. IsMap(puts', Targets, PutQueries) /\ DOMAIN puts' = DOMAIN puts
  BY <1>2, <1>3, SuccessType, PutChanged
<1>6. /\ IsMap(queries', Targets, Queries)
      /\ newResponse' \subseteq Targets \X Values /\ acked' \subseteq PutCalls \X Nodes
  BY <1>1, <1>4 DEF RpcInv, TypeOK
<1> QED
  BY <1>1, <1>5, <1>6, MessageKeepsInv

\* An error changes one put.
LEMMA PutRejectedKeepsInv ==
  ASSUME RpcInv, NEW r \in inflight, PutRejected(r)
  PROVE  RpcInv'
<1>1. /\ phase = "message" /\ phase' = "report" /\ UNCHANGED Unaffected
      /\ UNCHANGED <<queries, newResponse, acked>> /\ inflight' \subseteq inflight
  BY DEF PutRejected, Answered, Unaffected
<1>2. PICK t \in Targets, code \in Codes :
        OfPut(r, t) /\ puts' = [puts EXCEPT ![t] = AddError(@, code)]
  BY DEF PutRejected
<1>3. t \in DOMAIN puts /\ puts[t] \in PutQueries
  BY <1>2 DEF OfPut, RpcInv, TypeOK, IsMap
<1>4. IsMap(puts', Targets, PutQueries) /\ DOMAIN puts' = DOMAIN puts
  BY <1>2, <1>3, AddErrorType, PutChanged
<1>5. /\ IsMap(queries', Targets, Queries)
      /\ newResponse' \subseteq Targets \X Values /\ acked' \subseteq PutCalls \X Nodes
  BY <1>1 DEF RpcInv, TypeOK
<1> QED
  BY <1>1, <1>4, <1>5, MessageKeepsInv

\* An answer without a lookup to go to changes no query.
LEMMA AnswerIgnoredKeepsInv ==
  ASSUME RpcInv, NEW r \in inflight, AnswerIgnored(r)
  PROVE  RpcInv'
<1>1. /\ phase = "message" /\ phase' = "report" /\ UNCHANGED Unaffected
      /\ UNCHANGED <<queries, puts, newResponse, acked>> /\ inflight' \subseteq inflight
  BY DEF AnswerIgnored, Answered, Unaffected
<1>2. /\ IsMap(queries', Targets, Queries) /\ IsMap(puts', Targets, PutQueries)
      /\ newResponse' \subseteq Targets \X Values /\ acked' \subseteq PutCalls \X Nodes
  BY <1>1 DEF RpcInv, TypeOK
<1> QED
  BY <1>1, <1>2, MessageKeepsInv

\* An answer to a lookup changes that lookup, and not what it visited.
LEMMA QueryAnswerKeepsInv ==
  ASSUME RpcInv, NEW r \in inflight, QueryAnswer(r)
  PROVE  RpcInv'
<1>1. /\ phase = "message" /\ phase' = "report" /\ UNCHANGED Unaffected
      /\ UNCHANGED <<puts, acked>> /\ inflight' \subseteq inflight
      /\ r.owner \in DOMAIN queries
  BY DEF QueryAnswer, Answered, OfQuery, Unaffected
<1>2. PICK body \in Bodies, nodes \in SUBSET Nodes :
        /\ queries' = [queries EXCEPT ![r.owner] = Hear(@, r, body, nodes)]
        /\ newResponse' = IF body \in Values THEN {<<r.owner, body>>} ELSE {}
  <2>1. PICK body \in Bodies : \E nodes \in (IF body = "bare" THEN {{}} ELSE SUBSET Nodes) :
          /\ queries' = [queries EXCEPT ![r.owner] = Hear(@, r, body, nodes)]
          /\ newResponse' = IF body \in Values THEN {<<r.owner, body>>} ELSE {}
    BY DEF QueryAnswer
  <2>2. (IF body = "bare" THEN {{}} ELSE SUBSET Nodes) \subseteq SUBSET Nodes
    OBVIOUS
  <2> QED
    BY <2>1, <2>2
<1>3. /\ r.to \in Nodes
      /\ DOMAIN queries \subseteq Targets /\ queries \in [DOMAIN queries -> Queries]
  BY DEF RpcInv, TypeOK, IsMap, Requests
<1>4. /\ Hear(queries[r.owner], r, body, nodes) \in Queries
      /\ Hear(queries[r.owner], r, body, nodes).visited = queries[r.owner].visited
  BY <1>1, <1>3, HearType
<1>5. /\ IsMap(queries', Targets, Queries) /\ DOMAIN queries' = DOMAIN queries
      /\ \A t \in DOMAIN queries : queries'[t].visited = queries[t].visited
  BY <1>1, <1>2, <1>3, <1>4 DEF IsMap
<1>6. newResponse' \subseteq Targets \X Values
  BY <1>1, <1>2, <1>3
<1>7. IsMap(puts', Targets, PutQueries) /\ acked' \subseteq PutCalls \X Nodes
  BY <1>1 DEF RpcInv, TypeOK
<1> QED
  BY <1>1, <1>5, <1>6, <1>7, MessageKeepsInv

-----------------------------------------------------------------------------
(* The report, and the clock *)

\* run() drops the senders of what was reported, and answers exactly those.
LEMMA ReportKeepsInv ==
  ASSUME RpcInv, Report
  PROVE  RpcInv'
<1>1. /\ phase = "report" /\ phase' = "recv"
      /\ DOMAIN got' = GetCalls
      /\ getSenders' = [t \in Targets |-> IF t \in DOMAIN doneGet THEN {} ELSE getSenders[t]]
      /\ putSenders' = [t \in Targets |-> IF t \in DOMAIN donePut THEN {} ELSE putSenders[t]]
      /\ callState' = [c \in Calls |->
           IF Served(c) \/ Settled(c) THEN "answered" ELSE callState[c]]
      /\ result' = [c \in PutCalls |->
           IF Settled(c) THEN donePut[PutReq[c].target] ELSE result[c]]
      /\ doneGet' = Empty /\ donePut' = Empty /\ newResponse' = {}
      /\ UNCHANGED <<queries, puts, cached, inflight, acked>>
  BY DEF Report
<1>2. /\ getSenders \in [Targets -> SUBSET GetCalls]
      /\ putSenders \in [Targets -> SUBSET PutCalls]
      /\ callState \in [Calls -> {"idle", "waiting", "answered"}]
      /\ result \in [PutCalls -> Results]
      /\ DOMAIN doneGet \subseteq Targets
      /\ DOMAIN donePut \subseteq Targets
      /\ \A t \in DOMAIN donePut : donePut[t] \in Results
  BY DEF RpcInv, TypeOK, IsMap
<1>3. /\ IsMap(doneGet', Targets, SUBSET Entries) /\ DOMAIN doneGet' = {}
      /\ IsMap(donePut', Targets, Results) /\ DOMAIN donePut' = {}
  BY <1>1, EmptyIsMap
<1>4. result' \in [PutCalls -> Results]
  <2>1. \A c \in PutCalls : Settled(c) => PutReq[c].target \in DOMAIN donePut
    BY <1>2 DEF Settled, RpcInv, SendersInv
  <2> QED
    BY <1>1, <1>2, <2>1
<1>5. /\ getSenders' \in [Targets -> SUBSET GetCalls]
      /\ putSenders' \in [Targets -> SUBSET PutCalls]
      /\ callState' \in [Calls -> {"idle", "waiting", "answered"}]
  BY <1>1, <1>2
<1>6. TypeOK'
  BY <1>1, <1>3, <1>4, <1>5 DEF RpcInv, TypeOK, Phases
<1>7. PhaseInv'
  BY <1>1, <1>3 DEF PhaseInv
<1>8. SendersInv'
  BY <1>1 DEF RpcInv, SendersInv
<1>9. RequestsOwned'
  BY <1>1 DEF RpcInv, RequestsOwned
<1>10. NoForgottenCaller'
  <2>1. ASSUME NEW c \in GetCalls, callState'[c] = "waiting"
        PROVE  /\ c \in getSenders'[GetReq[c].target]
               /\ GetReq[c].target \in DOMAIN queries' \cup DOMAIN doneGet'
    <3>1. callState[c] = "waiting" /\ ~ Served(c)
      BY <1>1, <2>1 DEF Calls
    <3>2. /\ c \in getSenders[GetReq[c].target]
          /\ GetReq[c].target \in DOMAIN queries \cup DOMAIN doneGet
      BY <3>1 DEF RpcInv, NoForgottenCaller
    <3>3. GetReq[c].target \notin DOMAIN doneGet
      BY <3>1, <3>2 DEF Served
    <3> QED
      BY <1>1, <3>2, <3>3, RequestTargets
  <2>2. ASSUME NEW c \in PutCalls, callState'[c] = "waiting"
        PROVE  /\ c \in putSenders'[PutReq[c].target]
               /\ PutReq[c].target \in DOMAIN puts' \cup DOMAIN donePut'
    <3>1. callState[c] = "waiting" /\ ~ Settled(c)
      BY <1>1, <2>2 DEF Calls
    <3>2. /\ c \in putSenders[PutReq[c].target]
          /\ PutReq[c].target \in DOMAIN puts \cup DOMAIN donePut
      BY <3>1 DEF RpcInv, NoForgottenCaller
    <3>3. PutReq[c].target \notin DOMAIN donePut
      BY <3>1, <3>2 DEF Settled
    <3> QED
      BY <1>1, <3>2, <3>3, RequestTargets
  <2> QED
    BY <2>1, <2>2 DEF NoForgottenCaller
<1> QED
  BY <1>6, <1>7, <1>8, <1>9, <1>10 DEF RpcInv

\* A timeout only takes a request out of flight.
LEMMA ExpireKeepsInv ==
  ASSUME RpcInv, NEW r \in Requests, Expire(r)
  PROVE  RpcInv'
<1>1. /\ inflight' \subseteq inflight
      /\ UNCHANGED <<phase, queries, puts, cached, getSenders, putSenders, callState, got,
                     result, doneGet, donePut, newResponse, acked>>
  BY DEF Expire
<1>2. TypeOK'
  BY <1>1 DEF RpcInv, TypeOK
<1>3. PhaseInv'
  BY <1>1 DEF RpcInv, PhaseInv, AnyInflight
<1>4. SendersInv' /\ NoForgottenCaller' /\ RequestsOwned'
  BY <1>1 DEF RpcInv, SendersInv, NoForgottenCaller, RequestsOwned
<1> QED
  BY <1>2, <1>3, <1>4 DEF RpcInv

\* Cached nodes that age stay entries.
LEMMA CacheAgesKeepsInv ==
  ASSUME RpcInv, CacheAges
  PROVE  RpcInv'
<1>1. /\ cached' = [t \in DOMAIN cached |-> {[e EXCEPT !.fresh = FALSE] : e \in cached[t]}]
      /\ UNCHANGED <<phase, queries, puts, inflight, getSenders, putSenders, callState, got,
                     result, doneGet, donePut, newResponse, acked>>
  BY DEF CacheAges
<1>2. IsMap(cached', Targets, SUBSET Entries)
  <2>1. DOMAIN cached \subseteq Targets /\ \A t \in DOMAIN cached : cached[t] \in SUBSET Entries
    BY DEF RpcInv, TypeOK, IsMap
  <2>2. \A e \in Entries : [e EXCEPT !.fresh = FALSE] \in Entries
    BY DEF Entries
  <2>3. \A t \in DOMAIN cached : {[e EXCEPT !.fresh = FALSE] : e \in cached[t]} \in SUBSET Entries
    BY <2>1, <2>2
  <2> QED
    BY <1>1, <2>1, <2>3 DEF IsMap
<1>3. TypeOK'
  BY <1>1, <1>2 DEF RpcInv, TypeOK
<1>4. PhaseInv' /\ SendersInv' /\ NoForgottenCaller' /\ RequestsOwned'
  BY <1>1 DEF RpcInv, PhaseInv, SendersInv, NoForgottenCaller, RequestsOwned, AnyInflight
<1> QED
  BY <1>3, <1>4 DEF RpcInv

-----------------------------------------------------------------------------

\* Every step of the loop and of the clock keeps RpcInv.
LEMMA RpcInvStep == RpcInv /\ [Next]_vars => RpcInv'
<1> SUFFICES ASSUME RpcInv, [Next]_vars PROVE RpcInv'
  OBVIOUS
<1>1. CASE Recv
  BY <1>1, RecvNothingKeepsInv, RecvGetKeepsInv, RecvPutRefusedKeepsInv,
     RecvPutJoinKeepsInv, RecvPutFromCacheKeepsInv, RecvPutWithLookupKeepsInv DEF Recv
<1>2. CASE TickPut \/ TickGet \/ Cleanup \/ Maintain
  BY <1>2, TickPutKeepsInv, TickGetKeepsInv, CleanupKeepsInv, MaintainKeepsInv
<1>3. CASE HandleMessage
  BY <1>3, NoMessageKeepsInv, OwnPingKeepsInv, ReadOnlyAnswerKeepsInv, PutAckKeepsInv,
     PutRejectedKeepsInv, AnswerIgnoredKeepsInv, QueryAnswerKeepsInv DEF HandleMessage
<1>4. CASE Report
  BY <1>4, ReportKeepsInv
<1>5. CASE (\E r \in Requests : Expire(r)) \/ CacheAges
  BY <1>5, ExpireKeepsInv, CacheAgesKeepsInv
<1>6. CASE UNCHANGED vars
  <2>1. UNCHANGED <<phase, queries, puts, cached, inflight, getSenders, putSenders,
                    callState, got, result, doneGet, donePut, newResponse, acked>>
    BY <1>6 DEF vars
  <2>2. TypeOK'
    BY <2>1 DEF RpcInv, TypeOK
  <2>3. PhaseInv' /\ SendersInv' /\ NoForgottenCaller' /\ RequestsOwned'
    BY <2>1 DEF RpcInv, PhaseInv, SendersInv, NoForgottenCaller, RequestsOwned, AnyInflight
  <2> QED
    BY <2>2, <2>3 DEF RpcInv
<1> QED
  BY <1>1, <1>2, <1>3, <1>4, <1>5, <1>6 DEF Next, Loop

\* RpcInv is an invariant of the query engine.
LEMMA RpcInvHolds == Spec => []RpcInv
  BY RpcInvInit, RpcInvStep, PTL DEF Spec

\* The maps of Rpc and of the actor hold what their types say; in particular a
\* put is reported only with a final result.
THEOREM RpcTypeCorrect == Spec => []TypeOK
  BY RpcInvHolds, PTL DEF RpcInv

\* Whatever calls join, override or refuse each other, a call that waits is
\* registered with a query that is under way or about to be reported.
THEOREM NoCallerForgotten == Spec => []NoForgottenCaller
  BY RpcInvHolds, PTL DEF RpcInv

\* cleanup_done_queries removes a lookup only when none of its requests can be
\* answered any more, so an answer never reaches a later lookup of its target.
THEOREM LookupRequestsOwned == Spec => []RequestsOwned
  BY RpcInvHolds, PTL DEF RpcInv

-----------------------------------------------------------------------------
(* The values of a lookup, one by one *)

\* A set of numbers has a least one: what induction over data rests on here.
LEMMA LeastNat ==
  ASSUME NEW T \in SUBSET Nat, T # {}
  PROVE  \E n \in T : \A m \in T : n <= m
  <1>1. IsWellFoundedOn(OpToRel(<, Nat), Nat)
    BY NatLessThanWellFounded
  <1>2. PICK n \in T : \A m \in T : ~ (<<m, n>> \in OpToRel(<, Nat))
    BY <1>1, WFMin
  <1>3. \A m \in T : ~ (m < n)
    BY <1>2 DEF OpToRel
  <1>4. QED
    BY <1>3

\* What a sender has taken after one more value.
TakeOne(sender, sofar, v) == IF Accepts(sender, v) THEN Append(sofar, v) ELSE sofar

\* f holds what a sender has taken after each of the first m values.
Takes(f, sender, s, m) ==
  /\ f[0] = <<>>
  /\ \A n \in 1 .. m : f[n] = TakeOne(sender, f[n - 1], s[n])

\* There is such a function.
LEMMA TakesExists ==
  ASSUME NEW sender, NEW s \in Seq(Values)
  PROVE  \E f : Takes(f, sender, s, Len(s))
  <1>0. Len(s) \in Nat
    OBVIOUS
  <1> DEFINE Bad == {m \in 0 .. Len(s) : ~ \E f : Takes(f, sender, s, m)}
  <1> SUFFICES ASSUME Bad # {} PROVE FALSE
    BY <1>0
  <1>1. Bad \in SUBSET Nat
    BY <1>0
  <1>2. PICK m \in Bad : \A l \in Bad : m <= l
    <2> HIDE DEF Bad
    <2> QED
      BY <1>1, LeastNat
  <1>3. m \in 0 .. Len(s) /\ ~ \E f : Takes(f, sender, s, m)
    OBVIOUS
  <1>4. CASE m = 0
    <2>1. Takes([n \in {0} |-> <<>>], sender, s, 0)
      BY DEF Takes
    <2>2. QED
      BY <1>3, <1>4, <2>1
  <1>5. CASE m # 0
    <2>1. m \in Nat /\ m - 1 \in 0 .. Len(s) /\ ~ (m <= m - 1)
      BY <1>0, <1>3, <1>5
    <2>2. PICK f : Takes(f, sender, s, m - 1)
      BY <1>2, <2>1
    <2> DEFINE g == [n \in 0 .. m |->
                       IF n = m THEN TakeOne(sender, f[m - 1], s[m]) ELSE f[n]]
    <2>3. g[0] = <<>>
      BY <1>5, <2>1, <2>2 DEF Takes
    <2>4. ASSUME NEW n \in 1 .. m PROVE g[n] = TakeOne(sender, g[n - 1], s[n])
      <3>1. n - 1 \in 0 .. m /\ n - 1 # m /\ g[n - 1] = f[n - 1]
        BY <2>1
      <3>2. n # m => n \in 1 .. m - 1
        BY <2>1
      <3>3. QED
        BY <2>2, <3>1, <3>2 DEF Takes
    <2> HIDE DEF g
    <2>5. Takes(g, sender, s, m)
      BY <2>3, <2>4 DEF Takes
    <2>6. QED
      BY <1>3, <2>5
  <1>6. QED
    BY <1>4, <1>5

\* And every such function ends in Taken.
LEMMA TakesGivesTaken ==
  ASSUME NEW sender, NEW s \in Seq(Values), NEW h, Takes(h, sender, s, Len(s))
  PROVE  Taken(sender, s) = h[Len(s)]
  <1> DEFINE f == [n \in 0 .. Len(s) |-> h[n]]
             Body(g) == [n \in 0 .. Len(s) |->
                IF n = 0 THEN <<>>
                ELSE IF Accepts(sender, s[n]) THEN Append(g[n - 1], s[n]) ELSE g[n - 1]]
             F == CHOOSE g : g = Body(g)
  <1>0. Len(s) \in Nat
    OBVIOUS
  <1>1. f = Body(f)
    <2>1. ASSUME NEW n \in 0 .. Len(s) PROVE f[n] = Body(f)[n]
      <3>1. CASE n = 0
        BY <3>1 DEF Takes
      <3>2. CASE n # 0
        <4>1. n \in 1 .. Len(s) /\ n - 1 \in 0 .. Len(s)
          BY <1>0, <3>2
        <4>2. QED
          BY <3>2, <4>1 DEF Takes, TakeOne
      <3>3. QED
        BY <3>1, <3>2
    <2>2. QED
      BY <2>1
  <1>2. F = Body(F)
    <2> HIDE DEF f, Body
    <2> QED
      BY <1>1
  <1>3. \A n \in 0 .. Len(s) : F[n] = f[n]
    <2> DEFINE Bad == {n \in 0 .. Len(s) : F[n] # f[n]}
    <2> SUFFICES ASSUME Bad # {} PROVE FALSE
      OBVIOUS
    <2>0. Bad \in SUBSET Nat
      BY <1>0
    <2> HIDE DEF F, Bad, f
    <2>1. PICK n \in Bad : \A l \in Bad : n <= l
      BY <2>0, LeastNat
    <2>2. n \in 0 .. Len(s) /\ F[n] # f[n]
      BY DEF Bad
    <2>3. F[n] = Body(F)[n] /\ f[n] = Body(f)[n]
      BY <1>1, <1>2
    <2>4. CASE n = 0
      BY <2>2, <2>3, <2>4
    <2>5. CASE n # 0
      <3>1. n - 1 \in 0 .. Len(s) /\ ~ (n <= n - 1)
        BY <1>0, <2>2, <2>5
      <3>2. F[n - 1] = f[n - 1]
        BY <2>1, <3>1 DEF Bad
      <3>3. QED
        BY <2>2, <2>3, <2>5, <3>2
    <2>6. QED
      BY <2>4, <2>5
  <1>4. Taken(sender, s) = F[Len(s)]
    BY DEF Taken
  <1>5. QED
    BY <1>0, <1>3, <1>4

\* A sender takes nothing of nothing, and each further value if it accepts it.
LEMMA TakenOneByOne ==
  ASSUME NEW sender
  PROVE  /\ Taken(sender, <<>>) = <<>>
         /\ \A s \in Seq(Values), v \in Values :
              Taken(sender, Append(s, v)) = TakeOne(sender, Taken(sender, s), v)
  <1>1. Taken(sender, <<>>) = <<>>
    <2>1. <<>> \in Seq(Values) /\ Len(<<>>) = 0
      OBVIOUS
    <2>2. PICK f : Takes(f, sender, <<>>, 0)
      BY <2>1, TakesExists
    <2>3. Taken(sender, <<>>) = f[0]
      BY <2>1, <2>2, TakesGivesTaken
    <2>4. QED
      BY <2>2, <2>3 DEF Takes
  <1>2. ASSUME NEW s \in Seq(Values), NEW v \in Values
        PROVE  Taken(sender, Append(s, v)) = TakeOne(sender, Taken(sender, s), v)
    <2>1. PICK f : Takes(f, sender, s, Len(s))
      BY TakesExists
    <2> DEFINE m == Len(s) + 1
               a == Append(s, v)
               g == [n \in 0 .. m |-> IF n = m THEN TakeOne(sender, f[m - 1], v) ELSE f[n]]
    <2>2. /\ a \in Seq(Values) /\ Len(a) = m /\ a[m] = v /\ m - 1 = Len(s) /\ Len(s) \in Nat
          /\ \A n \in 1 .. Len(s) : a[n] = s[n]
      OBVIOUS
    <2>3. g[0] = <<>>
      BY <2>1, <2>2 DEF Takes
    <2>4. ASSUME NEW n \in 1 .. m PROVE g[n] = TakeOne(sender, g[n - 1], a[n])
      <3>1. n - 1 \in 0 .. m /\ n - 1 # m /\ g[n - 1] = f[n - 1]
        BY <2>2
      <3>2. n # m => n \in 1 .. Len(s)
        BY <2>2
      <3> HIDE DEF a
      <3>3. QED
        BY <2>1, <2>2, <3>1, <3>2 DEF Takes
    <2>5. g[m] = TakeOne(sender, f[Len(s)], v)
      BY <2>2
    <2> HIDE DEF g, a
    <2>6. Takes(g, sender, a, Len(a))
      BY <2>2, <2>3, <2>4 DEF Takes
    <2>7. Taken(sender, a) = g[m]
      BY <2>2, <2>6, TakesGivesTaken
    <2>8. Taken(sender, s) = f[Len(s)]
      BY <2>1, TakesGivesTaken
    <2>9. QED
      BY <2>5, <2>7, <2>8 DEF a
  <1>3. QED
    BY <1>1, <1>2

-----------------------------------------------------------------------------
(* Counting nodes and requests *)

\* The query requests among S that belong to the lookup of t.
QueriesOf(t, S) == {r \in S : r.owner = t /\ r.op = "query"}

\* A query request to each of the nodes in S.
Asked(t, S) == {[owner |-> t, to |-> n, op |-> "query"] : n \in S}

\* There is one request for each node that is asked.
LEMMA AskedOnce ==
  ASSUME NEW t, NEW S \in SUBSET Nodes
  PROVE  /\ IsFiniteSet(S) /\ Cardinality(S) \in Nat
         /\ IsFiniteSet(Asked(t, S)) /\ Cardinality(Asked(t, S)) \in Nat
         /\ Cardinality(Asked(t, S)) <= Cardinality(S)
  <1> DEFINE f == [n \in S |-> [owner |-> t, to |-> n, op |-> "query"]]
  <1>1. IsFiniteSet(S)
    BY NodesAssumption, FS_Subset
  <1>2. f \in Surjection(S, Asked(t, S))
    BY DEF Asked, Surjection
  <1> HIDE DEF f
  <1>3. QED
    BY <1>1, <1>2, FS_Surjection, FS_CardinalityType

\* There are finitely many entries.
LEMMA EntriesFinite ==
  ASSUME NEW es \in SUBSET Entries
  PROVE  IsFiniteSet(es) /\ Cardinality(es) \in Nat
  <1> DEFINE P == Nodes \X (BOOLEAN \X BOOLEAN)
             f == [x \in P |-> [node |-> x[1], token |-> x[2][1], fresh |-> x[2][2]]]
  <1>1. IsFiniteSet(BOOLEAN)
    <2>1. BOOLEAN = {TRUE} \cup {FALSE}
      OBVIOUS
    <2>2. IsFiniteSet({TRUE})
      BY FS_Singleton, Zenon
    <2>3. IsFiniteSet({TRUE} \cup {FALSE})
      BY <2>2, FS_AddElement, Zenon
    <2>4. QED
      BY <2>1, <2>3, Zenon
  <1>2. IsFiniteSet(P)
    BY <1>1, NodesAssumption, FS_Product
  <1>3. f \in Surjection(P, Entries)
    <2>1. f \in [P -> Entries]
      BY DEF Entries
    <2>2. ASSUME NEW e \in Entries PROVE \E x \in P : f[x] = e
      <3>1. <<e.node, <<e.token, e.fresh>>>> \in P
        BY DEF Entries
      <3>2. f[<<e.node, <<e.token, e.fresh>>>>] = e
        BY <3>1 DEF Entries
      <3>3. QED
        BY <3>1, <3>2
    <2> HIDE DEF f, P
    <2>3. QED
      BY <2>1, <2>2 DEF Surjection
  <1> HIDE DEF f, P
  <1>4. QED
    BY <1>2, <1>3, FS_Surjection, FS_Subset, FS_CardinalityType

-----------------------------------------------------------------------------
(* The inductive invariant of the lookups *)

\* Get senders are kept only for a lookup that is under way or just done.
GetSendersServed ==
  \A t \in Targets : getSenders[t] # {} => t \in DOMAIN queries \cup DOMAIN doneGet

\* Only visited nodes answer.
RespondersVisited ==
  \A t \in DOMAIN queries : queries[t].responders \subseteq queries[t].visited

\* A node that was asked counts once: as an answer, or in flight, or timed out.
AnswersCounted ==
  \A t \in DOMAIN queries :
    queries[t].recorded + Cardinality(QueriesOf(t, inflight)) <= Cardinality(queries[t].visited)

\* What a get call has received after the report of this turn.
ReceivedBy(c) == IF Live(c) = {} THEN got[c] ELSE Append(got[c], CHOOSE v \in Live(c) : TRUE)

\* One value comes in per turn, just before the report; with it every caller has
\* what its lookup has seen.
StreamsUpToDate ==
  /\ phase # "report" => newResponse = {}
  /\ \A t \in Targets \ DOMAIN doneGet : \A c \in getSenders[t] :
       ReceivedBy(c) = Taken(GetReq[c].sender, queries[t].responses)

LookupInv ==
  /\ GetSendersServed /\ RespondersVisited /\ AnswersCounted /\ StreamsUpToDate
  /\ StorageNodesHaveTokens /\ LookupExhausted

\* The requests of a lookup are finitely many, and those a lookup could have left
\* behind are gone when another one starts.
LEMMA RequestsCounted ==
  ASSUME RpcInv, NEW t \in Targets, NEW S \in SUBSET inflight
  PROVE  /\ IsFiniteSet(QueriesOf(t, inflight)) /\ Cardinality(QueriesOf(t, inflight)) \in Nat
         /\ IsFiniteSet(QueriesOf(t, S)) /\ Cardinality(QueriesOf(t, S)) \in Nat
         /\ Cardinality(QueriesOf(t, S)) <= Cardinality(QueriesOf(t, inflight))
         /\ t \notin DOMAIN queries => QueriesOf(t, inflight) = {}
  <1>1. QueriesOf(t, inflight) \subseteq Asked(t, Nodes)
    <2> SUFFICES ASSUME NEW r \in QueriesOf(t, inflight) PROVE r \in Asked(t, Nodes)
      OBVIOUS
    <2>1. r \in Requests /\ r.owner = t /\ r.op = "query"
      BY DEF RpcInv, TypeOK, QueriesOf
    <2>2. r \in [owner : Targets, to : Nodes, op : {"query", "ping"}]
      BY <2>1 DEF Requests
    <2>3. r = [owner |-> t, to |-> r.to, op |-> "query"] /\ r.to \in Nodes
      BY <2>1, <2>2
    <2>4. QED
      BY <2>3 DEF Asked
  <1>2. IsFiniteSet(Asked(t, Nodes))
    BY AskedOnce
  <1>3. QueriesOf(t, S) \subseteq QueriesOf(t, inflight)
    BY DEF QueriesOf
  <1>4. t \notin DOMAIN queries => QueriesOf(t, inflight) = {}
    BY DEF QueriesOf, RpcInv, RequestsOwned
  <1>5. IsFiniteSet(QueriesOf(t, inflight))
    BY <1>1, <1>2, FS_Subset
  <1>6. QED
    BY <1>3, <1>4, <1>5, FS_Subset, FS_CardinalityType

\* The parts of a query that its types give.
LEMMA QueryParts ==
  ASSUME RpcInv, NEW t \in DOMAIN queries
  PROVE  /\ t \in Targets /\ queries[t] \in Queries
         /\ queries[t].closest \in SUBSET Entries /\ queries[t].responders \in SUBSET Nodes
         /\ queries[t].visited \in SUBSET Nodes /\ queries[t].responses \in Seq(Values)
         /\ queries[t].recorded \in Nat /\ queries[t].kind \in QueryKinds
         /\ Cardinality(queries[t].visited) \in Nat
  <1>1. t \in Targets /\ queries[t] \in Queries
    BY DEF RpcInv, TypeOK, IsMap
  <1>2. /\ queries[t].closest \in SUBSET Entries /\ queries[t].responders \in SUBSET Nodes
        /\ queries[t].visited \in SUBSET Nodes /\ queries[t].responses \in Seq(Values)
        /\ queries[t].recorded \in Nat /\ queries[t].kind \in QueryKinds
    BY <1>1 DEF Queries
  <1>3. QED
    BY <1>1, <1>2, AskedOnce

\* A step that changes no lookup, no stream and no report.
LEMMA QuietKeeps ==
  ASSUME RpcInv, LookupInv,
         UNCHANGED <<queries, getSenders, got, doneGet, newResponse>>,
         \A r \in inflight' : r.op \in {"query", "ping"} => r \in inflight,
         phase' = "cleanup" => phase = "cleanup", phase = "report" => phase' = "report"
  PROVE  LookupInv'
  <1> USE DEF LookupInv
  <1>1. GetSendersServed' /\ RespondersVisited'
    BY DEF GetSendersServed, RespondersVisited
  <1>2. AnswersCounted'
    <2> SUFFICES ASSUME NEW t \in DOMAIN queries
                 PROVE  queries[t].recorded + Cardinality(QueriesOf(t, inflight'))
                          <= Cardinality(queries[t].visited)
      BY DEF AnswersCounted
    <2>1. QueriesOf(t, inflight') = QueriesOf(t, inflight' \cap inflight)
      BY DEF QueriesOf
    <2>2. /\ Cardinality(QueriesOf(t, inflight)) \in Nat
          /\ Cardinality(QueriesOf(t, inflight')) \in Nat
          /\ Cardinality(QueriesOf(t, inflight')) <= Cardinality(QueriesOf(t, inflight))
      BY <2>1, RequestsCounted, QueryParts
    <2>3. queries[t].recorded + Cardinality(QueriesOf(t, inflight))
            <= Cardinality(queries[t].visited)
      BY DEF AnswersCounted
    <2>4. QED
      BY <2>2, <2>3, QueryParts
  <1>3. StreamsUpToDate'
    <2>1. phase' # "report" => newResponse' = {}
      BY DEF StreamsUpToDate
    <2>2. ASSUME NEW t \in Targets \ DOMAIN doneGet', NEW c \in getSenders'[t]
          PROVE  ReceivedBy(c)' = Taken(GetReq[c].sender, queries'[t].responses)
      <3>1. Live(c)' = Live(c)
        BY DEF Live
      <3>2. ReceivedBy(c)' = ReceivedBy(c)
        BY <3>1 DEF ReceivedBy
      <3>3. QED
        BY <2>2, <3>2 DEF StreamsUpToDate
    <2>3. QED
      BY <2>1, <2>2 DEF StreamsUpToDate
  <1>4. StorageNodesHaveTokens'
    BY DEF StorageNodesHaveTokens
  <1>5. LookupExhausted'
    <2>1. \A t : AnyInflight(t, inflight') => AnyInflight(t, inflight)
      BY DEF AnyInflight
    <2>2. QED
      BY <2>1 DEF LookupExhausted
  <1>6. QED
    BY <1>1, <1>2, <1>3, <1>4, <1>5

\* Rpc::get starts a lookup in which every visited node is in flight, or joins one.
LEMMA JoinOrStartLookup ==
  ASSUME RpcInv, LookupInv, NEW t \in Targets, NEW kind \in QueryKinds, JoinOrStart(t, kind)
  PROVE  /\ DOMAIN queries' = DOMAIN queries \cup {t}
         /\ \A x \in DOMAIN queries : queries'[x] = queries[x]
         /\ t \notin DOMAIN queries => queries'[t].responses = <<>> /\ queries'[t].kind = kind
         /\ RespondersVisited' /\ AnswersCounted'
  <1> USE DEF LookupInv
  <1>1. CASE t \in DOMAIN queries /\ UNCHANGED <<queries, inflight>>
    BY <1>1 DEF RespondersVisited, AnswersCounted
  <1>2. ASSUME t \notin DOMAIN queries, NEW seed \in Seeds, NEW recent \in SUBSET seed,
               NEW q, q = VisitClosest(t, NewQuery(kind, Candidates(t, seed, recent),
                                                   BootstrapVisits(seed))),
               queries' = Put(queries, t, q),
               inflight' = inflight \cup QueryRequests(t, q.visited)
        PROVE  /\ DOMAIN queries' = DOMAIN queries \cup {t}
               /\ \A x \in DOMAIN queries : queries'[x] = queries[x]
               /\ queries'[t].responses = <<>> /\ queries'[t].kind = kind
               /\ RespondersVisited' /\ AnswersCounted'
    <2>1. /\ DOMAIN queries' = DOMAIN queries \cup {t} /\ queries'[t] = q
          /\ \A x \in DOMAIN queries : queries'[x] = queries[x]
      BY <1>2 DEF Put
    <2>2. /\ q.responses = <<>> /\ q.recorded = 0 /\ q.responders = {} /\ q.kind = kind
      BY <1>2 DEF VisitClosest, NewQuery
    <2>3. q.visited \in SUBSET Nodes
      <3>1. IsMap(queries', Targets, Queries)
        BY JoinOrStartKeeps
      <3>2. q \in Queries
        BY <2>1, <3>1 DEF IsMap
      <3>3. QED
        BY <3>2 DEF Queries
    <2>4. RespondersVisited'
      BY <2>1, <2>2 DEF RespondersVisited
    <2>5. ASSUME NEW x \in DOMAIN queries'
          PROVE  queries'[x].recorded + Cardinality(QueriesOf(x, inflight'))
                   <= Cardinality(queries'[x].visited)
      <3>1. CASE x = t
        <4>1. QueriesOf(t, inflight') = Asked(t, q.visited)
          <5>1. QueriesOf(t, inflight) = {}
            BY <1>2, RequestsCounted
          <5>2. QueriesOf(t, QueryRequests(t, q.visited)) = Asked(t, q.visited)
            BY DEF QueriesOf, QueryRequests, Asked
          <5>3. QED
            BY <1>2, <5>1, <5>2 DEF QueriesOf
        <4>2. QED
          BY <2>1, <2>2, <2>3, <3>1, <4>1, AskedOnce
      <3>2. CASE x # t
        <4>1. QueriesOf(x, inflight') = QueriesOf(x, inflight)
          BY <1>2, <3>2 DEF QueriesOf, QueryRequests
        <4>2. QED
          BY <2>1, <3>2, <4>1 DEF AnswersCounted
      <3>3. QED
        BY <3>1, <3>2
    <2>6. AnswersCounted'
      BY <2>5 DEF AnswersCounted
    <2>7. QED
      BY <2>1, <2>2, <2>4, <2>6
  <1>3. QED
    BY <1>1, <1>2 DEF JoinOrStart

\* A lookup that joins the others takes nothing from their streams.
LEMMA StartKeepsLookups ==
  ASSUME RpcInv, LookupInv, NEW t \in Targets, NEW kind \in QueryKinds, JoinOrStart(t, kind),
         UNCHANGED <<getSenders, got, doneGet, newResponse>>,
         phase' # "cleanup", phase # "report"
  PROVE  LookupInv'
  <1> USE DEF LookupInv
  <1>1. /\ DOMAIN queries' = DOMAIN queries \cup {t}
        /\ \A x \in DOMAIN queries : queries'[x] = queries[x]
        /\ RespondersVisited' /\ AnswersCounted'
    BY JoinOrStartLookup
  <1>2. GetSendersServed'
    BY <1>1 DEF GetSendersServed
  <1>3. StreamsUpToDate'
    <2>1. phase' # "report" => newResponse' = {}
      BY DEF StreamsUpToDate
    <2>2. ASSUME NEW x \in Targets \ DOMAIN doneGet', NEW c \in getSenders'[x]
          PROVE  ReceivedBy(c)' = Taken(GetReq[c].sender, queries'[x].responses)
      <3>1. Live(c)' = Live(c)
        BY DEF Live
      <3>2. ReceivedBy(c)' = ReceivedBy(c)
        BY <3>1 DEF ReceivedBy
      <3>3. queries'[x] = queries[x]
        BY <1>1, <2>2 DEF GetSendersServed
      <3>4. QED
        BY <2>2, <3>2, <3>3 DEF StreamsUpToDate
    <2>3. QED
      BY <2>1, <2>2 DEF StreamsUpToDate
  <1>4. StorageNodesHaveTokens' /\ LookupExhausted'
    BY DEF StorageNodesHaveTokens, LookupExhausted
  <1>5. QED
    BY <1>1, <1>2, <1>3, <1>4

\* ActorMessage::Get: the caller is sent what the lookup it joins has seen.
LEMMA RecvGetKeepsLookups ==
  ASSUME RpcInv, LookupInv, NEW c \in GetCalls, RecvGet(c)
  PROVE  LookupInv'
  <1> USE DEF LookupInv
  <1> DEFINE t == GetReq[c].target
  <1>1. /\ phase = "recv" /\ phase' = "put" /\ JoinOrStart(t, GetReq[c].kind)
        /\ got' = [got EXCEPT ![c] = Replay(c)]
        /\ getSenders' = [getSenders EXCEPT ![t] = @ \cup {c}]
        /\ UNCHANGED <<doneGet, newResponse>>
    BY DEF RecvGet, MayCall
  <1>2. t \in Targets /\ GetReq[c].kind \in QueryKinds
    BY RequestTargets
  <1>3. /\ DOMAIN queries' = DOMAIN queries \cup {t}
        /\ \A x \in DOMAIN queries : queries'[x] = queries[x]
        /\ t \notin DOMAIN queries => queries'[t].responses = <<>>
        /\ RespondersVisited' /\ AnswersCounted'
    <2> HIDE DEF t
    <2> QED
      BY <1>1, <1>2, JoinOrStartLookup
  <1>4. /\ getSenders \in [Targets -> SUBSET GetCalls] /\ DOMAIN got = GetCalls
        /\ newResponse = {} /\ DOMAIN doneGet = {}
    BY <1>1 DEF RpcInv, TypeOK, PhaseInv, StreamsUpToDate
  <1>5. GetSendersServed'
    BY <1>1, <1>2, <1>3, <1>4 DEF GetSendersServed
  <1>6. StreamsUpToDate'
    <2>1. newResponse' = {}
      BY <1>1, <1>4
    <2>2. ASSUME NEW x \in Targets \ DOMAIN doneGet', NEW d \in getSenders'[x]
          PROVE  ReceivedBy(d)' = Taken(GetReq[d].sender, queries'[x].responses)
      <3>1. ReceivedBy(d)' = got'[d] /\ ReceivedBy(d) = got[d]
        BY <1>4, <2>1 DEF ReceivedBy, Live
      <3>2. CASE d = c
        <4>1. x = t
          <5>1. x # t => c \in getSenders[x]
            BY <1>1, <1>2, <1>4, <2>2, <3>2
          <5>2. QED
            BY <5>1 DEF RpcInv, SendersInv
        <4>2. got'[d] = Replay(c)
          BY <1>1, <1>4, <3>2
        <4>3. CASE t \in DOMAIN queries
          BY <1>3, <3>1, <3>2, <4>1, <4>2, <4>3 DEF Replay
        <4>4. CASE t \notin DOMAIN queries
          BY <1>3, <3>1, <3>2, <4>1, <4>2, <4>4, TakenOneByOne DEF Replay
        <4>5. QED
          BY <4>3, <4>4
      <3>3. CASE d # c
        <4>1. d \in getSenders[x] /\ got'[d] = got[d]
          BY <1>1, <1>2, <1>4, <2>2, <3>3
        <4>2. x \in DOMAIN queries
          BY <1>1, <1>4, <2>2, <4>1 DEF GetSendersServed
        <4>3. ReceivedBy(d) = Taken(GetReq[d].sender, queries[x].responses)
          BY <1>1, <2>2, <4>1 DEF StreamsUpToDate
        <4>4. QED
          BY <1>3, <3>1, <4>1, <4>2, <4>3
      <3>4. QED
        BY <3>2, <3>3
    <2>3. QED
      BY <2>1, <2>2 DEF StreamsUpToDate
  <1>7. StorageNodesHaveTokens' /\ LookupExhausted'
    BY <1>1 DEF StorageNodesHaveTokens, LookupExhausted
  <1>8. QED
    BY <1>3, <1>5, <1>6, <1>7

\* tick_get_queries: a lookup that ends has visited the K closest candidates it
\* knows, and the nodes it reports answered it.
LEMMA TickGetKeepsLookups ==
  ASSUME RpcInv, LookupInv, RpcInv', TickGet
  PROVE  LookupInv'
  <1> USE DEF LookupInv
  <1> DEFINE done == {t \in DOMAIN queries : QueryDone(t, inflight')}
  <1>1. /\ phase = "get" /\ phase' = "cleanup"
        /\ queries' = [t \in DOMAIN queries |-> VisitClosest(t, queries[t])]
        /\ inflight' = inflight \cup
             UNION {QueryRequests(t, ToVisit(t, queries[t])) : t \in DOMAIN queries}
        /\ UNCHANGED <<getSenders, got, newResponse>>
        /\ newResponse = {}
    BY DEF TickGet, StreamsUpToDate
  <1>2. /\ DOMAIN doneGet' = done
        /\ \A t \in done : doneGet'[t] \in ClosestOf(t, queries[t])
    BY DEF TickGet
  <1>3. DOMAIN doneGet = {}
    BY <1>1 DEF RpcInv, PhaseInv
  <1>4. ASSUME NEW t \in DOMAIN queries
        PROVE  /\ queries'[t].closest = queries[t].closest
               /\ queries'[t].responders = queries[t].responders
               /\ queries'[t].responses = queries[t].responses
               /\ queries'[t].recorded = queries[t].recorded
               /\ queries'[t].kind = queries[t].kind
               /\ queries'[t].visited = queries[t].visited \cup ToVisit(t, queries[t])
               /\ ToVisit(t, queries[t]) \cap queries[t].visited = {}
               /\ ToVisit(t, queries[t]) \in SUBSET Nodes
    <2>1. queries[t] \in Queries
      BY QueryParts
    <2>2. queries'[t] = VisitClosest(t, queries[t])
      BY <1>1
    <2>3. QED
      BY <2>1, <2>2, ToVisitType DEF VisitClosest, Queries, ToVisit
  <1>5. DOMAIN queries' = DOMAIN queries
    BY <1>1
  <1>6. GetSendersServed' /\ RespondersVisited'
    BY <1>1, <1>3, <1>4, <1>5 DEF GetSendersServed, RespondersVisited
  <1>7. AnswersCounted'
    <2> SUFFICES ASSUME NEW t \in DOMAIN queries
                 PROVE  queries'[t].recorded + Cardinality(QueriesOf(t, inflight'))
                          <= Cardinality(queries'[t].visited)
      BY <1>5 DEF AnswersCounted
    <2> DEFINE V == queries[t].visited
               W == ToVisit(t, queries[t])
               Q == QueriesOf(t, inflight)
    <2>1. QueriesOf(t, inflight') = Q \cup Asked(t, W)
      <3>1. \A r \in inflight' : r.owner = t =>
              r \in inflight \/ r \in QueryRequests(t, W)
        BY <1>1 DEF QueryRequests
      <3>2. QueryRequests(t, W) \subseteq inflight'
        BY <1>1
      <3>3. QueriesOf(t, QueryRequests(t, W)) = Asked(t, W)
        BY DEF QueriesOf, QueryRequests, Asked
      <3> HIDE DEF W
      <3>4. QED
        BY <1>1, <3>1, <3>2, <3>3 DEF QueriesOf
    <2>2. /\ V \in SUBSET Nodes /\ W \in SUBSET Nodes /\ W \cap V = {}
          /\ queries'[t].visited = V \cup W /\ queries'[t].recorded = queries[t].recorded
          /\ queries[t].recorded \in Nat
      BY <1>4, QueryParts
    <2>3. /\ IsFiniteSet(Q) /\ Cardinality(Q) \in Nat
          /\ queries[t].recorded + Cardinality(Q) <= Cardinality(V)
      BY RequestsCounted, QueryParts DEF AnswersCounted
    <2> HIDE DEF V, W, Q
    <2>4. /\ IsFiniteSet(V) /\ IsFiniteSet(W) /\ Cardinality(V) \in Nat /\ Cardinality(W) \in Nat
          /\ IsFiniteSet(Asked(t, W)) /\ Cardinality(Asked(t, W)) \in Nat
          /\ Cardinality(Asked(t, W)) <= Cardinality(W)
      BY <2>2, AskedOnce
    <2>5. Cardinality(V \cup W) = Cardinality(V) + Cardinality(W)
      <3>0. V \cap W = {}
        BY <2>2
      <3>1. Cardinality(V \cap W) = 0
        BY <3>0, FS_EmptySet, Zenon
      <3>2. Cardinality(V \cup W) = Cardinality(V) + Cardinality(W) - Cardinality(V \cap W)
        BY <2>4, FS_Union
      <3>3. QED
        BY <2>4, <3>1, <3>2
    <2>6. /\ Cardinality(Q \cup Asked(t, W)) \in Nat
          /\ Cardinality(Q \cup Asked(t, W)) <= Cardinality(Q) + Cardinality(Asked(t, W))
      <3>1. Cardinality(Q \cap Asked(t, W)) \in Nat
        BY <2>3, FS_Intersection, FS_CardinalityType
      <3>2. IsFiniteSet(Q \cup Asked(t, W)) /\ Cardinality(Q \cup Asked(t, W))
              = Cardinality(Q) + Cardinality(Asked(t, W)) - Cardinality(Q \cap Asked(t, W))
        BY <2>3, <2>4, FS_Union
      <3>3. Cardinality(Q \cup Asked(t, W)) \in Nat
        BY <3>2, FS_CardinalityType
      <3>4. QED
        BY <2>3, <2>4, <3>1, <3>2, <3>3
    <2>7. QED
      BY <2>1, <2>2, <2>3, <2>4, <2>5, <2>6
  <1>8. StreamsUpToDate'
    <2>1. ASSUME NEW t \in Targets \ DOMAIN doneGet', NEW c \in getSenders'[t]
          PROVE  ReceivedBy(c)' = Taken(GetReq[c].sender, queries'[t].responses)
      <3>1. ReceivedBy(c)' = got'[c] /\ ReceivedBy(c) = got[c]
        BY <1>1 DEF ReceivedBy, Live
      <3>2. t \in DOMAIN queries /\ c \in getSenders[t]
        BY <1>1, <1>3, <2>1 DEF GetSendersServed
      <3>3. ReceivedBy(c) = Taken(GetReq[c].sender, queries[t].responses)
        BY <1>3, <2>1, <3>2 DEF StreamsUpToDate
      <3>4. QED
        BY <1>1, <1>4, <3>1, <3>2, <3>3
    <2>2. QED
      BY <1>1, <2>1 DEF StreamsUpToDate
  <1>9. StorageNodesHaveTokens'
    <2> SUFFICES ASSUME NEW t \in done, queries'[t].kind # "FindNode", NEW e \in doneGet'[t]
                 PROVE  e.token /\ e.node \in queries'[t].visited
      BY <1>2 DEF StorageNodesHaveTokens
    <2>1. doneGet'[t] \in TakeUntilSecure(t, Responding(queries[t].responders))
      BY <1>2, <1>4 DEF ClosestOf
    <2>2. e \in Responding(queries[t].responders)
      BY <2>1 DEF TakeUntilSecure
    <2>3. e.token /\ e.node \in queries[t].responders
      BY <2>2 DEF Responding
    <2>4. QED
      BY <1>4, <2>3 DEF RespondersVisited
  <1>10. LookupExhausted'
    <2> SUFFICES ASSUME NEW t \in done, NEW e \in queries'[t].closest,
                        e.node \notin queries'[t].visited
                 PROVE  Cardinality({f \in queries'[t].closest :
                          Distance[t][f.node] < Distance[t][e.node]}) >= MaxBucketSizeK
      BY <1>1, <1>2 DEF LookupExhausted, QueryDone
    <2> DEFINE es == queries[t].closest
    <2>1. e \in es /\ es \in SUBSET Entries /\ queries'[t].closest = es
      BY <1>4, QueryParts
    <2>2. e \notin TakeK(t, es)
      BY <1>4, <2>1 DEF ToVisit, NodesOf
    <2>3. CloserThan(t, es, e) \in SUBSET Entries
      BY <2>1 DEF CloserThan
    <2>4. Cardinality(CloserThan(t, es, e)) \in Nat
      BY <2>3, EntriesFinite
    <2>5. Cardinality(CloserThan(t, es, e)) >= MaxBucketSizeK
      BY <2>1, <2>2, <2>4, KAssumption DEF TakeK
    <2>6. QED
      BY <2>1, <2>5 DEF CloserThan
  <1>11. QED
    BY <1>6, <1>7, <1>8, <1>9, <1>10

\* cleanup_done_queries removes lookups whose requests are all gone.
LEMMA CleanupKeepsLookups ==
  ASSUME RpcInv, LookupInv, RpcInv', Cleanup
  PROVE  LookupInv'
  <1> USE DEF LookupInv
  <1>1. /\ phase = "cleanup" /\ phase' = "maintain"
        /\ queries' = Without(queries, DOMAIN doneGet)
        /\ UNCHANGED <<getSenders, got, doneGet, newResponse>>
        /\ newResponse = {}
    BY DEF Cleanup, StreamsUpToDate
  <1>2. /\ DOMAIN queries' = DOMAIN queries \ DOMAIN doneGet
        /\ \A t \in DOMAIN queries' : queries'[t] = queries[t]
    BY <1>1 DEF Without
  <1>3. \A r \in inflight' : r.op \in {"query", "ping"} => r \in inflight
    <2>1. \A t \in PutsToStart \ PutsWithoutNodes :
            \A r \in StartRequests(puts[t].owner, doneGet[t]) : r.op \in {"put", "extra"}
      BY DEF StartRequests
    <2>2. inflight' = inflight \cup
            UNION {StartRequests(puts[t].owner, doneGet[t]) : t \in PutsToStart \ PutsWithoutNodes}
      BY DEF Cleanup
    <2>3. QED
      BY <2>1, <2>2
  <1>4. GetSendersServed' /\ RespondersVisited'
    BY <1>1, <1>2 DEF GetSendersServed, RespondersVisited
  <1>5. AnswersCounted'
    <2> SUFFICES ASSUME NEW t \in DOMAIN queries'
                 PROVE  queries'[t].recorded + Cardinality(QueriesOf(t, inflight'))
                          <= Cardinality(queries'[t].visited)
      BY DEF AnswersCounted
    <2>1. QueriesOf(t, inflight') = QueriesOf(t, inflight' \cap inflight) /\ t \in DOMAIN queries
      BY <1>2, <1>3 DEF QueriesOf
    <2>2. /\ Cardinality(QueriesOf(t, inflight)) \in Nat
          /\ Cardinality(QueriesOf(t, inflight')) \in Nat
          /\ Cardinality(QueriesOf(t, inflight')) <= Cardinality(QueriesOf(t, inflight))
      BY <2>1, RequestsCounted, QueryParts
    <2>3. queries[t].recorded + Cardinality(QueriesOf(t, inflight))
            <= Cardinality(queries[t].visited)
      BY <2>1 DEF AnswersCounted
    <2>4. QED
      BY <1>2, <2>1, <2>2, <2>3, QueryParts
  <1>6. StreamsUpToDate'
    <2>1. ASSUME NEW t \in Targets \ DOMAIN doneGet', NEW c \in getSenders'[t]
          PROVE  ReceivedBy(c)' = Taken(GetReq[c].sender, queries'[t].responses)
      <3>1. ReceivedBy(c)' = got'[c] /\ ReceivedBy(c) = got[c]
        BY <1>1 DEF ReceivedBy, Live
      <3>2. t \in DOMAIN queries' /\ c \in getSenders[t]
        BY <1>1, <1>2, <2>1 DEF GetSendersServed
      <3>3. ReceivedBy(c) = Taken(GetReq[c].sender, queries[t].responses)
        BY <1>1, <2>1, <3>2 DEF StreamsUpToDate
      <3>4. QED
        BY <1>1, <1>2, <3>1, <3>2, <3>3
    <2>2. QED
      BY <1>1, <2>1 DEF StreamsUpToDate
  <1>7. StorageNodesHaveTokens' /\ LookupExhausted'
    BY <1>1 DEF StorageNodesHaveTokens, LookupExhausted
  <1>8. QED
    BY <1>4, <1>5, <1>6, <1>7

\* An answer is counted as its request leaves the socket; a value it brings goes
\* into the stream and into the report.
LEMMA AnswerKeepsLookups ==
  ASSUME RpcInv, LookupInv, NEW r \in inflight, NEW o \in DOMAIN queries, r.owner = o,
         NEW q \in Queries, queries' = [queries EXCEPT ![o] = q],
         inflight' = inflight \ {r}, phase = "message", phase' = "report", UNCHANGED Unaffected,
         q.visited = queries[o].visited, q.responders \subseteq q.visited,
         q.recorded = queries[o].recorded \/ (r.op = "query" /\ q.recorded = queries[o].recorded + 1),
         \/ q.responses = queries[o].responses /\ newResponse' = {}
         \/ \E v \in Values : /\ q.responses = Append(queries[o].responses, v)
                              /\ newResponse' = {<<o, v>>}
  PROVE  LookupInv'
  <1> USE DEF LookupInv
  <1>1. UNCHANGED <<getSenders, got, doneGet>>
    BY DEF Unaffected
  <1>2. /\ DOMAIN queries' = DOMAIN queries /\ queries'[o] = q
        /\ \A t \in DOMAIN queries : t # o => queries'[t] = queries[t]
    BY DEF RpcInv, TypeOK, IsMap
  <1>3. GetSendersServed' /\ RespondersVisited'
    BY <1>1, <1>2 DEF GetSendersServed, RespondersVisited
  <1>4. AnswersCounted'
    <2> SUFFICES ASSUME NEW t \in DOMAIN queries
                 PROVE  queries'[t].recorded + Cardinality(QueriesOf(t, inflight'))
                          <= Cardinality(queries'[t].visited)
      BY <1>2 DEF AnswersCounted
    <2>1. /\ IsFiniteSet(QueriesOf(t, inflight))
          /\ Cardinality(QueriesOf(t, inflight)) \in Nat /\ Cardinality(QueriesOf(t, inflight')) \in Nat
          /\ Cardinality(QueriesOf(t, inflight')) <= Cardinality(QueriesOf(t, inflight))
          /\ queries[t].recorded \in Nat /\ Cardinality(queries[t].visited) \in Nat
      BY RequestsCounted, QueryParts
    <2>2. queries[t].recorded + Cardinality(QueriesOf(t, inflight))
            <= Cardinality(queries[t].visited)
      BY DEF AnswersCounted
    <2>3. CASE queries'[t].recorded = queries[t].recorded
      BY <1>2, <2>1, <2>2, <2>3
    <2>4. CASE queries'[t].recorded # queries[t].recorded
      <3>1. t = o /\ r.op = "query" /\ q.recorded = queries[o].recorded + 1
        BY <1>2, <2>4
      <3>2. r \in QueriesOf(t, inflight) /\ QueriesOf(t, inflight') = QueriesOf(t, inflight) \ {r}
        BY <3>1 DEF QueriesOf
      <3>3. Cardinality(QueriesOf(t, inflight')) = Cardinality(QueriesOf(t, inflight)) - 1
        <4> DEFINE S == QueriesOf(t, inflight)
        <4>1. IsFiniteSet(S) /\ r \in S
          BY <2>1, <3>2
        <4> HIDE DEF S
        <4>2. Cardinality(S \ {r}) = Cardinality(S) - 1
          BY <4>1, FS_RemoveElement
        <4>3. QED
          BY <3>2, <4>2 DEF S
      <3>4. QED
        BY <1>2, <2>1, <2>2, <3>1, <3>3
    <2>5. QED
      BY <2>3, <2>4
  <1>5. StreamsUpToDate'
    <2>1. ASSUME NEW t \in Targets \ DOMAIN doneGet', NEW c \in getSenders'[t]
          PROVE  ReceivedBy(c)' = Taken(GetReq[c].sender, queries'[t].responses)
      <3>1. t \in DOMAIN queries /\ c \in getSenders[t] /\ GetReq[c].target = t
        BY <1>1, <2>1 DEF GetSendersServed, RpcInv, SendersInv
      <3>2. got[c] = Taken(GetReq[c].sender, queries[t].responses)
        <4>1. ReceivedBy(c) = Taken(GetReq[c].sender, queries[t].responses)
          BY <1>1, <2>1, <3>1 DEF StreamsUpToDate
        <4>2. ReceivedBy(c) = got[c]
          BY DEF ReceivedBy, Live, StreamsUpToDate
        <4>3. QED
          BY <4>1, <4>2
      <3>3. CASE t # o \/ newResponse' = {}
        <4>1. queries'[t].responses = queries[t].responses
          BY <1>2, <3>1, <3>3
        <4>2. Live(c)' = {}
          BY <3>1, <3>3 DEF Live
        <4>3. ReceivedBy(c)' = got[c]
          BY <1>1, <4>2 DEF ReceivedBy
        <4>4. QED
          BY <3>2, <4>1, <4>3
      <3>4. ASSUME t = o, NEW v \in Values, q.responses = Append(queries[o].responses, v),
                   newResponse' = {<<o, v>>}
            PROVE  ReceivedBy(c)' = Taken(GetReq[c].sender, queries'[t].responses)
        <4>1. Live(c)' = IF Accepts(GetReq[c].sender, v) THEN {v} ELSE {}
          BY <1>1, <3>1, <3>4 DEF Live
        <4>2. (CHOOSE x \in {v} : TRUE) = v
          OBVIOUS
        <4>3. ReceivedBy(c)' = TakeOne(GetReq[c].sender, got[c], v)
          BY <1>1, <4>1, <4>2 DEF ReceivedBy, TakeOne
        <4>4. queries[t].responses \in Seq(Values)
          BY <3>1, QueryParts
        <4>5. Taken(GetReq[c].sender, queries'[t].responses) = TakeOne(GetReq[c].sender, got[c], v)
          <5>1. \A s \in Seq(Values) : Taken(GetReq[c].sender, Append(s, v))
                                       = TakeOne(GetReq[c].sender, Taken(GetReq[c].sender, s), v)
            BY TakenOneByOne
          <5>2. queries'[t].responses = Append(queries[t].responses, v)
            BY <1>2, <3>4
          <5>3. QED
            BY <3>2, <4>4, <5>1, <5>2
        <4>6. QED
          BY <4>3, <4>5
      <3>5. QED
        BY <3>3, <3>4
    <2>2. QED
      BY <2>1 DEF StreamsUpToDate
  <1>6. StorageNodesHaveTokens' /\ LookupExhausted'
    BY DEF StorageNodesHaveTokens, LookupExhausted
  <1>7. QED
    BY <1>3, <1>4, <1>5, <1>6

\* handle_message: an answer that belongs to a lookup, and one that does not.
LEMMA HandleMessageKeepsLookups ==
  ASSUME RpcInv, LookupInv, HandleMessage
  PROVE  LookupInv'
  <1>1. CASE NoMessage
    BY <1>1, QuietKeeps DEF NoMessage, Unaffected
  <1>2. CASE OwnPing
    <2>1. PICK t \in SelfTargets : JoinOrStart(t, "FindNode")
      BY <1>2 DEF OwnPing
    <2>2. t \in Targets /\ "FindNode" \in QueryKinds
      BY RpcAssumption DEF QueryKinds
    <2>3. /\ UNCHANGED <<getSenders, got, doneGet, newResponse>>
          /\ phase' # "cleanup" /\ phase # "report"
      BY <1>2 DEF OwnPing, Unaffected
    <2>4. QED
      BY <2>1, <2>2, <2>3, StartKeepsLookups
  <1>3. ASSUME NEW r \in inflight, PutAck(r) \/ PutRejected(r) \/ AnswerIgnored(r)
        PROVE  LookupInv'
    <2>1. UNCHANGED <<queries, getSenders, got, doneGet, newResponse>> /\ inflight' \subseteq inflight
          /\ phase = "message" /\ phase' = "report"
      BY <1>3 DEF PutAck, PutRejected, AnswerIgnored, Answered, Unaffected
    <2>2. QED
      BY <2>1, QuietKeeps
  <1>4. ASSUME NEW r \in inflight, ReadOnlyAnswer(r)
        PROVE  LookupInv'
    <2>1. /\ inflight' = inflight \ {r} /\ phase = "message" /\ phase' = "report"
          /\ UNCHANGED Unaffected /\ UNCHANGED newResponse /\ newResponse = {}
      BY <1>4 DEF ReadOnlyAnswer, Answered, Unaffected, LookupInv, StreamsUpToDate
    <2>2. CASE OfQuery(r) /\ r.op = "query"
      <3> DEFINE o == r.owner
                 q == [queries[o] EXCEPT !.recorded = @ + 1]
      <3>1. o \in DOMAIN queries /\ queries' = [queries EXCEPT ![o] = q]
        BY <1>4, <2>2 DEF ReadOnlyAnswer, OfQuery
      <3>2. queries[o] \in Queries /\ queries[o].responders \subseteq queries[o].visited
        BY <3>1, QueryParts DEF LookupInv, RespondersVisited
      <3>3. /\ q \in Queries /\ q.visited = queries[o].visited /\ q.responders \subseteq q.visited
            /\ q.recorded = queries[o].recorded + 1 /\ q.responses = queries[o].responses
        BY <3>2 DEF Queries
      <3> HIDE DEF q
      <3>4. QED
        BY <2>1, <2>2, <3>1, <3>3, AnswerKeepsLookups
    <2>3. CASE ~ (OfQuery(r) /\ r.op = "query")
      <3>1. queries' = queries
        BY <1>4, <2>3 DEF ReadOnlyAnswer
      <3>2. QED
        BY <2>1, <3>1, QuietKeeps DEF Unaffected
    <2>4. QED
      BY <2>2, <2>3
  <1>5. ASSUME NEW r \in inflight, QueryAnswer(r)
        PROVE  LookupInv'
    <2> DEFINE o == r.owner
    <2>1. /\ inflight' = inflight \ {r} /\ phase = "message" /\ phase' = "report"
          /\ UNCHANGED Unaffected /\ o \in DOMAIN queries /\ r.op \in {"query", "ping"}
      BY <1>5 DEF QueryAnswer, Answered, OfQuery
    <2>2. PICK body \in Bodies, nodes \in SUBSET Nodes :
            /\ queries' = [queries EXCEPT ![o] = Hear(@, r, body, nodes)]
            /\ newResponse' = IF body \in Values THEN {<<o, body>>} ELSE {}
      <3>1. PICK body \in Bodies : \E nodes \in (IF body = "bare" THEN {{}} ELSE SUBSET Nodes) :
              /\ queries' = [queries EXCEPT ![o] = Hear(@, r, body, nodes)]
              /\ newResponse' = IF body \in Values THEN {<<o, body>>} ELSE {}
        BY <1>5 DEF QueryAnswer
      <3>2. (IF body = "bare" THEN {{}} ELSE SUBSET Nodes) \subseteq SUBSET Nodes
        OBVIOUS
      <3>3. QED
        BY <3>1, <3>2
    <2> DEFINE q == Hear(queries[o], r, body, nodes)
    <2>3. /\ queries[o] \in Queries /\ queries[o].responders \subseteq queries[o].visited
          /\ r.to \in Nodes /\ r.to \in queries[o].visited
      <3>1. r.to \in Nodes
        BY DEF RpcInv, TypeOK, Requests
      <3>2. QED
        BY <2>1, <3>1, QueryParts DEF LookupInv, RespondersVisited, RpcInv, RequestsOwned
    <2>4. q \in Queries /\ q.visited = queries[o].visited
      BY <2>3, HearType
    <2>5. /\ q.responders \subseteq q.visited
          /\ q.recorded = queries[o].recorded
                \/ (r.op = "query" /\ q.recorded = queries[o].recorded + 1)
          /\ body \in Values => q.responses = Append(queries[o].responses, body)
          /\ body \notin Values => q.responses = queries[o].responses
      BY <2>3, <2>4 DEF Hear, Queries
    <2>6. queries' = [queries EXCEPT ![o] = q]
      BY <2>2
    <2> HIDE DEF q
    <2>7. QED
      BY <2>1, <2>2, <2>4, <2>5, <2>6, AnswerKeepsLookups
  <1>6. QED
    BY <1>1, <1>2, <1>3, <1>4, <1>5 DEF HandleMessage

\* The report gives every caller the value of this turn, and lets those go
\* whose lookup is done.
LEMMA ReportKeepsLookups ==
  ASSUME RpcInv, LookupInv, Report
  PROVE  LookupInv'
  <1> USE DEF LookupInv
  <1>1. /\ phase = "report" /\ phase' = "recv" /\ newResponse' = {} /\ doneGet' = Empty
        /\ got' = [c \in GetCalls |-> ReceivedBy(c)]
        /\ getSenders' = [t \in Targets |-> IF t \in DOMAIN doneGet THEN {} ELSE getSenders[t]]
        /\ UNCHANGED <<queries, inflight>>
    BY DEF Report, ReceivedBy
  <1>2. GetSendersServed' /\ RespondersVisited' /\ AnswersCounted'
    BY <1>1 DEF GetSendersServed, RespondersVisited, AnswersCounted
  <1>3. StreamsUpToDate'
    <2>1. ASSUME NEW t \in Targets \ DOMAIN doneGet', NEW c \in getSenders'[t]
          PROVE  ReceivedBy(c)' = Taken(GetReq[c].sender, queries'[t].responses)
      <3>1. ReceivedBy(c)' = got'[c]
        BY <1>1 DEF ReceivedBy, Live
      <3>2. t \in Targets \ DOMAIN doneGet /\ c \in getSenders[t]
        BY <1>1, <2>1
      <3>3. c \in GetCalls
        BY <3>2 DEF RpcInv, TypeOK
      <3>4. ReceivedBy(c) = Taken(GetReq[c].sender, queries[t].responses)
        BY <3>2 DEF StreamsUpToDate
      <3>5. QED
        BY <1>1, <3>1, <3>3, <3>4
    <2>2. QED
      BY <1>1, <2>1 DEF StreamsUpToDate
  <1>4. StorageNodesHaveTokens' /\ LookupExhausted'
    BY <1>1 DEF StorageNodesHaveTokens, LookupExhausted
  <1>5. QED
    BY <1>2, <1>3, <1>4

\* Every step of the loop and of the clock keeps LookupInv.
LEMMA LookupInvStep == RpcInv /\ LookupInv /\ [Next]_vars => LookupInv'
  <1> SUFFICES ASSUME RpcInv, LookupInv, [Next]_vars PROVE LookupInv'
    OBVIOUS
  <1>0. RpcInv'
    BY RpcInvStep
  <1>1. CASE Recv
    <2>1. CASE RecvNothing
      BY <2>1, QuietKeeps DEF RecvNothing
    <2>2. ASSUME NEW c \in GetCalls, RecvGet(c) PROVE LookupInv'
      BY <2>2, RecvGetKeepsLookups
    <2>3. ASSUME NEW c \in PutCalls, RecvPutRefused(c) \/ RecvPutJoin(c) PROVE LookupInv'
      BY <2>3, QuietKeeps DEF RecvPutRefused, RecvPutJoin, AwaitPut, MayCall
    <2>4. ASSUME NEW c \in PutCalls, RecvPutFromCache(c) PROVE LookupInv'
      <3>1. \A r \in Start(NewPut(c), cached[PutReq[c].target]).sent : r.op \in {"put", "extra"}
        BY DEF Start, NewPut, StartRequests
      <3>2. \A r \in inflight' : r.op \in {"query", "ping"} => r \in inflight
        BY <2>4, <3>1 DEF RecvPutFromCache
      <3>3. /\ UNCHANGED <<queries, getSenders, got, doneGet, newResponse>>
            /\ phase = "recv" /\ phase' = "put"
        BY <2>4 DEF RecvPutFromCache, AwaitPut, MayCall
      <3>4. QED
        BY <3>2, <3>3, QuietKeeps
    <2>5. ASSUME NEW c \in PutCalls, RecvPutWithLookup(c) PROVE LookupInv'
      <3>1. /\ JoinOrStart(PutReq[c].target, "GetValue") /\ phase = "recv" /\ phase' = "put"
            /\ UNCHANGED <<getSenders, got, doneGet, newResponse>>
        BY <2>5 DEF RecvPutWithLookup, AwaitPut, MayCall
      <3>2. PutReq[c].target \in Targets /\ "GetValue" \in QueryKinds
        BY RequestTargets DEF QueryKinds
      <3>3. QED
        BY <3>1, <3>2, StartKeepsLookups
    <2>6. QED
      BY <1>1, <2>1, <2>2, <2>3, <2>4, <2>5 DEF Recv
  <1>2. CASE TickPut
    BY <1>2, QuietKeeps DEF TickPut
  <1>3. CASE TickGet \/ Cleanup
    BY <1>0, <1>3, TickGetKeepsLookups, CleanupKeepsLookups
  <1>4. CASE Maintain
    <2>1. /\ phase = "maintain" /\ phase' = "message"
          /\ UNCHANGED <<getSenders, got, doneGet, newResponse>>
      BY <1>4 DEF Maintain
    <2>2. CASE UNCHANGED <<queries, inflight>>
      BY <2>1, <2>2, QuietKeeps
    <2>3. CASE \E t \in SelfTargets : JoinOrStart(t, "FindNode")
      <3>1. PICK t \in SelfTargets : JoinOrStart(t, "FindNode")
        BY <2>3
      <3>2. t \in Targets /\ "FindNode" \in QueryKinds
        BY RpcAssumption DEF QueryKinds
      <3>3. QED
        BY <2>1, <3>1, <3>2, StartKeepsLookups
    <2>4. QED
      BY <1>4, <2>2, <2>3 DEF Maintain
  <1>5. CASE HandleMessage
    BY <1>5, HandleMessageKeepsLookups
  <1>6. CASE Report
    BY <1>6, ReportKeepsLookups
  <1>7. CASE (\E r \in Requests : Expire(r)) \/ CacheAges
    <2>1. inflight' \subseteq inflight /\ UNCHANGED <<phase, queries, getSenders, got, doneGet, newResponse>>
      BY <1>7 DEF Expire, CacheAges
    <2>2. QED
      BY <2>1, QuietKeeps
  <1>8. CASE UNCHANGED vars
    BY <1>8, QuietKeeps DEF vars
  <1>9. QED
    BY <1>1, <1>2, <1>3, <1>4, <1>5, <1>6, <1>7, <1>8 DEF Next, Loop

\* LookupInv is an invariant of the query engine.
LEMMA LookupInvHolds == Spec => [](RpcInv /\ LookupInv)
  <1>1. Init => LookupInv
    <2> SUFFICES ASSUME Init PROVE LookupInv
      OBVIOUS
    <2>1. DOMAIN queries = {} /\ DOMAIN doneGet = {}
      BY EmptyIsMap DEF Init
    <2>2. QED
      BY <2>1 DEF Init, LookupInv, GetSendersServed, RespondersVisited, AnswersCounted,
            StreamsUpToDate, StorageNodesHaveTokens, LookupExhausted
  <1>2. QED
    BY <1>1, RpcInvInit, RpcInvStep, LookupInvStep, PTL DEF Spec

\* A lookup that IterativeQuery::tick calls done has asked every candidate that
\* is among the K closest it heard of, and waits for none of them.
THEOREM LookupsRunToTheEnd == Spec => []LookupExhausted
  BY LookupInvHolds, PTL DEF LookupInv

\* The nodes a value lookup hands to a put all answered it with a token.
THEOREM StorageNodesGaveTokens == Spec => []StorageNodesHaveTokens
  BY LookupInvHolds, PTL DEF LookupInv

\* GetMutableOutcome counts a node at most once: as an answer or in flight.
THEOREM NodesCountedOnce == Spec => []OutcomeCountsNodes
  <1>1. LookupInv => OutcomeCountsNodes
    BY DEF LookupInv, AnswersCounted, OutcomeCountsNodes, QueriesOf
  <1>2. QED
    BY <1>1, LookupInvHolds, PTL

\* Whenever a call joins its lookup, it receives every value of it that its
\* sender takes, once and in order.
THEOREM ValuesDeliveredOnce == Spec => []EachValueDeliveredOnce
  <1>1. RpcInv /\ LookupInv => EachValueDeliveredOnce
    <2> SUFFICES ASSUME RpcInv, LookupInv, phase = "recv", NEW t \in Targets, NEW c \in getSenders[t]
                 PROVE  got[c] = Taken(GetReq[c].sender, queries[t].responses)
      BY DEF EachValueDeliveredOnce
    <2>1. DOMAIN doneGet = {} /\ newResponse = {}
      BY DEF RpcInv, PhaseInv, LookupInv, StreamsUpToDate
    <2>2. ReceivedBy(c) = got[c]
      BY <2>1 DEF ReceivedBy, Live
    <2>3. QED
      BY <2>1, <2>2 DEF LookupInv, StreamsUpToDate
  <1>2. QED
    BY <1>1, LookupInvHolds, PTL

-----------------------------------------------------------------------------
(* PutQuery::errors *)

ErrorCounts == [code : Codes, count : Nat]

\* The most frequent errors come first, and each code is listed once.
GoodErrors(e) ==
  /\ \A i \in DOMAIN e : e[i].count >= 1
  /\ \A i, j \in DOMAIN e : i < j => e[i].count >= e[j].count
  /\ \A i, j \in DOMAIN e : e[i].code = e[j].code => i = j

\* How many nodes answered with a code.
CountOf(e, code) ==
  IF \E i \in DOMAIN e : e[i].code = code
  THEN e[CHOOSE i \in DOMAIN e : e[i].code = code].count ELSE 0

ErrorTotal(e) == CountOf(e, 203) + CountOf(e, 301) + CountOf(e, 302)

\* An entry is a code with its count.
LEMMA ErrorEntry ==
  ASSUME NEW e \in Seq(ErrorCounts), NEW i \in DOMAIN e
  PROVE  e[i] \in ErrorCounts /\ e[i].count \in Nat /\ e[i].code \in Codes
  <1>1. e[i] \in ErrorCounts
    <2>1. e \in [1 .. Len(e) -> ErrorCounts]
      OBVIOUS
    <2>2. QED
      BY <2>1
  <1>2. QED
    BY <1>1 DEF ErrorCounts

\* CountOf reads the one entry of a code.
LEMMA CountOfIs ==
  ASSUME NEW e \in Seq(ErrorCounts), GoodErrors(e), NEW code
  PROVE  /\ \A i \in DOMAIN e : e[i].code = code => CountOf(e, code) = e[i].count
         /\ (\A i \in DOMAIN e : e[i].code # code) => CountOf(e, code) = 0
         /\ CountOf(e, code) \in Nat
  <1>1. \A i \in DOMAIN e : e[i] \in ErrorCounts /\ e[i].count \in Nat
    BY ErrorEntry
  <1>2. ASSUME NEW i \in DOMAIN e, e[i].code = code
        PROVE  CountOf(e, code) = e[i].count
    <2>1. (CHOOSE j \in DOMAIN e : e[j].code = code) = i
      BY <1>2 DEF GoodErrors
    <2>2. QED
      BY <1>2, <2>1 DEF CountOf
  <1>3. (\A i \in DOMAIN e : e[i].code # code) => CountOf(e, code) = 0
    BY DEF CountOf
  <1>4. QED
    BY <1>1, <1>2, <1>3

\* The first error of a code goes to the end, where it belongs.
LEMMA AppendErrorIs ==
  ASSUME NEW e \in Seq(ErrorCounts), GoodErrors(e), NEW code \in Codes,
         \A i \in DOMAIN e : e[i].code # code
  PROVE  LET f == Append(e, [code |-> code, count |-> 1])
         IN  /\ f \in Seq(ErrorCounts) /\ GoodErrors(f) /\ Len(f) = Len(e) + 1
             /\ \A c \in Codes : CountOf(f, c) = CountOf(e, c) + (IF c = code THEN 1 ELSE 0)
  <1> DEFINE x == [code |-> code, count |-> 1]
             f == Append(e, x)
  <1>1. PICK n \in Nat : n = Len(e) /\ DOMAIN e = 1 .. n
    <2>1. Len(e) \in Nat /\ DOMAIN e = 1 .. Len(e)
      OBVIOUS
    <2>2. QED
      BY <2>1
  <1>2. x \in ErrorCounts /\ x.code = code /\ x.count = 1
    BY DEF ErrorCounts
  <1>3. /\ f \in Seq(ErrorCounts) /\ Len(f) = n + 1 /\ DOMAIN f = 1 .. (n + 1)
        /\ f[n + 1] = x /\ \A i \in 1 .. n : f[i] = e[i]
    BY <1>1, <1>2
  <1>4. \A i \in 1 .. (n + 1) : i \in 1 .. n \/ i = n + 1
    OBVIOUS
  <1>5. \A i \in 1 .. n : e[i] \in ErrorCounts /\ e[i].count \in Nat
    BY <1>1, ErrorEntry
  <1> HIDE DEF f, x
  <1>6. GoodErrors(f)
    <2>1. \A i \in DOMAIN f : f[i].count >= 1
      BY <1>1, <1>2, <1>3, <1>4 DEF GoodErrors
    <2>2. \A i, j \in DOMAIN f : i < j => f[i].count >= f[j].count
      <3> SUFFICES ASSUME NEW i \in 1 .. (n + 1), NEW j \in 1 .. (n + 1), i < j
                   PROVE  f[i].count >= f[j].count
        BY <1>3
      <3>1. i \in 1 .. n
        OBVIOUS
      <3>2. CASE j \in 1 .. n
        BY <1>1, <1>3, <3>1, <3>2 DEF GoodErrors
      <3>3. CASE j = n + 1
        BY <1>1, <1>2, <1>3, <3>1, <3>3 DEF GoodErrors
      <3>4. QED
        BY <1>4, <3>2, <3>3
    <2>3. \A i, j \in DOMAIN f : f[i].code = f[j].code => i = j
      BY <1>1, <1>2, <1>3, <1>4 DEF GoodErrors
    <2>4. QED
      BY <2>1, <2>2, <2>3 DEF GoodErrors
  <1>7. ASSUME NEW c \in Codes
        PROVE  CountOf(f, c) = CountOf(e, c) + (IF c = code THEN 1 ELSE 0)
    <2>1. CASE c = code
      <3>1. CountOf(f, c) = 1
        <4>1. n + 1 \in DOMAIN f /\ f[n + 1].code = c
          BY <1>2, <1>3, <2>1
        <4>2. QED
          BY <1>2, <1>3, <1>6, <4>1, CountOfIs
      <3>2. CountOf(e, c) = 0
        BY <2>1, CountOfIs
      <3>3. QED
        BY <2>1, <3>1, <3>2
    <2>2. CASE c # code
      <3>1. CountOf(e, c) \in Nat
        BY CountOfIs
      <3>2. CASE \E i \in DOMAIN e : e[i].code = c
        <4>1. PICK i \in DOMAIN e : e[i].code = c
          BY <3>2
        <4>2. i \in DOMAIN f /\ f[i] = e[i]
          BY <1>1, <1>3, <4>1
        <4>3. CountOf(e, c) = e[i].count /\ CountOf(f, c) = e[i].count
          BY <1>3, <1>6, <4>1, <4>2, CountOfIs
        <4>4. QED
          BY <2>2, <3>1, <4>3
      <3>3. CASE \A i \in DOMAIN e : e[i].code # c
        <4>1. \A i \in DOMAIN f : f[i].code # c
          BY <1>1, <1>2, <1>3, <1>4, <2>2, <3>3
        <4>2. CountOf(e, c) = 0 /\ CountOf(f, c) = 0
          BY <1>3, <1>6, <3>3, <4>1, CountOfIs
        <4>3. QED
          BY <2>2, <4>2
      <3>4. QED
        BY <3>2, <3>3
    <2>3. QED
      BY <2>1, <2>2
  <1>8. QED
    BY <1>1, <1>3, <1>6, <1>7 DEF f, x

\* An error that is counted once more moves in front of the less frequent ones.
LEMMA CountAndMoveIs ==
  ASSUME NEW e \in Seq(ErrorCounts), GoodErrors(e), NEW pos \in DOMAIN e
  PROVE  LET f == CountAndMove(e, pos)
         IN  /\ f \in Seq(ErrorCounts) /\ GoodErrors(f) /\ Len(f) = Len(e)
             /\ \A c \in Codes :
                  CountOf(f, c) = CountOf(e, c) + (IF c = e[pos].code THEN 1 ELSE 0)
  <1> DEFINE counted == [e[pos] EXCEPT !.count = @ + 1]
             Here(i) == /\ \A k \in i..(pos - 1) : e[k].count < counted.count
                        /\ i = 1 \/ e[i - 1].count >= counted.count
             first == CHOOSE i \in 1..pos : Here(i)
             f == CountAndMove(e, pos)
  <1>1. PICK n \in Nat : n = Len(e) /\ DOMAIN e = 1 .. n
    <2>1. Len(e) \in Nat /\ DOMAIN e = 1 .. Len(e)
      OBVIOUS
    <2>2. QED
      BY <2>1
  <1>2. pos \in 1 .. n /\ pos \in Nat /\ \A i \in 1 .. n : e[i] \in ErrorCounts /\ e[i].count \in Nat
    BY <1>1, ErrorEntry
  <1>3. counted \in ErrorCounts /\ counted.code = e[pos].code /\ counted.count = e[pos].count + 1
    BY <1>2 DEF ErrorCounts
  <1> HIDE DEF counted
  <1>4. \E i \in 1 .. pos : Here(i)
    <2> DEFINE T == {i \in 1 .. pos : \A k \in i..(pos - 1) : e[k].count < counted.count}
    <2>1. pos \in T /\ T \in SUBSET Nat
      BY <1>2
    <2>2. PICK i \in T : \A j \in T : i <= j
      <3> HIDE DEF T
      <3> QED
        BY <2>1, LeastNat
    <2>3. CASE i = 1
      BY <2>2, <2>3
    <2>4. CASE i # 1
      <3>1. i \in 1 .. pos /\ i - 1 \in 1 .. pos /\ i - 1 \in 1 .. n /\ ~ (i <= i - 1)
        BY <1>2, <2>2, <2>4
      <3>2. i - 1 \notin T
        BY <2>2, <3>1
      <3>3. PICK k \in (i - 1)..(pos - 1) : ~ (e[k].count < counted.count)
        BY <3>1, <3>2
      <3>4. k = i - 1
        BY <1>2, <2>2, <3>1, <3>3
      <3>5. e[i - 1].count >= counted.count
        <4>1. e[i - 1].count \in Nat /\ counted.count \in Nat
          BY <1>2, <1>3, <3>1 DEF ErrorCounts
        <4>2. QED
          BY <3>3, <3>4, <4>1
      <3>6. QED
        BY <2>2, <3>1, <3>5
    <2>5. QED
      BY <2>3, <2>4
  <1>5. first \in 1 .. pos /\ Here(first)
    <2> HIDE DEF Here
    <2> QED
      BY <1>4
  <1>6. /\ DOMAIN f = 1 .. n
        /\ \A k \in 1 .. n : f[k] = IF k = first THEN counted
                                    ELSE IF k \in 2..pos /\ k > first THEN e[k - 1] ELSE e[k]
    BY <1>1 DEF CountAndMove, counted
  <1>7. f \in Seq(ErrorCounts) /\ Len(f) = n
    <2>1. f \in Seq(ErrorCounts)
      BY CountAndMoveType DEF ErrorCounts
    <2>2. QED
      BY <1>6, <2>1
  <1> HIDE DEF f, first
  <1>8. PICK m \in 1 .. pos : m = first
    BY <1>5
  <1>8a. /\ \A k \in m..(pos - 1) : e[k].count < counted.count
         /\ m = 1 \/ e[m - 1].count >= counted.count
    BY <1>5, <1>8
  <1>9. ASSUME NEW k \in 1 .. n
        PROVE  /\ k < m => f[k] = e[k]
               /\ k = m => f[k] = counted
               /\ m < k /\ k <= pos => f[k] = e[k - 1] /\ k - 1 \in 1 .. n
               /\ pos < k => f[k] = e[k]
    <2>1. f[k] = IF k = m THEN counted
                 ELSE IF k \in 2..pos /\ k > m THEN e[k - 1] ELSE e[k]
      BY <1>6, <1>8, Zenon
    <2>2. /\ k < m => k # m /\ ~ (k > m)
          /\ m < k /\ k <= pos => k # m /\ k \in 2..pos /\ k > m /\ k - 1 \in 1 .. n
          /\ pos < k => k # m /\ k \notin 2..pos
      BY <1>2
    <2>3. QED
      BY <2>1, <2>2, Zenon
  <1>10. \A i, j \in 1 .. n : i <= j => e[i].count >= e[j].count
    <2> SUFFICES ASSUME NEW i \in 1 .. n, NEW j \in 1 .. n, i <= j
                 PROVE  e[i].count >= e[j].count
      OBVIOUS
    <2>1. e[i].count \in Nat /\ e[j].count \in Nat
      BY <1>2
    <2>2. CASE i = j
      BY <2>1, <2>2
    <2>3. CASE i < j
      BY <1>1, <2>3 DEF GoodErrors
    <2>4. QED
      BY <2>2, <2>3
  <1>11. \A k \in 1 .. n : k < m => e[k].count >= counted.count
    <2> SUFFICES ASSUME NEW k \in 1 .. n, k < m PROVE e[k].count >= counted.count
      OBVIOUS
    <2>1. m # 1 /\ m - 1 \in 1 .. n /\ k <= m - 1
      BY <1>2
    <2>2. e[k].count >= e[m - 1].count /\ e[m - 1].count >= counted.count
      BY <1>8a, <1>10, <2>1
    <2>3. e[k].count \in Nat /\ e[m - 1].count \in Nat /\ counted.count \in Nat
      BY <1>2, <1>3, <2>1 DEF ErrorCounts
    <2>4. QED
      BY <2>2, <2>3
  <1>12. GoodErrors(f)
    <2>0. counted.count \in Nat /\ e[pos].count \in Nat
      BY <1>2, <1>3 DEF ErrorCounts
    <2>1. ASSUME NEW i \in 1 .. n PROVE f[i].count >= 1
      <3>1. \A k \in 1 .. n : e[k].count >= 1
        BY <1>1 DEF GoodErrors
      <3>2. CASE i = m
        BY <1>3, <1>9, <2>0, <3>2
      <3>3. CASE m < i /\ i <= pos
        BY <1>9, <3>1, <3>3
      <3>4. CASE i < m \/ pos < i
        BY <1>9, <3>1, <3>4
      <3>5. QED
        BY <1>2, <3>2, <3>3, <3>4
    <2>2. ASSUME NEW i \in 1 .. n, NEW j \in 1 .. n, i < j PROVE f[i].count >= f[j].count
      <3>1. CASE i < m
        <4>1. f[i] = e[i]
          BY <1>9, <3>1
        <4>2. CASE j = m
          BY <1>9, <1>11, <3>1, <4>1, <4>2
        <4>3. CASE j # m
          <5>1. CASE m < j /\ j <= pos
            <6>1. f[j] = e[j - 1] /\ j - 1 \in 1 .. n /\ i <= j - 1
              BY <1>9, <2>2, <3>1, <5>1
            <6>2. QED
              BY <1>10, <4>1, <6>1
          <5>2. CASE j < m \/ pos < j
            <6>1. f[j] = e[j] /\ i <= j
              BY <1>9, <2>2, <5>2
            <6>2. QED
              BY <1>10, <4>1, <6>1
          <5>3. QED
            BY <1>2, <4>3, <5>1, <5>2
        <4>4. QED
          BY <4>2, <4>3
      <3>2. CASE i = m
        <4>1. f[i] = counted
          BY <1>9, <3>2
        <4>2. CASE j <= pos
          <5>1. f[j] = e[j - 1] /\ j - 1 \in m .. (pos - 1) /\ j - 1 \in 1 .. n
            BY <1>2, <1>9, <2>2, <3>2, <4>2
          <5>2. e[j - 1].count < counted.count
            BY <1>8a, <5>1
          <5>3. QED
            BY <1>2, <2>0, <4>1, <5>1, <5>2
        <4>3. CASE pos < j
          <5>1. f[j] = e[j] /\ e[pos].count >= e[j].count
            BY <1>2, <1>9, <1>10, <4>3
          <5>2. e[j].count \in Nat
            BY <1>2
          <5>3. QED
            BY <1>3, <2>0, <4>1, <5>1, <5>2
        <4>4. QED
          BY <1>2, <4>2, <4>3
      <3>3. CASE m < i
        <4>1. CASE j <= pos
          <5>1. f[i] = e[i - 1] /\ i - 1 \in 1 .. n
            BY <1>2, <1>9, <2>2, <3>3, <4>1
          <5>2. f[j] = e[j - 1] /\ j - 1 \in 1 .. n /\ i - 1 <= j - 1
            BY <1>2, <1>9, <2>2, <3>3, <4>1
          <5>3. QED
            BY <1>10, <5>1, <5>2
        <4>2. CASE pos < j
          <5>1. f[j] = e[j]
            BY <1>9, <4>2
          <5>2. CASE i <= pos
            <6>1. f[i] = e[i - 1] /\ i - 1 \in 1 .. n /\ i - 1 <= j
              BY <1>2, <1>9, <2>2, <3>3, <5>2
            <6>2. QED
              BY <1>10, <5>1, <6>1
          <5>3. CASE pos < i
            BY <1>9, <1>10, <2>2, <5>1, <5>3
          <5>4. QED
            BY <1>2, <5>2, <5>3
        <4>3. QED
          BY <1>2, <4>1, <4>2
      <3>4. QED
        BY <3>1, <3>2, <3>3
    <2>3. ASSUME NEW i \in 1 .. n, NEW j \in 1 .. n, f[i].code = f[j].code PROVE i = j
      <3>1. \A k \in 1 .. n : \E l \in 1 .. n :
              /\ f[k].code = e[l].code
              /\ l = IF k = m THEN pos ELSE IF m < k /\ k <= pos THEN k - 1 ELSE k
        <4> SUFFICES ASSUME NEW k \in 1 .. n
                     PROVE  \E l \in 1 .. n :
                              /\ f[k].code = e[l].code
                              /\ l = IF k = m THEN pos ELSE IF m < k /\ k <= pos THEN k - 1 ELSE k
          OBVIOUS
        <4>1. CASE k = m
          <5>1. f[k].code = e[pos].code
            BY <1>3, <1>9, <4>1
          <5>2. QED
            BY <1>2, <4>1, <5>1
        <4>2. CASE m < k /\ k <= pos
          <5>1. f[k] = e[k - 1] /\ k - 1 \in 1 .. n /\ k # m
            BY <1>9, <4>2
          <5>2. QED
            BY <4>2, <5>1
        <4>3. CASE k < m \/ pos < k
          <5>1. f[k] = e[k] /\ k # m /\ ~ (m < k /\ k <= pos)
            BY <1>2, <1>9, <4>3
          <5>2. QED
            BY <5>1
        <4>4. QED
          BY <1>2, <4>1, <4>2, <4>3
      <3>2. PICK a \in 1 .. n : /\ f[i].code = e[a].code
                                /\ a = IF i = m THEN pos ELSE IF m < i /\ i <= pos THEN i - 1 ELSE i
        BY <3>1
      <3>3. PICK b \in 1 .. n : /\ f[j].code = e[b].code
                                /\ b = IF j = m THEN pos ELSE IF m < j /\ j <= pos THEN j - 1 ELSE j
        BY <3>1
      <3>4. a = b
        BY <1>1, <2>3, <3>2, <3>3 DEF GoodErrors
      <3>5. QED
        BY <1>2, <3>2, <3>3, <3>4
    <2>4. QED
      BY <1>6, <2>1, <2>2, <2>3 DEF GoodErrors
  <1>13. ASSUME NEW c \in Codes
         PROVE  CountOf(f, c) = CountOf(e, c) + (IF c = e[pos].code THEN 1 ELSE 0)
    <2>1. CASE c = e[pos].code
      <3>1. m \in 1 .. n /\ f[m].code = c /\ f[m].count = e[pos].count + 1
        BY <1>2, <1>3, <1>9, <2>1
      <3>2. CountOf(f, c) = e[pos].count + 1
        BY <1>6, <1>7, <1>12, <3>1, CountOfIs
      <3>3. CountOf(e, c) = e[pos].count
        BY <2>1, CountOfIs
      <3>4. QED
        BY <2>1, <3>2, <3>3
    <2>2. CASE c # e[pos].code
      <3>0. CountOf(e, c) \in Nat
        BY CountOfIs
      <3>1. CASE \E i \in 1 .. n : e[i].code = c
        <4>1. PICK i \in 1 .. n : e[i].code = c
          BY <3>1
        <4>2. i # pos
          BY <2>2, <4>1
        <4>3. \E k \in 1 .. n : f[k] = e[i]
          <5>1. CASE m <= i /\ i < pos
            <6>1. i + 1 \in 1 .. n /\ m < i + 1 /\ i + 1 <= pos /\ (i + 1) - 1 = i
              BY <1>2, <5>1
            <6>2. f[i + 1] = e[i]
              BY <1>9, <6>1
            <6>3. QED
              BY <6>1, <6>2
          <5>2. CASE i < m \/ pos < i
            BY <1>9, <5>2
          <5>3. QED
            BY <1>2, <4>2, <5>1, <5>2
        <4>4. PICK k \in 1 .. n : f[k] = e[i]
          BY <4>3
        <4>5. CountOf(e, c) = e[i].count
          BY <1>1, <4>1, CountOfIs
        <4>6. CountOf(f, c) = f[k].count
          BY <1>6, <1>7, <1>12, <4>1, <4>4, CountOfIs
        <4>7. QED
          BY <2>2, <3>0, <4>4, <4>5, <4>6
      <3>2. CASE \A i \in 1 .. n : e[i].code # c
        <4>1. \A k \in 1 .. n : f[k].code # c
          BY <1>2, <1>3, <1>9, <2>2, <3>2
        <4>2. CountOf(e, c) = 0
          BY <1>1, <3>2, CountOfIs
        <4>3. CountOf(f, c) = 0
          BY <1>6, <1>7, <1>12, <4>1, CountOfIs
        <4>4. QED
          BY <2>2, <4>2, <4>3
      <3>3. QED
        BY <3>1, <3>2
    <2>3. QED
      BY <2>1, <2>2
  <1>14. QED
    BY <1>1, <1>7, <1>12, <1>13 DEF f

\* PutQuery::error counts one more answer and changes nothing but the errors.
LEMMA AddErrorIs ==
  ASSUME NEW p \in PutQueries, GoodErrors(p.errors), NEW code \in Codes
  PROVE  LET q == AddError(p, code)
         IN  /\ q \in PutQueries /\ GoodErrors(q.errors)
             /\ q.owner = p.owner /\ q.sent = p.sent /\ q.storedAt = p.storedAt
             /\ Len(q.errors) \in Nat /\ Len(q.errors) <= Len(p.errors) + 1
             /\ ErrorTotal(q.errors) = ErrorTotal(p.errors) + 1
  <1> DEFINE e == p.errors
             at == {i \in DOMAIN e : e[i].code = code}
             f == IF at = {} THEN Append(e, [code |-> code, count |-> 1])
                  ELSE CountAndMove(e, CHOOSE i \in at : TRUE)
             q == AddError(p, code)
  <1>1. e \in Seq(ErrorCounts) /\ Len(e) \in Nat
    BY DEF PutQueries, ErrorCounts
  <1>2. /\ f \in Seq(ErrorCounts) /\ GoodErrors(f) /\ Len(f) \in Nat /\ Len(f) <= Len(e) + 1
        /\ \A c \in Codes : CountOf(f, c) = CountOf(e, c) + (IF c = code THEN 1 ELSE 0)
    <2>1. CASE at = {}
      <3> DEFINE g == Append(e, [code |-> code, count |-> 1])
      <3>1. /\ g \in Seq(ErrorCounts) /\ GoodErrors(g) /\ Len(g) = Len(e) + 1
            /\ \A c \in Codes : CountOf(g, c) = CountOf(e, c) + (IF c = code THEN 1 ELSE 0)
        <4>1. \A i \in DOMAIN e : e[i].code # code
          BY <2>1
        <4> HIDE DEF e
        <4>2. QED
          BY <1>1, <4>1, AppendErrorIs DEF e
      <3>2. f = g
        BY <2>1
      <3> HIDE DEF f, g, e
      <3>3. QED
        BY <1>1, <3>1, <3>2
    <2>2. CASE at # {}
      <3>1. PICK pos : pos = (CHOOSE i \in at : TRUE) /\ pos \in DOMAIN e /\ e[pos].code = code
        BY <2>2
      <3> DEFINE g == CountAndMove(e, pos)
      <3>2. /\ g \in Seq(ErrorCounts) /\ GoodErrors(g) /\ Len(g) = Len(e)
            /\ \A c \in Codes : CountOf(g, c) = CountOf(e, c) + (IF c = e[pos].code THEN 1 ELSE 0)
        <4> HIDE DEF e
        <4> QED
          BY <1>1, <3>1, CountAndMoveIs DEF e
      <3>3. f = g
        BY <2>2, <3>1
      <3> HIDE DEF f, g, e
      <3>4. QED
        BY <1>1, <3>1, <3>2, <3>3
    <2>3. QED
      BY <2>1, <2>2
  <1>3. q.errors = f /\ q.owner = p.owner /\ q.sent = p.sent /\ q.storedAt = p.storedAt
    BY DEF AddError, PutQueries
  <1>4. q \in PutQueries
    BY AddErrorType
  <1>5. ErrorTotal(f) = ErrorTotal(e) + 1
    <2>1. code \in {203, 301, 302} /\ 203 \in Codes /\ 301 \in Codes /\ 302 \in Codes
      BY DEF Codes
    <2>2. \A c \in Codes : CountOf(e, c) \in Nat
      <3> HIDE DEF e
      <3> QED
        BY <1>1, CountOfIs DEF e
    <2> HIDE DEF e, f
    <2>3. QED
      BY <1>2, <2>1, <2>2, SMTT(60) DEF ErrorTotal
  <1> HIDE DEF q, f
  <1>6. QED
    BY <1>2, <1>3, <1>4, <1>5 DEF q

-----------------------------------------------------------------------------
(* What holds of one put, given what is in flight and what was acknowledged *)

PutMessages == [owner : PutCalls, to : Nodes, op : {"put", "extra"}]

\* The nodes that acknowledged a request of the put's owner.
AckedBy(p, A) == {n \in Nodes : <<p.owner, n>> \in A}

\* No node was sent the item twice.
NoNodeTwice(p) == \A r, s \in p.sent : r.to = s.to => r = s

\* Every answer takes one request out of the socket and is counted once, as a
\* success or as an error.
AnswersAccounted(p, S) ==
  /\ Len(p.errors) + p.storedAt + Cardinality(p.sent \cap S) <= Cardinality(p.sent)
  /\ ErrorTotal(p.errors) + p.storedAt + Cardinality(p.sent \cap S) <= Cardinality(p.sent)

\* A node is on record only for a request that is no longer in flight.
AcksAccounted(p, S, A) ==
  /\ \A n \in AckedBy(p, A) : \E r \in p.sent \ S : r.to = n
  /\ p.storedAt > 0 => AckedBy(p, A) # {}
  /\ NoNodeTwice(p) => p.storedAt = Cardinality(AckedBy(p, A))

PutFacts(p, S, A) ==
  /\ GoodErrors(p.errors)
  /\ \A r \in p.sent : r.owner = p.owner
  /\ AnswersAccounted(p, S)
  /\ AcksAccounted(p, S, A)

\* A put sends finitely many requests.
LEMMA SentFinite ==
  ASSUME NEW T \in SUBSET PutMessages
  PROVE  IsFiniteSet(T) /\ Cardinality(T) \in Nat
  <1> DEFINE Ops == {"put", "extra"}
             P == PutCalls \X (Nodes \X Ops)
             f == [x \in P |-> [owner |-> x[1], to |-> x[2][1], op |-> x[2][2]]]
  <1>1. IsFiniteSet(Ops)
    <2>1. Ops = {"put"} \cup {"extra"}
      OBVIOUS
    <2>2. IsFiniteSet({"put"})
      BY FS_Singleton, Zenon
    <2>3. IsFiniteSet({"put"} \cup {"extra"})
      BY <2>2, FS_AddElement, Zenon
    <2>4. QED
      BY <2>1, <2>3, Zenon
  <1>2. IsFiniteSet(P)
    <2> HIDE DEF Ops
    <2> QED
      BY <1>1, NodesAssumption, RpcAssumption, FS_Product DEF RpcAssumption
  <1>3. f \in Surjection(P, PutMessages)
    <2>1. f \in [P -> PutMessages]
      BY DEF PutMessages
    <2>2. ASSUME NEW r \in PutMessages PROVE \E x \in P : f[x] = r
      <3>1. <<r.owner, <<r.to, r.op>>>> \in P
        BY DEF PutMessages
      <3>2. f[<<r.owner, <<r.to, r.op>>>>] = r
        BY <3>1 DEF PutMessages
      <3>3. QED
        BY <3>1, <3>2
    <2> HIDE DEF f, P
    <2>3. QED
      BY <2>1, <2>2 DEF Surjection
  <1> HIDE DEF f, P
  <1>4. QED
    BY <1>2, <1>3, FS_Surjection, FS_Subset, FS_CardinalityType

\* The numbers of a put are numbers.
LEMMA PutNumbers ==
  ASSUME NEW p \in PutQueries, NEW S, NEW A
  PROVE  /\ p.sent \in SUBSET PutMessages /\ IsFiniteSet(p.sent) /\ Cardinality(p.sent) \in Nat
         /\ IsFiniteSet(p.sent \cap S) /\ Cardinality(p.sent \cap S) \in Nat
         /\ p.storedAt \in Nat /\ p.errors \in Seq(ErrorCounts) /\ Len(p.errors) \in Nat
         /\ GoodErrors(p.errors) => ErrorTotal(p.errors) \in Nat
         /\ IsFiniteSet(AckedBy(p, A)) /\ Cardinality(AckedBy(p, A)) \in Nat
  <1>1. /\ p.sent \in SUBSET PutMessages /\ p.storedAt \in Nat
        /\ p.errors \in Seq(ErrorCounts)
    BY DEF PutQueries, PutMessages, ErrorCounts
  <1>2. Len(p.errors) \in Nat
    BY <1>1
  <1>3. p.sent \cap S \in SUBSET PutMessages
    BY <1>1
  <1>4. ASSUME GoodErrors(p.errors) PROVE ErrorTotal(p.errors) \in Nat
    <2>1. \A code : CountOf(p.errors, code) \in Nat
      BY <1>1, <1>4, CountOfIs
    <2>2. QED
      BY <2>1 DEF ErrorTotal
  <1>5. AckedBy(p, A) \in SUBSET Nodes
    BY DEF AckedBy
  <1>6. IsFiniteSet(AckedBy(p, A)) /\ Cardinality(AckedBy(p, A)) \in Nat
    BY <1>5, NodesAssumption, FS_Subset, FS_CardinalityType
  <1>7. QED
    BY <1>1, <1>2, <1>3, <1>4, <1>6, SentFinite

\* Requests leaving the socket, and acknowledgements of other puts, are harmless.
LEMMA FactsKept ==
  ASSUME NEW p \in PutQueries, NEW S, NEW A, NEW S2, NEW A2, PutFacts(p, S, A),
         p.sent \cap S2 \subseteq S, AckedBy(p, A2) = AckedBy(p, A)
  PROVE  PutFacts(p, S2, A2)
  <1>1. /\ Cardinality(p.sent \cap S2) \in Nat
        /\ Cardinality(p.sent \cap S2) <= Cardinality(p.sent \cap S)
    <2>1. p.sent \cap S2 \in SUBSET (p.sent \cap S) /\ IsFiniteSet(p.sent \cap S)
      BY PutNumbers
    <2>2. QED
      BY <2>1, PutNumbers, FS_Subset
  <1>2. AnswersAccounted(p, S2)
    <2>1. /\ Cardinality(p.sent) \in Nat /\ Cardinality(p.sent \cap S) \in Nat
          /\ p.storedAt \in Nat /\ Len(p.errors) \in Nat /\ ErrorTotal(p.errors) \in Nat
      BY PutNumbers DEF PutFacts
    <2>2. /\ Len(p.errors) + p.storedAt + Cardinality(p.sent \cap S) <= Cardinality(p.sent)
          /\ ErrorTotal(p.errors) + p.storedAt + Cardinality(p.sent \cap S) <= Cardinality(p.sent)
      BY DEF PutFacts, AnswersAccounted
    <2>3. QED
      BY <1>1, <2>1, <2>2 DEF AnswersAccounted
  <1>3. AcksAccounted(p, S2, A2)
    BY DEF PutFacts, AcksAccounted
  <1>4. QED
    BY <1>2, <1>3 DEF PutFacts

\* Without errors nothing is counted.
LEMMA NoErrorsYet == GoodErrors(<<>>) /\ ErrorTotal(<<>>) = 0 /\ Len(<<>>) = 0
  <1>1. \A code : CountOf(<<>>, code) = 0
    BY DEF CountOf
  <1>2. QED
    BY <1>1 DEF GoodErrors, ErrorTotal

\* A put that has neither an answer nor an acknowledgement starts from zero.
LEMMA FactsAtStart ==
  ASSUME NEW p \in PutQueries, NEW S, NEW A, p.errors = <<>>, p.storedAt = 0,
         \A r \in p.sent : r.owner = p.owner, AckedBy(p, A) = {}
  PROVE  PutFacts(p, S, A)
  <1>1. Cardinality(p.sent \cap S) <= Cardinality(p.sent)
    BY PutNumbers, FS_Subset
  <1>2. AnswersAccounted(p, S)
    <2>1. /\ Cardinality(p.sent) \in Nat /\ Cardinality(p.sent \cap S) \in Nat
          /\ p.storedAt \in Nat /\ Len(p.errors) \in Nat /\ ErrorTotal(p.errors) \in Nat
      BY NoErrorsYet, PutNumbers
    <2>2. Len(p.errors) = 0 /\ ErrorTotal(p.errors) = 0 /\ Cardinality(p.sent \cap S) <= Cardinality(p.sent)
      BY <1>1, NoErrorsYet
    <2>3. QED
      BY <2>1, <2>2 DEF AnswersAccounted
  <1>3. Cardinality(AckedBy(p, A)) = 0
    BY FS_EmptySet, Zenon
  <1>4. AcksAccounted(p, S, A)
    BY <1>3 DEF AcksAccounted
  <1>5. QED
    BY <1>2, <1>4, NoErrorsYet DEF PutFacts

\* A put that has sent nothing has no answer and no acknowledgement.
LEMMA NothingBeforeStart ==
  ASSUME NEW p \in PutQueries, NEW S, NEW A, PutFacts(p, S, A), ~ Started(p)
  PROVE  p.errors = <<>> /\ p.storedAt = 0 /\ AckedBy(p, A) = {}
  <1>1. p.sent = {} /\ p.sent \cap S = {}
    BY DEF Started
  <1>2. Cardinality(p.sent) = 0 /\ Cardinality(p.sent \cap S) = 0
    BY <1>1, FS_EmptySet, Zenon
  <1>3. Len(p.errors) = 0 /\ p.storedAt = 0
    <2>1. /\ Cardinality(p.sent) \in Nat /\ Cardinality(p.sent \cap S) \in Nat
          /\ p.storedAt \in Nat /\ Len(p.errors) \in Nat /\ ErrorTotal(p.errors) \in Nat
      BY PutNumbers DEF PutFacts
    <2>2. /\ Len(p.errors) + p.storedAt + Cardinality(p.sent \cap S) <= Cardinality(p.sent)
          /\ ErrorTotal(p.errors) + p.storedAt + Cardinality(p.sent \cap S) <= Cardinality(p.sent)
      BY DEF PutFacts, AnswersAccounted
    <2>3. QED
      BY <1>2, <2>1, <2>2
  <1>4. p.errors = <<>>
    BY <1>3, PutNumbers
  <1>5. AckedBy(p, A) = {}
    BY <1>1 DEF PutFacts, AcksAccounted
  <1>6. QED
    BY <1>3, <1>4, <1>5

\* An answer takes its request out of the socket.
LEMMA OneRequestLess ==
  ASSUME NEW p \in PutQueries, NEW S, NEW r \in p.sent \cap S
  PROVE  Cardinality(p.sent \cap (S \ {r})) = Cardinality(p.sent \cap S) - 1
  <1> DEFINE T == p.sent \cap S
  <1>1. IsFiniteSet(T) /\ r \in T
    BY PutNumbers
  <1>2. p.sent \cap (S \ {r}) = T \ {r}
    OBVIOUS
  <1> HIDE DEF T
  <1>3. Cardinality(T \ {r}) = Cardinality(T) - 1
    BY <1>1, FS_RemoveElement
  <1>4. QED
    BY <1>2, <1>3 DEF T

\* PutQuery::success: a node that was sent the item once is counted once.
LEMMA FactsAck ==
  ASSUME NEW p \in PutQueries, NEW S, NEW A, PutFacts(p, S, A), NEW r \in p.sent \cap S
  PROVE  PutFacts(Success(p), S \ {r}, A \cup {<<r.owner, r.to>>})
  <1> DEFINE q == Success(p)
             B == A \cup {<<r.owner, r.to>>}
  <1>1. /\ q.owner = p.owner /\ q.sent = p.sent /\ q.errors = p.errors
        /\ q.storedAt = p.storedAt + 1 /\ q \in PutQueries
    BY SuccessType DEF Success, PutQueries
  <1>2. r.owner = p.owner /\ r.to \in Nodes
    BY PutNumbers DEF PutFacts, PutMessages
  <1>3. AckedBy(q, B) = AckedBy(p, A) \cup {r.to}
    BY <1>1, <1>2 DEF AckedBy
  <1> HIDE DEF q, B
  <1>4. AnswersAccounted(q, S \ {r})
    <2>1. /\ Cardinality(p.sent) \in Nat /\ Cardinality(p.sent \cap S) \in Nat
          /\ p.storedAt \in Nat /\ Len(p.errors) \in Nat /\ ErrorTotal(p.errors) \in Nat
      BY PutNumbers DEF PutFacts
    <2>2. /\ Len(p.errors) + p.storedAt + Cardinality(p.sent \cap S) <= Cardinality(p.sent)
          /\ ErrorTotal(p.errors) + p.storedAt + Cardinality(p.sent \cap S) <= Cardinality(p.sent)
      BY DEF PutFacts, AnswersAccounted
    <2>3. Cardinality(p.sent \cap (S \ {r})) = Cardinality(p.sent \cap S) - 1
      BY OneRequestLess
    <2> DEFINE n == Cardinality(p.sent)
               c == Cardinality(p.sent \cap S)
               d == Cardinality(p.sent \cap (S \ {r}))
               l == Len(p.errors)
               e == ErrorTotal(p.errors)
               k == p.storedAt
    <2>4. /\ n \in Nat /\ c \in Nat /\ l \in Nat /\ e \in Nat /\ k \in Nat
          /\ l + k + c <= n /\ e + k + c <= n /\ d = c - 1
      BY <2>1, <2>2, <2>3
    <2>5. l + (k + 1) + d <= n /\ e + (k + 1) + d <= n
      <3> HIDE DEF n, c, d, l, e, k
      <3> QED
        BY <2>4
    <2>6. QED
      BY <1>1, <2>5 DEF AnswersAccounted
  <1>5. AcksAccounted(q, S \ {r}, B)
    <2>1. \A n \in AckedBy(q, B) : \E s \in q.sent \ (S \ {r}) : s.to = n
      BY <1>1, <1>3 DEF PutFacts, AcksAccounted
    <2>2. ASSUME NoNodeTwice(q) PROVE q.storedAt = Cardinality(AckedBy(q, B))
      <3>1. NoNodeTwice(p)
        BY <1>1, <2>2 DEF NoNodeTwice
      <3>2. r.to \notin AckedBy(p, A)
        BY <3>1 DEF PutFacts, AcksAccounted, NoNodeTwice
      <3>3. Cardinality(AckedBy(p, A) \cup {r.to}) = Cardinality(AckedBy(p, A)) + 1
        BY <3>2, PutNumbers, FS_AddElement
      <3>4. QED
        BY <1>1, <1>3, <3>1, <3>3 DEF PutFacts, AcksAccounted
    <2>3. QED
      BY <1>3, <2>1, <2>2 DEF AcksAccounted
  <1>6. QED
    BY <1>1, <1>4, <1>5 DEF PutFacts, q, B

\* PutQuery::error: a refusal is no acknowledgement.
LEMMA FactsError ==
  ASSUME NEW p \in PutQueries, NEW S, NEW A, PutFacts(p, S, A), NEW r \in p.sent \cap S,
         NEW code \in Codes
  PROVE  PutFacts(AddError(p, code), S \ {r}, A)
  <1> DEFINE q == AddError(p, code)
  <1>1. /\ q \in PutQueries /\ GoodErrors(q.errors)
        /\ q.owner = p.owner /\ q.sent = p.sent /\ q.storedAt = p.storedAt
        /\ Len(q.errors) \in Nat /\ Len(q.errors) <= Len(p.errors) + 1
        /\ ErrorTotal(q.errors) = ErrorTotal(p.errors) + 1
    BY AddErrorIs DEF PutFacts
  <1>2. AckedBy(q, A) = AckedBy(p, A)
    BY <1>1 DEF AckedBy
  <1> HIDE DEF q
  <1>3. AnswersAccounted(q, S \ {r})
    <2>1. /\ Cardinality(p.sent) \in Nat /\ Cardinality(p.sent \cap S) \in Nat
          /\ p.storedAt \in Nat /\ Len(p.errors) \in Nat /\ ErrorTotal(p.errors) \in Nat
      BY PutNumbers DEF PutFacts
    <2>2. /\ Len(p.errors) + p.storedAt + Cardinality(p.sent \cap S) <= Cardinality(p.sent)
          /\ ErrorTotal(p.errors) + p.storedAt + Cardinality(p.sent \cap S) <= Cardinality(p.sent)
      BY DEF PutFacts, AnswersAccounted
    <2>3. Cardinality(p.sent \cap (S \ {r})) = Cardinality(p.sent \cap S) - 1
      BY OneRequestLess
    <2>4. q.sent = p.sent /\ q.sent \cap (S \ {r}) = p.sent \cap (S \ {r})
      BY <1>1
    <2>5. /\ Len(q.errors) + q.storedAt + Cardinality(p.sent \cap (S \ {r})) <= Cardinality(p.sent)
          /\ ErrorTotal(q.errors) + q.storedAt + Cardinality(p.sent \cap (S \ {r}))
               <= Cardinality(p.sent)
      <3> DEFINE n == Cardinality(p.sent)
                 c == Cardinality(p.sent \cap S)
                 d == Cardinality(p.sent \cap (S \ {r}))
                 l == Len(p.errors)
                 m == Len(q.errors)
                 e == ErrorTotal(p.errors)
                 f == ErrorTotal(q.errors)
                 k == p.storedAt
      <3>1. n \in Nat /\ c \in Nat /\ l \in Nat /\ e \in Nat /\ k \in Nat /\ m \in Nat
        BY <1>1, <2>1
      <3>2. /\ l + k + c <= n /\ e + k + c <= n /\ d = c - 1 /\ m <= l + 1 /\ f = e + 1
            /\ q.storedAt = k
        BY <1>1, <2>2, <2>3
      <3> HIDE DEF n, c, d, l, m, e, f, k
      <3>3. m + k + d <= n /\ f + k + d <= n
        BY <3>1, <3>2
      <3>4. QED
        BY <3>2, <3>3 DEF n, c, d, l, m, e, f, k
    <2>6. QED
      BY <2>4, <2>5 DEF AnswersAccounted
  <1>4. AcksAccounted(q, S \ {r}, A)
    BY <1>1, <1>2 DEF PutFacts, AcksAccounted, NoNodeTwice
  <1>5. QED
    BY <1>1, <1>3, <1>4 DEF PutFacts, q

-----------------------------------------------------------------------------
(* The inductive invariant of the puts *)

PutsAccounted == \A t \in DOMAIN puts : PutFacts(puts[t], inflight, acked)

\* A put belongs to a call on its target, and a call makes only one.
OwnersKnown ==
  \A t \in DOMAIN puts :
    PutReq[puts[t].owner].target = t /\ callState[puts[t].owner] # "idle"

\* Nothing is acknowledged before it is sent.
AckersKnown == \A a \in acked : callState[a[1]] # "idle"

PutInv == PutsAccounted /\ OwnersKnown /\ AckersKnown /\ MajorityConflictWins

\* A put under way is well formed.
LEMMA PutParts ==
  ASSUME RpcInv, NEW t \in DOMAIN puts
  PROVE  t \in Targets /\ puts[t] \in PutQueries /\ puts[t].owner \in PutCalls
  BY DEF RpcInv, TypeOK, IsMap, PutQueries

\* A step that neither touches the puts nor sends any of their requests.
LEMMA QuietKeepsPuts ==
  ASSUME RpcInv, PutInv, UNCHANGED <<puts, acked>>, MajorityConflictWins',
         \A c \in PutCalls : callState[c] # "idle" => callState'[c] # "idle",
         \A r \in inflight' : r.op \in {"put", "extra"} => r \in inflight
  PROVE  PutInv'
  <1>1. ASSUME NEW t \in DOMAIN puts PROVE PutFacts(puts[t], inflight', acked')
    <2>1. puts[t] \in PutQueries /\ PutFacts(puts[t], inflight, acked)
      BY PutParts DEF PutInv, PutsAccounted
    <2>2. \A r \in puts[t].sent : r.op \in {"put", "extra"}
      BY <2>1, PutNumbers DEF PutMessages
    <2>3. puts[t].sent \cap inflight' \subseteq inflight
      BY <2>2
    <2>4. AckedBy(puts[t], acked') = AckedBy(puts[t], acked)
      OBVIOUS
    <2>5. QED
      BY <2>1, <2>3, <2>4, FactsKept
  <1>2. PutsAccounted'
    BY <1>1 DEF PutsAccounted
  <1>3. OwnersKnown'
    BY PutParts DEF PutInv, OwnersKnown
  <1>4. AckersKnown'
    <2>1. \A a \in acked : a[1] \in PutCalls
      BY DEF RpcInv, TypeOK
    <2>2. QED
      BY <2>1 DEF PutInv, AckersKnown
  <1>5. QED
    BY <1>2, <1>3, <1>4 DEF PutInv

\* Outside tick_put_queries and cleanup_done_queries nothing changes about what
\* is about to be reported.
LEMMA VerdictsKept ==
  ASSUME PutInv, phase' \notin {"get", "cleanup"}
            \/ (UNCHANGED <<puts, donePut>> /\ phase \in {"get", "cleanup"})
  PROVE  MajorityConflictWins'
  BY DEF PutInv, MajorityConflictWins

\* A call that makes a put: its target's old one, if any, is replaced.
LEMMA NewPutKeepsPuts ==
  ASSUME RpcInv, PutInv, NEW c \in PutCalls, MayCall(c), AwaitPut(c),
         NEW p \in PutQueries, p.owner = c, puts' = Put(puts, PutReq[c].target, p),
         p.errors = <<>>, p.storedAt = 0, \A r \in p.sent : r.owner = c,
         \A r \in inflight' : r.op \in {"put", "extra"} => r \in inflight \/ r.owner = c
  PROVE  PutInv'
  <1> DEFINE t == PutReq[c].target
  <1>1. /\ phase' = "put" /\ callState[c] = "idle" /\ acked' = acked
        /\ callState' = [callState EXCEPT ![c] = "waiting"]
    BY DEF AwaitPut, MayCall
  <1>2. /\ DOMAIN puts' = DOMAIN puts \cup {t} /\ puts'[t] = p
        /\ \A u \in DOMAIN puts : u # t => puts'[u] = puts[u]
    BY DEF Put
  <1>3. /\ callState'[c] = "waiting"
        /\ \A d \in PutCalls : callState[d] # "idle" => callState'[d] # "idle"
    BY <1>1 DEF RpcInv, TypeOK, Calls
  <1>4. PutFacts(p, inflight', acked')
    <2>1. AckedBy(p, acked) = {}
      BY <1>1 DEF AckedBy, PutInv, AckersKnown
    <2>2. QED
      BY <1>1, <2>1, FactsAtStart
  <1>5. ASSUME NEW u \in DOMAIN puts PROVE PutFacts(puts[u], inflight', acked')
    <2>1. puts[u] \in PutQueries /\ PutFacts(puts[u], inflight, acked) /\ puts[u].owner # c
      BY <1>1, PutParts DEF PutInv, PutsAccounted, OwnersKnown
    <2>2. \A r \in puts[u].sent : r.op \in {"put", "extra"}
      BY <2>1, PutNumbers DEF PutMessages
    <2>3. puts[u].sent \cap inflight' \subseteq inflight
      BY <2>1, <2>2 DEF PutFacts
    <2>4. AckedBy(puts[u], acked') = AckedBy(puts[u], acked)
      BY <1>1
    <2>5. QED
      BY <2>1, <2>3, <2>4, FactsKept
  <1>6. PutsAccounted'
    BY <1>2, <1>4, <1>5 DEF PutsAccounted
  <1>7. OwnersKnown'
    BY <1>2, <1>3, PutParts DEF PutInv, OwnersKnown
  <1>8. AckersKnown'
    <2>1. \A a \in acked : a[1] \in PutCalls
      BY DEF RpcInv, TypeOK
    <2>2. QED
      BY <1>1, <1>3, <2>1 DEF PutInv, AckersKnown
  <1>9. MajorityConflictWins'
    BY <1>1 DEF MajorityConflictWins
  <1>10. QED
    BY <1>6, <1>7, <1>8, <1>9 DEF PutInv

\* ActorMessage::Put
LEMMA RecvPutKeepsPuts ==
  ASSUME RpcInv, PutInv, NEW c \in PutCalls, RecvPutFromCache(c) \/ RecvPutWithLookup(c)
  PROVE  PutInv'
  <1> DEFINE t == PutReq[c].target
  <1>0. /\ NewPut(c) \in PutQueries /\ NewPut(c).owner = c /\ NewPut(c).errors = <<>>
        /\ NewPut(c).storedAt = 0 /\ NewPut(c).sent = {}
    BY NewPutType DEF NewPut
  <1>1. CASE RecvPutFromCache(c)
    <2> DEFINE p == Start(NewPut(c), cached[t])
    <2>1. /\ MayCall(c) /\ AwaitPut(c) /\ puts' = Put(puts, t, p)
          /\ inflight' = inflight \cup p.sent /\ t \in DOMAIN cached
      BY <1>1 DEF RecvPutFromCache, CacheUsable
    <2>2. cached[t] \in SUBSET Entries
      BY <2>1 DEF RpcInv, TypeOK, IsMap
    <2>3. p \in PutQueries /\ p.sent = StartRequests(c, cached[t])
      BY <1>0, <2>2, StartType
    <2>4. p.owner = c /\ p.errors = <<>> /\ p.storedAt = 0
      BY DEF Start, NewPut
    <2>5. \A r \in p.sent : r.owner = c
      BY <2>3 DEF StartRequests
    <2> HIDE DEF p
    <2>6. QED
      BY <2>1, <2>3, <2>4, <2>5, NewPutKeepsPuts
  <1>2. CASE RecvPutWithLookup(c)
    <2>1. /\ MayCall(c) /\ AwaitPut(c) /\ puts' = Put(puts, t, NewPut(c))
          /\ JoinOrStart(t, "GetValue")
      BY <1>2 DEF RecvPutWithLookup
    <2>2. \A r \in inflight' : r.op \in {"put", "extra"} => r \in inflight
      BY <2>1 DEF JoinOrStart, QueryRequests
    <2>3. QED
      BY <1>0, <2>1, <2>2, NewPutKeepsPuts
  <1>3. QED
    BY <1>1, <1>2

\* A conflict that most nodes answered is the first error.
LEMMA MajorityIsFirst ==
  ASSUME NEW p \in PutQueries, NEW S, NEW A, PutFacts(p, S, A), NEW i \in DOMAIN p.errors,
         2 * p.errors[i].count > Cardinality(p.sent)
  PROVE  i = 1
  <1> DEFINE e == p.errors
  <1>1. e \in Seq(ErrorCounts) /\ GoodErrors(e) /\ Len(e) \in Nat /\ DOMAIN e = 1 .. Len(e)
    <2>1. e \in Seq(ErrorCounts) /\ GoodErrors(e)
      BY PutNumbers DEF PutFacts
    <2> HIDE DEF e
    <2>2. QED
      BY <2>1
  <1>2. SUFFICES ASSUME i # 1 PROVE FALSE
    OBVIOUS
  <1>3. 1 \in DOMAIN e /\ 1 < i
    BY <1>1, <1>2
  <1>4. /\ e[1].count \in Nat /\ e[i].count \in Nat /\ e[1].code \in Codes /\ e[i].code \in Codes
    <2> HIDE DEF e
    <2> QED
      BY <1>1, <1>3, ErrorEntry DEF e
  <1>5. e[1].count >= e[i].count /\ e[1].code # e[i].code
    BY <1>1, <1>2, <1>3 DEF GoodErrors
  <1>6. CountOf(e, e[1].code) = e[1].count /\ CountOf(e, e[i].code) = e[i].count
    <2> HIDE DEF e
    <2> QED
      BY <1>1, <1>3, CountOfIs DEF e
  <1>7. \A code : CountOf(e, code) \in Nat
    <2> HIDE DEF e
    <2> QED
      BY <1>1, CountOfIs
  <1>8. ErrorTotal(e) >= e[1].count + e[i].count
    <2>1. e[1].code \in {203, 301, 302} /\ e[i].code \in {203, 301, 302}
      BY <1>4 DEF Codes
    <2> HIDE DEF e
    <2>2. QED
      BY <1>4, <1>5, <1>6, <1>7, <2>1 DEF ErrorTotal
  <1>9. ErrorTotal(e) + p.storedAt + Cardinality(p.sent \cap S) <= Cardinality(p.sent)
    BY DEF PutFacts, AnswersAccounted
  <1>10. /\ ErrorTotal(e) \in Nat /\ p.storedAt \in Nat /\ Cardinality(p.sent \cap S) \in Nat
         /\ Cardinality(p.sent) \in Nat
    BY <1>1, PutNumbers
  <1>11. 2 * e[i].count > Cardinality(p.sent)
    OBVIOUS
  <1> HIDE DEF e
  <1>12. QED
    BY <1>4, <1>5, <1>8, <1>9, <1>10, <1>11

\* tick_put_queries: poll_completion looks for the majority before it looks at
\* the successes.
LEMMA TickPutKeepsPuts ==
  ASSUME RpcInv, PutInv, TickPut
  PROVE  PutInv'
  <1>1. /\ phase' = "get" /\ UNCHANGED <<puts, acked, inflight, callState>>
        /\ donePut' = [t \in {u \in DOMAIN puts : PollCompletion(puts[u], inflight) # "Pending"}
                         |-> PollCompletion(puts[t], inflight)]
    BY DEF TickPut
  <1>2. MajorityConflictWins'
    <2> SUFFICES ASSUME NEW t \in DOMAIN puts, PutReq[puts[t].owner].kind = "Mutable",
                        PollCompletion(puts[t], inflight) = "Ok", NEW i \in DOMAIN puts[t].errors,
                        puts[t].errors[i].code \in {301, 302},
                        2 * puts[t].errors[i].count > Cardinality(puts[t].sent)
                 PROVE  FALSE
      BY <1>1 DEF MajorityConflictWins
    <2> DEFINE p == puts[t]
    <2>1. p \in PutQueries /\ PutFacts(p, inflight, acked)
      BY PutParts DEF PutInv, PutsAccounted
    <2>2. i = 1
      BY <2>1, MajorityIsFirst
    <2>3. p.errors # <<>> /\ p.errors[1].count \in Nat /\ Cardinality(p.sent) \in Nat
      <3>1. p.errors \in Seq(ErrorCounts) /\ Cardinality(p.sent) \in Nat
        BY <2>1, PutNumbers, ZenonT(60)
      <3>2. p.errors[1].count \in Nat
        BY <2>2, <3>1, ErrorEntry
      <3>3. QED
        BY <2>2, <3>1, <3>2
    <2>4. HasCommonError(p)
      BY <2>2, <2>3 DEF HasCommonError
    <2>5. p.errors[1].count >= Cardinality(p.sent) \div 2 + 1
      <3>1. 2 * p.errors[1].count > Cardinality(p.sent)
        BY <2>2
      <3> HIDE DEF p
      <3>2. QED
        BY <2>3, <3>1
    <2>6. MajorityRejected(p)
      BY <2>4, <2>5 DEF MajorityRejected
    <2>7. PollCompletion(p, inflight) \in {"Pending", "CasFailed", "NotMostRecent"}
      BY <2>6 DEF PollCompletion, CommonError, NameOf
    <2>8. QED
      BY <2>7
  <1>3. QED
    BY <1>1, <1>2, QuietKeepsPuts

\* cleanup_done_queries: a put that starts has no answer yet, and its requests
\* are nobody else's.
LEMMA CleanupKeepsPuts ==
  ASSUME RpcInv, PutInv, Cleanup
  PROVE  PutInv'
  <1>1. /\ phase' = "maintain" /\ UNCHANGED <<acked, callState>>
        /\ puts' = [t \in DOMAIN puts \ (DOMAIN donePut \cup PutsWithoutNodes) |->
                      IF t \in PutsToStart THEN Start(puts[t], doneGet[t]) ELSE puts[t]]
        /\ inflight' = inflight \cup
             UNION {StartRequests(puts[t].owner, doneGet[t]) : t \in PutsToStart \ PutsWithoutNodes}
    BY DEF Cleanup
  <1>2. DOMAIN puts' \subseteq DOMAIN puts
    BY <1>1
  <1>3. ASSUME NEW t \in DOMAIN puts'
        PROVE  PutFacts(puts'[t], inflight', acked') /\ puts'[t].owner = puts[t].owner
    <2>1. /\ t \in DOMAIN puts /\ puts[t] \in PutQueries /\ PutFacts(puts[t], inflight, acked)
          /\ PutReq[puts[t].owner].target = t
      BY <1>2, PutParts DEF PutInv, PutsAccounted, OwnersKnown
    <2>2. CASE t \in PutsToStart
      <3> DEFINE p == Start(puts[t], doneGet[t])
      <3>1. puts'[t] = p /\ ~ Started(puts[t]) /\ t \in DOMAIN doneGet
        BY <1>1, <2>2 DEF PutsToStart
      <3>2. doneGet[t] \in SUBSET Entries
        BY <3>1 DEF RpcInv, TypeOK, IsMap
      <3>3. p \in PutQueries /\ p.sent = StartRequests(puts[t].owner, doneGet[t])
        BY <2>1, <3>2, StartType
      <3>4. p.owner = puts[t].owner /\ p.errors = puts[t].errors /\ p.storedAt = puts[t].storedAt
        BY <2>1 DEF Start, PutQueries
      <3>5. p.errors = <<>> /\ p.storedAt = 0 /\ AckedBy(puts[t], acked) = {}
        BY <2>1, <3>1, <3>4, NothingBeforeStart
      <3>6. \A r \in p.sent : r.owner = p.owner
        BY <3>3, <3>4 DEF StartRequests
      <3>7. AckedBy(p, acked') = {}
        BY <1>1, <3>4, <3>5 DEF AckedBy
      <3> HIDE DEF p
      <3>8. QED
        BY <3>1, <3>3, <3>4, <3>5, <3>6, <3>7, FactsAtStart
    <2>3. CASE t \notin PutsToStart
      <3>1. puts'[t] = puts[t]
        BY <1>1, <2>3
      <3>2. ASSUME NEW u \in PutsToStart, NEW r \in StartRequests(puts[u].owner, doneGet[u])
            PROVE  r \notin puts[t].sent
        <4>1. u \in DOMAIN puts /\ u # t /\ PutReq[puts[u].owner].target = u
          BY <2>3, <3>2 DEF PutsToStart, PutInv, OwnersKnown
        <4>2. r.owner = puts[u].owner
          BY DEF StartRequests
        <4>3. QED
          BY <2>1, <4>1, <4>2 DEF PutFacts
      <3>3. puts[t].sent \cap inflight' \subseteq inflight
        BY <1>1, <3>2
      <3>4. AckedBy(puts[t], acked') = AckedBy(puts[t], acked)
        BY <1>1
      <3>5. QED
        BY <2>1, <3>1, <3>3, <3>4, FactsKept
    <2>4. QED
      BY <2>2, <2>3
  <1>4. PutsAccounted' /\ OwnersKnown'
    BY <1>1, <1>2, <1>3, ZenonT(60) DEF PutInv, PutsAccounted, OwnersKnown
  <1>5. AckersKnown' /\ MajorityConflictWins'
    BY <1>1 DEF PutInv, AckersKnown, MajorityConflictWins
  <1>6. QED
    BY <1>4, <1>5 DEF PutInv

\* handle_response: an answer to a put request is counted for the put that sent
\* it and for no other.
LEMMA PutAnswerKeepsPuts ==
  ASSUME RpcInv, PutInv, NEW r \in inflight, NEW t \in DOMAIN puts, r \in puts[t].sent,
         NEW p \in PutQueries, puts' = [puts EXCEPT ![t] = p], p.owner = puts[t].owner,
         inflight' = inflight \ {r}, phase' = "report", callState' = callState,
         acked' = acked \/ acked' = acked \cup {<<r.owner, r.to>>},
         PutFacts(p, inflight', acked')
  PROVE  PutInv'
  <1>1. /\ DOMAIN puts' = DOMAIN puts /\ puts'[t] = p
        /\ \A u \in DOMAIN puts : u # t => puts'[u] = puts[u]
    BY DEF RpcInv, TypeOK, IsMap
  <1>2. r.owner = puts[t].owner /\ PutReq[r.owner].target = t /\ callState[r.owner] # "idle"
    BY DEF PutInv, PutsAccounted, PutFacts, OwnersKnown
  <1>3. ASSUME NEW u \in DOMAIN puts, u # t PROVE PutFacts(puts[u], inflight', acked')
    <2>1. puts[u] \in PutQueries /\ PutFacts(puts[u], inflight, acked) /\ puts[u].owner # r.owner
      BY <1>2, <1>3, PutParts DEF PutInv, PutsAccounted, OwnersKnown
    <2>2. AckedBy(puts[u], acked') = AckedBy(puts[u], acked)
      BY <2>1 DEF AckedBy
    <2>3. QED
      BY <2>1, <2>2, FactsKept
  <1>4. PutsAccounted'
    BY <1>1, <1>3 DEF PutsAccounted
  <1>5. OwnersKnown'
    BY <1>1 DEF PutInv, OwnersKnown
  <1>6. AckersKnown'
    BY <1>2 DEF PutInv, AckersKnown
  <1>7. MajorityConflictWins'
    BY DEF MajorityConflictWins
  <1>8. QED
    BY <1>4, <1>5, <1>6, <1>7 DEF PutInv

\* handle_message
LEMMA HandleMessageKeepsPuts ==
  ASSUME RpcInv, PutInv, HandleMessage
  PROVE  PutInv'
  <1>1. CASE NoMessage \/ OwnPing
    <2>1. /\ phase' = "report" /\ UNCHANGED <<puts, acked, callState>>
          /\ \A r \in inflight' : r.op \in {"put", "extra"} => r \in inflight
      BY <1>1 DEF NoMessage, OwnPing, Unaffected, JoinOrStart, QueryRequests
    <2>2. QED
      BY <2>1, VerdictsKept, QuietKeepsPuts
  <1>2. ASSUME NEW r \in inflight, ReadOnlyAnswer(r) \/ AnswerIgnored(r) \/ QueryAnswer(r)
        PROVE  PutInv'
    <2>1. /\ phase' = "report" /\ UNCHANGED <<puts, acked, callState>> /\ inflight' \subseteq inflight
      BY <1>2 DEF ReadOnlyAnswer, AnswerIgnored, QueryAnswer, Answered, Unaffected
    <2>2. QED
      BY <2>1, VerdictsKept, QuietKeepsPuts
  <1>3. ASSUME NEW r \in inflight, PutAck(r) PROVE PutInv'
    <2>1. /\ phase' = "report" /\ inflight' = inflight \ {r} /\ callState' = callState
          /\ acked' = acked \cup {<<r.owner, r.to>>}
      BY <1>3 DEF PutAck, Answered, Unaffected
    <2>2. PICK t \in DOMAIN puts : r \in puts[t].sent /\ puts' = [puts EXCEPT ![t] = Success(@)]
      BY <1>3 DEF PutAck, OfPut
    <2> DEFINE p == Success(puts[t])
    <2>3. puts[t] \in PutQueries /\ PutFacts(puts[t], inflight, acked)
      BY PutParts DEF PutInv, PutsAccounted
    <2>4. p \in PutQueries /\ p.owner = puts[t].owner
      BY <2>3, SuccessType DEF Success, PutQueries
    <2>5. PutFacts(p, inflight', acked')
      BY <2>1, <2>2, <2>3, FactsAck
    <2>6. puts' = [puts EXCEPT ![t] = p]
      BY <2>2
    <2> HIDE DEF p
    <2>7. QED
      BY <2>1, <2>2, <2>4, <2>5, <2>6, PutAnswerKeepsPuts
  <1>4. ASSUME NEW r \in inflight, PutRejected(r) PROVE PutInv'
    <2>1. /\ phase' = "report" /\ inflight' = inflight \ {r} /\ callState' = callState
          /\ acked' = acked
      BY <1>4 DEF PutRejected, Answered, Unaffected
    <2>2. PICK t \in DOMAIN puts, code \in Codes :
            r \in puts[t].sent /\ puts' = [puts EXCEPT ![t] = AddError(@, code)]
      BY <1>4 DEF PutRejected, OfPut
    <2> DEFINE p == AddError(puts[t], code)
    <2>3. puts[t] \in PutQueries /\ PutFacts(puts[t], inflight, acked)
      BY PutParts DEF PutInv, PutsAccounted
    <2>4. p \in PutQueries /\ p.owner = puts[t].owner
      BY <2>3, AddErrorIs DEF PutFacts
    <2>5. PutFacts(p, inflight', acked')
      BY <2>1, <2>2, <2>3, FactsError
    <2>6. puts' = [puts EXCEPT ![t] = p]
      BY <2>2
    <2> HIDE DEF p
    <2>7. QED
      BY <2>1, <2>2, <2>4, <2>5, <2>6, PutAnswerKeepsPuts
  <1>5. QED
    BY <1>1, <1>2, <1>3, <1>4 DEF HandleMessage

\* Every step of the loop and of the clock keeps PutInv.
LEMMA PutInvStep == RpcInv /\ PutInv /\ [Next]_vars => PutInv'
  <1> SUFFICES ASSUME RpcInv, PutInv, [Next]_vars PROVE PutInv'
    OBVIOUS
  <1>1. CASE Recv
    <2>1. CASE RecvNothing
      BY <2>1, VerdictsKept, QuietKeepsPuts DEF RecvNothing
    <2>2. ASSUME NEW c \in GetCalls, RecvGet(c) PROVE PutInv'
      <3>1. /\ phase' = "put" /\ UNCHANGED <<puts, acked>>
            /\ callState' = [callState EXCEPT ![c] = "waiting"]
            /\ \A r \in inflight' : r.op \in {"put", "extra"} => r \in inflight
        BY <2>2 DEF RecvGet, JoinOrStart, QueryRequests
      <3>2. \A d \in PutCalls : callState[d] # "idle" => callState'[d] # "idle"
        BY <3>1 DEF RpcInv, TypeOK, Calls
      <3>3. QED
        BY <3>1, <3>2, VerdictsKept, QuietKeepsPuts
    <2>3. ASSUME NEW c \in PutCalls, RecvPutRefused(c) \/ RecvPutJoin(c) PROVE PutInv'
      <3>1. /\ phase' = "put" /\ UNCHANGED <<puts, acked, inflight>>
            /\ \/ callState' = [callState EXCEPT ![c] = "waiting"]
               \/ callState' = [callState EXCEPT ![c] = "answered"]
        BY <2>3 DEF RecvPutRefused, RecvPutJoin, AwaitPut
      <3>2. \A d \in PutCalls : callState[d] # "idle" => callState'[d] # "idle"
        BY <3>1 DEF RpcInv, TypeOK, Calls
      <3>3. QED
        BY <3>1, <3>2, VerdictsKept, QuietKeepsPuts
    <2>4. ASSUME NEW c \in PutCalls, RecvPutFromCache(c) \/ RecvPutWithLookup(c) PROVE PutInv'
      BY <2>4, RecvPutKeepsPuts
    <2>5. QED
      BY <1>1, <2>1, <2>2, <2>3, <2>4 DEF Recv
  <1>2. CASE TickPut
    BY <1>2, TickPutKeepsPuts
  <1>3. CASE TickGet
    <2>1. /\ phase \in {"get", "cleanup"} /\ UNCHANGED <<puts, donePut, acked, callState>>
          /\ \A r \in inflight' : r.op \in {"put", "extra"} => r \in inflight
      BY <1>3 DEF TickGet, QueryRequests
    <2>2. QED
      BY <2>1, VerdictsKept, QuietKeepsPuts
  <1>4. CASE Cleanup
    BY <1>4, CleanupKeepsPuts
  <1>5. CASE Maintain
    <2>1. /\ phase' = "message" /\ UNCHANGED <<puts, acked, callState>>
          /\ \A r \in inflight' : r.op \in {"put", "extra"} => r \in inflight
      BY <1>5 DEF Maintain, JoinOrStart, QueryRequests
    <2>2. QED
      BY <2>1, VerdictsKept, QuietKeepsPuts
  <1>6. CASE HandleMessage
    BY <1>6, HandleMessageKeepsPuts
  <1>7. CASE Report
    <2>1. /\ phase' = "recv" /\ UNCHANGED <<puts, acked, inflight>>
          /\ \A c \in PutCalls : callState[c] # "idle" => callState'[c] # "idle"
      BY <1>7 DEF Report, Calls
    <2>2. QED
      BY <2>1, VerdictsKept, QuietKeepsPuts
  <1>8. CASE (\E r \in Requests : Expire(r)) \/ CacheAges \/ UNCHANGED vars
    <2>1. inflight' \subseteq inflight /\ UNCHANGED <<phase, puts, donePut, acked, callState>>
      BY <1>8 DEF Expire, CacheAges, vars
    <2>2. MajorityConflictWins'
      BY <2>1 DEF PutInv, MajorityConflictWins
    <2>3. QED
      BY <2>1, <2>2, QuietKeepsPuts
  <1>9. QED
    BY <1>1, <1>2, <1>3, <1>4, <1>5, <1>6, <1>7, <1>8 DEF Next, Loop

\* PutInv is an invariant of the query engine.
LEMMA PutInvHolds == Spec => [](RpcInv /\ PutInv)
  <1>1. Init => PutInv
    <2> SUFFICES ASSUME Init PROVE PutInv
      OBVIOUS
    <2>1. DOMAIN puts = {} /\ phase = "recv" /\ acked = {}
      BY EmptyIsMap DEF Init
    <2>2. QED
      BY <2>1 DEF PutInv, PutsAccounted, OwnersKnown, AckersKnown, MajorityConflictWins
  <1>2. QED
    BY <1>1, RpcInvInit, RpcInvStep, PutInvStep, PTL DEF Spec

\* PutOutcome::stored_at is the number of nodes that acknowledged the item.
THEOREM StoredAtCounted == Spec => []StoredAtCountsNodes
  <1>1. PutInv => StoredAtCountsNodes
    BY DEF PutInv, PutsAccounted, PutFacts, AcksAccounted, NoNodeTwice, AckedBy, StoredAtCountsNodes
  <1>2. QED
    BY <1>1, PutInvHolds, PTL

\* What the nodes answered decides what a put reports.
THEOREM ConflictsAreReported == Spec => []ConflictsSurface
  <1>1. RpcInv /\ PutInv => ConflictsSurface
    <2> SUFFICES ASSUME RpcInv, PutInv PROVE MostCommonErrorFirst
      BY DEF ConflictsSurface, PutInv
    <2> SUFFICES ASSUME NEW t \in DOMAIN puts
                 PROVE  LET e == puts[t].errors
                        IN  /\ \A i \in DOMAIN e : e[i].count >= 1 /\ e[i].count <= e[1].count
                            /\ \A i, j \in DOMAIN e : e[i].code = e[j].code => i = j
                            /\ Len(e) + puts[t].storedAt <= Cardinality(puts[t].sent)
      BY DEF MostCommonErrorFirst
    <2> DEFINE p == puts[t]
               e == p.errors
    <2>1. p \in PutQueries /\ PutFacts(p, inflight, acked)
      BY PutParts DEF PutInv, PutsAccounted
    <2>2. GoodErrors(e) /\ e \in Seq(ErrorCounts)
      BY <2>1, PutNumbers DEF PutFacts
    <2>3. ASSUME NEW i \in DOMAIN e PROVE e[i].count >= 1 /\ e[i].count <= e[1].count
      <3> HIDE DEF e
      <3>1. 1 \in DOMAIN e /\ i \in Nat /\ 1 <= i
        BY <2>2
      <3>2. e[i].count \in Nat /\ e[1].count \in Nat
        BY <2>2, <3>1, ErrorEntry
      <3>3. e[i].count >= 1 /\ (1 < i => e[1].count >= e[i].count)
        BY <2>2, <3>1 DEF GoodErrors
      <3>4. QED
        BY <3>1, <3>2, <3>3
    <2>4. Len(e) + p.storedAt <= Cardinality(p.sent)
      <3>1. /\ Len(e) \in Nat /\ p.storedAt \in Nat /\ Cardinality(p.sent \cap inflight) \in Nat
            /\ Cardinality(p.sent) \in Nat
        BY <2>1, PutNumbers
      <3>2. Len(e) + p.storedAt + Cardinality(p.sent \cap inflight) <= Cardinality(p.sent)
        BY <2>1 DEF PutFacts, AnswersAccounted
      <3> HIDE DEF e, p
      <3>3. QED
        BY <3>1, <3>2
    <2>5. \A i, j \in DOMAIN e : e[i].code = e[j].code => i = j
      BY <2>2 DEF GoodErrors
    <2>6. QED
      BY <2>3, <2>4, <2>5
  <1>2. QED
    BY <1>1, PutInvHolds, PTL

\* Rpc::put lets a mutable item replace the one under way only with a cas that
\* names it, and a seq that is not lower; every other step leaves the owner of a
\* put alone.
THEOREM OverridesAreExplicit == Spec => NoSilentOverride
  <1> DEFINE Explicit ==
        \A t \in DOMAIN puts \cap DOMAIN puts' :
          LET old == PutReq[puts[t].owner]
              new == PutReq[puts'[t].owner]
          IN  (old.kind = "Mutable" /\ new.kind = "Mutable" /\ old.sig # new.sig) =>
                 new.cas = {old.seq} /\ new.seq >= old.seq
  <1>1. RpcInv /\ [Next]_vars => Explicit \/ UNCHANGED vars
    <2> SUFFICES ASSUME RpcInv, Next PROVE Explicit
      OBVIOUS
    <2>1. ASSUME \A t \in DOMAIN puts \cap DOMAIN puts' : puts'[t].owner = puts[t].owner
          PROVE  Explicit
      BY <2>1
    <2>2. ASSUME NEW c \in PutCalls, RecvPutFromCache(c) \/ RecvPutWithLookup(c) PROVE Explicit
      <3> DEFINE u == PutReq[c].target
      <3>1. /\ Admitted(c) /\ DOMAIN puts' = DOMAIN puts \cup {u} /\ puts'[u].owner = c
            /\ \A t \in DOMAIN puts : t # u => puts'[t] = puts[t]
        BY <2>2 DEF RecvPutFromCache, RecvPutWithLookup, Put, Start, NewPut
      <3> SUFFICES ASSUME u \in DOMAIN puts, NEW old, old = PutReq[puts[u].owner],
                          old.kind = "Mutable", PutReq[c].kind = "Mutable", old.sig # PutReq[c].sig
                   PROVE  PutReq[c].cas = {old.seq} /\ PutReq[c].seq >= old.seq
        BY <3>1
      <3>2. Verdict(c) = "Override"
        BY <3>1 DEF Admitted, Conflicts
      <3>3. ~ (PutReq[c].seq < old.seq) /\ PutReq[c].cas = {old.seq}
        BY <3>2 DEF Verdict
      <3>4. PutReq[c].seq \in Nat /\ old.seq \in Nat
        BY PutParts, PutReqAssumption DEF PutReqAssumption, PutRequests
      <3>5. QED
        BY <3>3, <3>4
    <2>3. CASE Cleanup
      <3>1. \A t \in DOMAIN puts \cap DOMAIN puts' :
              puts'[t] = puts[t] \/ puts'[t] = Start(puts[t], doneGet[t])
        BY <2>3 DEF Cleanup
      <3>2. \A t \in DOMAIN puts : puts[t] \in PutQueries
        BY PutParts
      <3>3. \A t \in DOMAIN puts : Start(puts[t], doneGet[t]).owner = puts[t].owner
        BY <3>2 DEF Start, PutQueries
      <3>4. QED
        BY <2>1, <3>1, <3>3
    <2>4. ASSUME NEW r \in inflight, PutAck(r) \/ PutRejected(r) PROVE Explicit
      <3>1. PICK t \in DOMAIN puts, code \in Codes :
              \/ puts' = [puts EXCEPT ![t] = Success(@)]
              \/ puts' = [puts EXCEPT ![t] = AddError(@, code)]
        BY <2>4 DEF PutAck, PutRejected, OfPut, Codes
      <3>2. puts[t] \in PutQueries /\ IsMap(puts, Targets, PutQueries)
        BY PutParts DEF RpcInv, TypeOK
      <3>3. Success(puts[t]).owner = puts[t].owner /\ AddError(puts[t], code).owner = puts[t].owner
        BY <3>2 DEF Success, AddError, PutQueries
      <3>4. QED
        BY <2>1, <3>1, <3>2, <3>3 DEF IsMap
    <2>5. CASE puts' = puts
      BY <2>1, <2>5
    <2>6. QED
      BY <2>2, <2>3, <2>4, <2>5
      DEF Next, Loop, Recv, RecvNothing, RecvGet, RecvPutRefused, RecvPutJoin, TickPut, TickGet,
          Maintain, HandleMessage, NoMessage, OwnPing, ReadOnlyAnswer, AnswerIgnored, QueryAnswer,
          Report, Expire, CacheAges
  <1>2. QED
    BY <1>1, RpcInvInit, RpcInvStep, PTL DEF Spec, NoSilentOverride

-----------------------------------------------------------------------------
(* What Ok means *)

\* Storing r is as good as storing the request of c.
CoversCall(r, c) ==
  /\ r.kind = PutReq[c].kind /\ r.target = PutReq[c].target
  /\ r.sig = PutReq[c].sig \/ (r.kind = "Mutable" /\ r.seq >= PutReq[c].seq)

Backed(c) == \E a \in acked : CoversCall(PutReq[a[1]], c)

AnnouncedTo(t) ==
  \E d \in PutCalls : PutReq[d].kind = "Announce" /\ callState[d] # "idle" /\ PutReq[d].target = t

\* Put senders are kept only for a put that is under way or just done.
PutSendersServed ==
  \A t \in Targets : putSenders[t] # {} => t \in DOMAIN puts \cup DOMAIN donePut

\* Whoever waits for a put waits for an item that covers its own.
SendersCovered ==
  \A t \in DOMAIN puts : \A c \in putSenders[t] : PutReq[c].kind # "Announce" =>
    CoversCall(PutReq[puts[t].owner], c) \/ AnnouncedTo(t)

\* A put about to be reported Ok was acknowledged.
OkAcknowledged ==
  \A t \in DOMAIN donePut : donePut[t] = "Ok" =>
    \A c \in putSenders[t] : PutReq[c].kind # "Announce" => Backed(c) \/ AnnouncedTo(t)

StoredInv == PutSendersServed /\ SendersCovered /\ OkAcknowledged /\ OkMeansStored

\* OkMeansStored in these words.
LEMMA OkMeansBacked ==
  OkMeansStored <=>
    \A c \in PutCalls : result[c] = "Ok" /\ PutReq[c].kind # "Announce" =>
      Backed(c) \/ AnnouncedTo(PutReq[c].target)
  BY Zenon DEF OkMeansStored, Backed, AnnouncedTo, CoversCall

\* The parts of the requests that are compared.
LEMMA PutReqParts ==
  ASSUME NEW c \in PutCalls
  PROVE  /\ PutReq[c].kind \in {"Announce", "Immutable", "Mutable"}
         /\ PutReq[c].target \in Targets /\ PutReq[c].seq \in Nat
  BY PutReqAssumption DEF PutReqAssumption, PutRequests

\* Calls stay made and acknowledgements stay given.
LEMMA HistoryGrows ==
  ASSUME RpcInv, Next
  PROVE  /\ \A c \in PutCalls : callState[c] # "idle" => callState'[c] # "idle"
         /\ acked \subseteq acked'
  <1>1. acked \subseteq acked'
    BY DEF Next, Loop, Recv, RecvNothing, RecvGet, RecvPutRefused, RecvPutJoin, RecvPutFromCache,
        RecvPutWithLookup, AwaitPut, TickPut, TickGet, Cleanup, Maintain, HandleMessage, NoMessage,
        OwnPing, ReadOnlyAnswer, PutAck, PutRejected, AnswerIgnored, QueryAnswer, Report, Expire,
        CacheAges
  <1>2. \/ callState' = callState
        \/ \E c \in Calls : \/ callState' = [callState EXCEPT ![c] = "waiting"]
                             \/ callState' = [callState EXCEPT ![c] = "answered"]
        \/ callState' = [c \in Calls |-> IF Served(c) \/ Settled(c) THEN "answered" ELSE callState[c]]
    BY DEF Next, Loop, Recv, RecvNothing, RecvGet, RecvPutRefused, RecvPutJoin, RecvPutFromCache,
        RecvPutWithLookup, AwaitPut, TickPut, TickGet, Cleanup, Maintain, HandleMessage, NoMessage,
        OwnPing, ReadOnlyAnswer, PutAck, PutRejected, AnswerIgnored, QueryAnswer, Report, Expire,
        CacheAges, Unaffected, Calls
  <1>3. callState \in [Calls -> {"idle", "waiting", "answered"}] /\ PutCalls \subseteq Calls
    BY DEF RpcInv, TypeOK, Calls
  <1>4. QED
    BY <1>1, <1>2, <1>3

\* So what backs a call keeps backing it.
LEMMA BackingStays ==
  ASSUME RpcInv, Next
  PROVE  /\ \A c : Backed(c) => Backed(c)'
         /\ \A t : AnnouncedTo(t) => AnnouncedTo(t)'
  BY HistoryGrows DEF Backed, AnnouncedTo

\* A step that leaves the waiting callers and their puts alone.
LEMMA QuietKeepsStored ==
  ASSUME RpcInv, StoredInv, Next,
         UNCHANGED <<putSenders, donePut>>, DOMAIN puts' = DOMAIN puts,
         \A t \in DOMAIN puts : puts'[t].owner = puts[t].owner,
         \A c \in PutCalls : result'[c] = result[c] \/ result'[c] # "Ok"
  PROVE  StoredInv'
  <1>1. PutSendersServed'
    BY DEF StoredInv, PutSendersServed
  <1>2. SendersCovered'
    BY BackingStays DEF StoredInv, SendersCovered
  <1>3. OkAcknowledged'
    BY BackingStays DEF StoredInv, OkAcknowledged
  <1>4. OkMeansStored'
    <2>1. ASSUME NEW c \in PutCalls, result'[c] = "Ok", PutReq[c].kind # "Announce"
          PROVE  Backed(c)' \/ AnnouncedTo(PutReq[c].target)'
      BY <2>1, OkMeansBacked, BackingStays DEF StoredInv
    <2>2. QED
      BY <2>1 DEF OkMeansStored, Backed, AnnouncedTo, CoversCall
  <1>5. QED
    BY <1>1, <1>2, <1>3, <1>4 DEF StoredInv

\* Rpc::put takes over the callers of the put it replaces, and covers them.
LEMMA TakeoverCovers ==
  ASSUME RpcInv, PutInv, StoredInv, NEW c \in PutCalls, phase = "recv", Admitted(c),
         callState'[c] # "idle", \A d \in PutCalls : callState[d] # "idle" => callState'[d] # "idle",
         NEW s \in putSenders[PutReq[c].target] \cup {c}, PutReq[s].kind # "Announce"
  PROVE  CoversCall(PutReq[c], s) \/ AnnouncedTo(PutReq[c].target)'
  <1> DEFINE t == PutReq[c].target
  <1>1. CASE PutReq[c].kind = "Announce"
    BY <1>1 DEF AnnouncedTo
  <1>2. CASE s = c
    BY <1>2 DEF CoversCall
  <1>3. CASE s \in putSenders[t] /\ PutReq[c].kind # "Announce"
    <2>0. t \in Targets
      BY PutReqParts
    <2>1. s \in PutCalls /\ PutReq[s].target = t
      BY <1>3, <2>0 DEF RpcInv, TypeOK, SendersInv
    <2>2. t \in DOMAIN puts
      BY <1>3, <2>0 DEF RpcInv, PhaseInv, StoredInv, PutSendersServed
    <2> DEFINE o == puts[t].owner
    <2>3. o \in PutCalls /\ PutReq[o].target = t /\ callState[o] # "idle"
      BY <2>2, PutParts DEF PutInv, OwnersKnown
    <2>4. CASE PutReq[o].kind = "Announce"
      BY <2>3, <2>4 DEF AnnouncedTo
    <2>5. CASE AnnouncedTo(t)
      BY <2>5 DEF AnnouncedTo
    <2>6. CASE PutReq[o].kind # "Announce" /\ ~ AnnouncedTo(t)
      <3>1. PutReq[s].kind = PutReq[c].kind /\ PutReq[o].kind = PutReq[c].kind
        BY <1>3, <2>1, <2>3, <2>6, ContentAssumption
      <3>2. CASE PutReq[c].kind = "Immutable"
        <4>1. PutReq[c].sig = PutReq[s].sig
          BY <1>3, <2>1, <3>2, ContentAssumption
        <4>2. QED
          BY <2>1, <3>1, <4>1 DEF CoversCall
      <3>3. CASE PutReq[c].kind = "Mutable"
        <4>1. Verdict(c) = "Override"
          BY <2>2, <3>1, <3>3 DEF Admitted, Conflicts
        <4>2. ~ (PutReq[c].seq < PutReq[o].seq)
          BY <4>1 DEF Verdict
        <4>3. PutReq[o].sig = PutReq[s].sig \/ PutReq[o].seq >= PutReq[s].seq
          BY <1>3, <2>2, <2>6 DEF StoredInv, SendersCovered, CoversCall
        <4>4. PutReq[o].sig = PutReq[s].sig => PutReq[o].seq = PutReq[s].seq
          BY <2>1, <2>3, <3>1, <3>3, ContentAssumption
        <4>5. PutReq[c].seq \in Nat /\ PutReq[o].seq \in Nat /\ PutReq[s].seq \in Nat
          BY <2>1, <2>3, PutReqParts
        <4>6. PutReq[c].seq >= PutReq[s].seq
          BY <4>2, <4>3, <4>4, <4>5
        <4>7. QED
          BY <2>1, <3>1, <3>3, <4>6 DEF CoversCall
      <3>4. QED
        BY <1>3, <3>2, <3>3, PutReqParts
    <2>7. QED
      BY <2>4, <2>5, <2>6
  <1>4. QED
    BY <1>1, <1>2, <1>3

\* ActorMessage::Put, whether the caller joins a put or makes one.
LEMMA RecvPutKeepsStored ==
  ASSUME RpcInv, PutInv, StoredInv, Next, NEW c \in PutCalls,
         RecvPutJoin(c) \/ RecvPutFromCache(c) \/ RecvPutWithLookup(c)
  PROVE  StoredInv'
  <1> DEFINE t == PutReq[c].target
  <1>1. /\ phase = "recv" /\ AwaitPut(c) /\ t \in Targets
        /\ putSenders' = [putSenders EXCEPT ![t] = @ \cup {c}]
        /\ UNCHANGED <<result, donePut, acked>>
        /\ callState' = [callState EXCEPT ![c] = "waiting"]
    BY PutReqParts DEF RecvPutJoin, RecvPutFromCache, RecvPutWithLookup, MayCall, AwaitPut
  <1>2. /\ putSenders'[t] = putSenders[t] \cup {c}
        /\ \A u \in Targets : u # t => putSenders'[u] = putSenders[u]
        /\ callState'[c] # "idle"
        /\ \A d \in PutCalls : callState[d] # "idle" => callState'[d] # "idle"
        /\ DOMAIN donePut = {}
    BY <1>1 DEF RpcInv, TypeOK, PhaseInv, Calls
  <1>3. /\ t \in DOMAIN puts' /\ DOMAIN puts' = DOMAIN puts \cup {t}
        /\ \A u \in DOMAIN puts : u # t => puts'[u] = puts[u]
        /\ \/ puts' = puts /\ Conflicts(c) /\ Verdict(c) = "Join"
           \/ puts'[t].owner = c /\ Admitted(c)
    <2>1. CASE RecvPutJoin(c)
      <3>1. puts' = puts /\ Conflicts(c) /\ Verdict(c) = "Join" /\ t \in DOMAIN puts
        BY <2>1 DEF RecvPutJoin, Conflicts
      <3>2. QED
        BY <3>1
    <2>2. CASE RecvPutFromCache(c) \/ RecvPutWithLookup(c)
      <3>1. PICK p : puts' = Put(puts, t, p) /\ p.owner = c /\ Admitted(c)
        BY <2>2 DEF RecvPutFromCache, RecvPutWithLookup, Start, NewPut
      <3>2. QED
        BY <3>1 DEF Put
    <2>3. QED
      BY <2>1, <2>2
  <1>4. ASSUME NEW s \in putSenders'[t], PutReq[s].kind # "Announce"
        PROVE  CoversCall(PutReq[puts'[t].owner], s) \/ AnnouncedTo(t)'
    <2>1. CASE puts'[t].owner = c /\ Admitted(c)
      BY <1>1, <1>2, <1>4, <2>1, TakeoverCovers
    <2>2. CASE puts' = puts /\ Conflicts(c) /\ Verdict(c) = "Join"
      <3>1. CASE s = c
        <4>1. /\ PutReq[c].sig = PutReq[puts[t].owner].sig /\ PutReq[c].kind = "Mutable"
              /\ PutReq[puts[t].owner].kind = "Mutable"
          BY <2>2 DEF Verdict, Conflicts
        <4>2. PutReq[puts[t].owner].target = t
          BY <1>3, <2>2 DEF PutInv, OwnersKnown
        <4>3. QED
          BY <2>2, <3>1, <4>1, <4>2 DEF CoversCall
      <3>2. CASE s \in putSenders[t]
        <4>1. CoversCall(PutReq[puts[t].owner], s) \/ AnnouncedTo(t)
          BY <1>3, <1>4, <2>2, <3>2 DEF StoredInv, SendersCovered
        <4>2. QED
          BY <2>2, <4>1, BackingStays
      <3>3. QED
        BY <1>2, <1>4, <3>1, <3>2
    <2>3. QED
      BY <1>3, <2>1, <2>2
  <1>5. PutSendersServed'
    <2> SUFFICES ASSUME NEW u \in Targets, putSenders'[u] # {} PROVE u \in DOMAIN puts'
      BY DEF PutSendersServed
    <2>1. CASE u # t
      BY <1>2, <1>3, <2>1 DEF StoredInv, PutSendersServed
    <2>2. QED
      BY <1>3, <2>1
  <1>6. SendersCovered'
    <2> SUFFICES ASSUME NEW u \in DOMAIN puts', NEW s \in putSenders'[u], PutReq[s].kind # "Announce"
                 PROVE  CoversCall(PutReq[puts'[u].owner], s) \/ AnnouncedTo(u)'
      BY DEF SendersCovered
    <2>1. CASE u = t
      BY <1>4, <2>1
    <2>2. CASE u # t
      <3>1. u \in DOMAIN puts /\ puts'[u] = puts[u] /\ s \in putSenders[u]
        BY <1>2, <1>3, <2>2, PutParts
      <3>2. CoversCall(PutReq[puts[u].owner], s) \/ AnnouncedTo(u)
        BY <3>1 DEF StoredInv, SendersCovered
      <3>3. QED
        BY <3>1, <3>2, BackingStays
    <2>3. QED
      BY <2>1, <2>2
  <1>7. OkAcknowledged'
    BY <1>1, <1>2 DEF OkAcknowledged
  <1>8. OkMeansStored'
    <2>1. ASSUME NEW d \in PutCalls, result'[d] = "Ok", PutReq[d].kind # "Announce"
          PROVE  Backed(d)' \/ AnnouncedTo(PutReq[d].target)'
      BY <1>1, <2>1, OkMeansBacked, BackingStays DEF StoredInv
    <2>2. QED
      BY <2>1 DEF OkMeansStored, Backed, AnnouncedTo, CoversCall
  <1>9. QED
    BY <1>5, <1>6, <1>7, <1>8 DEF StoredInv

\* tick_put_queries: Ok means that stored_at is not zero.
LEMMA TickPutKeepsStored ==
  ASSUME RpcInv, PutInv, StoredInv, Next, TickPut
  PROVE  StoredInv'
  <1>1. /\ UNCHANGED <<puts, putSenders, acked, callState, result>> /\ phase = "put"
        /\ donePut' = [t \in {u \in DOMAIN puts : PollCompletion(puts[u], inflight) # "Pending"}
                         |-> PollCompletion(puts[t], inflight)]
    BY DEF TickPut
  <1>2. DOMAIN donePut = {} /\ DOMAIN donePut' \subseteq DOMAIN puts
    BY <1>1 DEF RpcInv, PhaseInv
  <1>3. PutSendersServed'
    BY <1>1, <1>2 DEF StoredInv, PutSendersServed
  <1>4. SendersCovered' /\ OkMeansStored'
    BY <1>1 DEF StoredInv, SendersCovered, OkMeansStored, AnnouncedTo
  <1>5. OkAcknowledged'
    <2> SUFFICES ASSUME NEW t \in DOMAIN puts, PollCompletion(puts[t], inflight) = "Ok",
                        NEW c \in putSenders[t], PutReq[c].kind # "Announce"
                 PROVE  Backed(c) \/ AnnouncedTo(t)
      BY <1>1 DEF OkAcknowledged, Backed, AnnouncedTo
    <2>1. puts[t].storedAt > 0
      BY DEF PollCompletion, CommonError, NameOf
    <2>2. PICK n : <<puts[t].owner, n>> \in acked
      BY <2>1 DEF PutInv, PutsAccounted, PutFacts, AcksAccounted, AckedBy
    <2>3. CoversCall(PutReq[puts[t].owner], c) \/ AnnouncedTo(t)
      BY DEF StoredInv, SendersCovered
    <2>4. QED
      BY <2>2, <2>3 DEF Backed
  <1>6. QED
    BY <1>3, <1>4, <1>5 DEF StoredInv

\* cleanup_done_queries drops a put together with a result for its callers.
LEMMA CleanupKeepsStored ==
  ASSUME RpcInv, PutInv, StoredInv, Next, Cleanup
  PROVE  StoredInv'
  <1>1. /\ UNCHANGED <<putSenders, acked, callState, result>> /\ donePut' = DonePuts
        /\ puts' = [t \in DOMAIN puts \ (DOMAIN donePut \cup PutsWithoutNodes) |->
                      IF t \in PutsToStart THEN Start(puts[t], doneGet[t]) ELSE puts[t]]
    BY DEF Cleanup
  <1>2. /\ DOMAIN donePut' = DOMAIN donePut \cup PutsWithoutNodes
        /\ \A t \in DOMAIN donePut' : donePut'[t] = "Ok" => t \in DOMAIN donePut /\ donePut[t] = "Ok"
    BY <1>1 DEF DonePuts
  <1>3. \A t \in DOMAIN puts' : t \in DOMAIN puts /\ puts'[t].owner = puts[t].owner
    <2>1. \A t \in DOMAIN puts : Start(puts[t], doneGet[t]).owner = puts[t].owner
      BY PutParts DEF Start, PutQueries
    <2>2. QED
      BY <1>1, <2>1
  <1>4. PutSendersServed'
    BY <1>1, <1>2 DEF StoredInv, PutSendersServed
  <1>5. SendersCovered' /\ OkMeansStored'
    BY <1>1, <1>3 DEF StoredInv, SendersCovered, OkMeansStored, AnnouncedTo
  <1>6. OkAcknowledged'
    BY <1>1, <1>2 DEF StoredInv, OkAcknowledged, Backed, AnnouncedTo
  <1>7. QED
    BY <1>4, <1>5, <1>6 DEF StoredInv

\* The report tells every caller of a put its result, and lets it go.
LEMMA ReportKeepsStored ==
  ASSUME RpcInv, StoredInv, Next, Report
  PROVE  StoredInv'
  <1>1. /\ UNCHANGED <<puts, acked>> /\ DOMAIN donePut' = {}
        /\ putSenders' = [t \in Targets |-> IF t \in DOMAIN donePut THEN {} ELSE putSenders[t]]
        /\ result' = [c \in PutCalls |->
                        IF Settled(c) THEN donePut[PutReq[c].target] ELSE result[c]]
    BY EmptyIsMap DEF Report
  <1>2. PutSendersServed'
    BY <1>1 DEF StoredInv, PutSendersServed
  <1>3. SendersCovered'
    <2> SUFFICES ASSUME NEW t \in DOMAIN puts, NEW c \in putSenders'[t], PutReq[c].kind # "Announce"
                 PROVE  CoversCall(PutReq[puts[t].owner], c) \/ AnnouncedTo(t)'
      BY <1>1 DEF SendersCovered
    <2>1. c \in putSenders[t]
      BY <1>1, PutParts
    <2>2. QED
      BY <2>1, BackingStays DEF StoredInv, SendersCovered
  <1>4. OkAcknowledged'
    BY <1>1 DEF OkAcknowledged
  <1>5. OkMeansStored'
    <2>1. ASSUME NEW c \in PutCalls, result'[c] = "Ok", PutReq[c].kind # "Announce"
          PROVE  Backed(c)' \/ AnnouncedTo(PutReq[c].target)'
      <3>1. CASE Settled(c)
        <4>1. PICK t \in DOMAIN donePut : c \in putSenders[t]
          BY <3>1 DEF Settled
        <4>2. t \in Targets
          BY <4>1 DEF RpcInv, TypeOK, IsMap
        <4>3. PutReq[c].target = t
          BY <4>1, <4>2 DEF RpcInv, SendersInv
        <4>4. donePut[t] = "Ok"
          BY <1>1, <2>1, <3>1, <4>3
        <4>5. Backed(c) \/ AnnouncedTo(t)
          BY <2>1, <4>1, <4>4 DEF StoredInv, OkAcknowledged
        <4>6. QED
          BY <4>3, <4>5, BackingStays
      <3>2. CASE ~ Settled(c)
        BY <1>1, <2>1, <3>2, OkMeansBacked, BackingStays DEF StoredInv
      <3>3. QED
        BY <3>1, <3>2
    <2>2. QED
      BY <2>1 DEF OkMeansStored, Backed, AnnouncedTo, CoversCall
  <1>6. QED
    BY <1>2, <1>3, <1>4, <1>5 DEF StoredInv

\* Every step keeps StoredInv.
LEMMA StoredInvStep == RpcInv /\ PutInv /\ StoredInv /\ [Next]_vars => StoredInv'
  <1> SUFFICES ASSUME RpcInv, PutInv, StoredInv, [Next]_vars PROVE StoredInv'
    OBVIOUS
  <1>1. CASE UNCHANGED vars
    BY <1>1 DEF vars, StoredInv, PutSendersServed, SendersCovered, OkAcknowledged, OkMeansStored,
          Backed, AnnouncedTo
  <1>2. ASSUME Next PROVE StoredInv'
    <2>1. ASSUME NEW c \in PutCalls, RecvPutJoin(c) \/ RecvPutFromCache(c) \/ RecvPutWithLookup(c)
          PROVE  StoredInv'
      BY <1>2, <2>1, RecvPutKeepsStored
    <2>2. ASSUME NEW c \in PutCalls, RecvPutRefused(c) PROVE StoredInv'
      <3>1. /\ UNCHANGED <<puts, putSenders, donePut>>
            /\ result' = [result EXCEPT ![c] = Verdict(c)] /\ Verdict(c) # "Ok"
        BY <2>2 DEF RecvPutRefused
      <3>2. \A d \in PutCalls : result'[d] = result[d] \/ result'[d] # "Ok"
        BY <3>1 DEF RpcInv, TypeOK
      <3>3. QED
        BY <1>2, <3>1, <3>2, QuietKeepsStored
    <2>3. CASE TickPut \/ Cleanup \/ Report
      BY <1>2, <2>3, TickPutKeepsStored, CleanupKeepsStored, ReportKeepsStored
    <2>4. ASSUME NEW r \in inflight, PutAck(r) \/ PutRejected(r) PROVE StoredInv'
      <3>1. UNCHANGED <<putSenders, donePut, result>>
        BY <2>4 DEF PutAck, PutRejected, Unaffected
      <3>2. PICK t \in DOMAIN puts, code \in Codes :
              \/ puts' = [puts EXCEPT ![t] = Success(@)]
              \/ puts' = [puts EXCEPT ![t] = AddError(@, code)]
        BY <2>4 DEF PutAck, PutRejected, OfPut, Codes
      <3>3. puts[t] \in PutQueries /\ IsMap(puts, Targets, PutQueries)
        BY PutParts DEF RpcInv, TypeOK
      <3>4. Success(puts[t]).owner = puts[t].owner /\ AddError(puts[t], code).owner = puts[t].owner
        BY <3>3 DEF Success, AddError, PutQueries
      <3>5. /\ DOMAIN puts' = DOMAIN puts
            /\ \A u \in DOMAIN puts : puts'[u].owner = puts[u].owner
        BY <3>2, <3>3, <3>4 DEF IsMap
      <3>6. QED
        BY <1>2, <3>1, <3>5, QuietKeepsStored
    <2>5. CASE UNCHANGED <<puts, putSenders, donePut, result>>
      BY <1>2, <2>5, QuietKeepsStored
    <2>6. QED
      BY <1>2, <2>1, <2>2, <2>3, <2>4, <2>5
      DEF Next, Loop, Recv, RecvNothing, RecvGet, TickGet, Maintain, HandleMessage, NoMessage,
          OwnPing, ReadOnlyAnswer, AnswerIgnored, QueryAnswer, Unaffected, Expire, CacheAges
  <1>3. QED
    BY <1>1, <1>2

\* A put is reported Ok only if some node acknowledged the caller's item, or one
\* that stands for it.
THEOREM OkMeansAcknowledged == Spec => []OkMeansStored
  <1>1. Init => StoredInv
    <2> SUFFICES ASSUME Init PROVE StoredInv
      OBVIOUS
    <2>1. DOMAIN puts = {} /\ DOMAIN donePut = {}
      BY EmptyIsMap DEF Init
    <2>2. QED
      BY <2>1 DEF Init, StoredInv, PutSendersServed, SendersCovered, OkAcknowledged, OkMeansStored
  <1>2. StoredInv => OkMeansStored
    BY DEF StoredInv
  <1>3. RpcInv /\ PutInv /\ StoredInv /\ [Next]_vars => StoredInv'
    BY StoredInvStep
  <1>4. QED
    BY <1>1, <1>2, <1>3, PutInvHolds, PTL DEF Spec

-----------------------------------------------------------------------------
(* A put gets to its storage nodes *)

PutTargets == {PutReq[c].target : c \in PutCalls}

\* Nobody looks for nodes near the target of a put: no FindNode call names it
\* and it is not an id of this node.  Without it a put may hang: it finds a
\* lookup, or cached nodes, that carry no tokens.
NoFindNodeOnItems ==
  /\ PutTargets \cap SelfTargets = {}
  /\ \A g \in GetCalls : GetReq[g].target \in PutTargets => GetReq[g].kind # "FindNode"

\* Then lookups of put targets are value lookups, and the nodes cached for them
\* all gave a token.
ReachInv ==
  /\ \A t \in DOMAIN queries \cap PutTargets : queries[t].kind # "FindNode"
  /\ \A t \in DOMAIN cached \cap PutTargets : \A e \in cached[t] : e.token
  /\ UnstartedPutHasLookup

\* A put whose nodes all have a token sends a request to each.
LEMMA TokensStartPuts ==
  ASSUME NEW p \in PutQueries, NEW es \in SUBSET Entries, es # {}, \A e \in es : e.token
  PROVE  Started(Start(p, es))
  <1>1. PICK e \in es : e.token
    OBVIOUS
  <1>2. [owner |-> p.owner, to |-> e.node, op |-> "put"] \in StartRequests(p.owner, es)
    BY <1>1 DEF StartRequests, NodesOf
  <1>3. QED
    BY <1>2, StartType DEF Started

\* A step that leaves the puts and the cache alone and starts no FindNode lookup
\* of a put target.
LEMMA LookupsKeepReach ==
  ASSUME RpcInv, PutInv, ReachInv, NEW ts \in SUBSET (DOMAIN queries' \ DOMAIN queries),
         DOMAIN queries' = DOMAIN queries \cup ts,
         \A t \in DOMAIN queries : queries'[t].kind = queries[t].kind,
         \A t \in ts \cap PutTargets : queries'[t].kind # "FindNode",
         cached' = cached, DOMAIN puts' = DOMAIN puts,
         \A t \in DOMAIN puts : puts'[t].sent = puts[t].sent
  PROVE  ReachInv'
  <1>1. \A t \in DOMAIN queries' \cap PutTargets : queries'[t].kind # "FindNode"
    BY DEF ReachInv
  <1>2. UnstartedPutHasLookup'
    BY DEF ReachInv, UnstartedPutHasLookup, Started
  <1>3. QED
    BY <1>1, <1>2 DEF ReachInv

\* Rpc::get
LEMMA StartsKeepReach ==
  ASSUME RpcInv, LookupInv, PutInv, ReachInv, NEW t \in Targets, NEW kind \in QueryKinds,
         JoinOrStart(t, kind), t \in PutTargets => kind # "FindNode", UNCHANGED <<cached, puts>>
  PROVE  ReachInv'
  <1>1. /\ DOMAIN queries' = DOMAIN queries \cup {t}
        /\ \A x \in DOMAIN queries : queries'[x] = queries[x]
        /\ t \notin DOMAIN queries => queries'[t].kind = kind
    BY JoinOrStartLookup
  <1> DEFINE ts == {t} \ DOMAIN queries
  <1>2. ts \in SUBSET (DOMAIN queries' \ DOMAIN queries) /\ DOMAIN queries' = DOMAIN queries \cup ts
    BY <1>1
  <1>3. \A x \in ts \cap PutTargets : queries'[x].kind # "FindNode"
    BY <1>1
  <1>4. QED
    BY <1>1, <1>2, <1>3, LookupsKeepReach

\* A step that changes no lookup, no cached node and no put.
LEMMA QuietKeepsReach ==
  ASSUME RpcInv, PutInv, ReachInv, UNCHANGED <<queries, cached, puts>>
  PROVE  ReachInv'
  BY DEF ReachInv, UnstartedPutHasLookup

\* Rpc::put starts at once with cached nodes, or waits for a value lookup.
LEMMA RecvPutKeepsReach ==
  ASSUME RpcInv, LookupInv, PutInv, ReachInv, NEW c \in PutCalls,
         RecvPutFromCache(c) \/ RecvPutWithLookup(c)
  PROVE  ReachInv'
  <1> DEFINE t == PutReq[c].target
  <1>0. t \in PutTargets /\ t \in Targets /\ NewPut(c) \in PutQueries
    BY PutReqParts, NewPutType DEF PutTargets
  <1>1. CASE RecvPutFromCache(c)
    <2> DEFINE p == Start(NewPut(c), cached[t])
    <2>1. /\ puts' = Put(puts, t, p) /\ UNCHANGED <<queries, cached>>
          /\ t \in DOMAIN cached /\ cached[t] # {}
      BY <1>1 DEF RecvPutFromCache, CacheUsable, AwaitPut
    <2>2. cached[t] \in SUBSET Entries /\ \A e \in cached[t] : e.token
      BY <1>0, <2>1 DEF RpcInv, TypeOK, IsMap, ReachInv
    <2>3. Started(p)
      BY <1>0, <2>1, <2>2, TokensStartPuts
    <2>4. /\ DOMAIN puts' = DOMAIN puts \cup {t} /\ puts'[t] = p
          /\ \A u \in DOMAIN puts : u # t => puts'[u] = puts[u]
      BY <2>1 DEF Put
    <2> HIDE DEF p
    <2>5. QED
      BY <2>1, <2>3, <2>4 DEF ReachInv, UnstartedPutHasLookup
  <1>2. CASE RecvPutWithLookup(c)
    <2>1. puts' = Put(puts, t, NewPut(c)) /\ cached' = cached /\ JoinOrStart(t, "GetValue")
      BY <1>2 DEF RecvPutWithLookup, AwaitPut
    <2>2. /\ DOMAIN queries' = DOMAIN queries \cup {t}
          /\ \A x \in DOMAIN queries : queries'[x] = queries[x]
          /\ t \notin DOMAIN queries => queries'[t].kind = "GetValue"
      BY <1>0, <2>1, JoinOrStartLookup DEF QueryKinds
    <2>3. /\ DOMAIN puts' = DOMAIN puts \cup {t}
          /\ \A u \in DOMAIN puts : u # t => puts'[u] = puts[u]
      BY <2>1 DEF Put
    <2>4. \A u \in DOMAIN queries' \cap PutTargets : queries'[u].kind # "FindNode"
      BY <2>2 DEF ReachInv
    <2>5. UnstartedPutHasLookup'
      BY <1>0, <2>2, <2>3, <2>4 DEF ReachInv, UnstartedPutHasLookup
    <2>6. QED
      BY <2>1, <2>4, <2>5 DEF ReachInv
  <1>3. QED
    BY <1>1, <1>2

\* cleanup_done_queries starts the puts that waited for a lookup, or fails them.
LEMMA CleanupKeepsReach ==
  ASSUME RpcInv, LookupInv, PutInv, ReachInv, Cleanup
  PROVE  ReachInv'
  <1>1. /\ phase = "cleanup" /\ queries' = Without(queries, DOMAIN doneGet)
        /\ cached' = [t \in DOMAIN cached \cup ToCache |->
                        IF t \in ToCache THEN doneGet[t] ELSE cached[t]]
        /\ puts' = [t \in DOMAIN puts \ (DOMAIN donePut \cup PutsWithoutNodes) |->
                      IF t \in PutsToStart THEN Start(puts[t], doneGet[t]) ELSE puts[t]]
    BY DEF Cleanup
  <1>2. /\ DOMAIN queries' = DOMAIN queries \ DOMAIN doneGet
        /\ \A t \in DOMAIN queries' : queries'[t] = queries[t]
    BY <1>1 DEF Without
  <1>3. ASSUME NEW t \in DOMAIN doneGet \cap PutTargets
        PROVE  queries[t].kind # "FindNode" /\ \A e \in doneGet[t] : e.token
    <2>1. t \in DOMAIN queries
      BY <1>1 DEF RpcInv, PhaseInv
    <2>2. QED
      BY <1>1, <2>1 DEF ReachInv, LookupInv, StorageNodesHaveTokens
  <1>4. \A t \in DOMAIN cached' \cap PutTargets : \A e \in cached'[t] : e.token
    BY <1>1, <1>3 DEF ReachInv, ToCache
  <1>5. ASSUME NEW t \in DOMAIN puts', ~ Started(puts'[t])
        PROVE  t \in DOMAIN queries' /\ queries'[t].kind # "FindNode"
    <2>1. t \in DOMAIN puts /\ puts[t] \in PutQueries /\ t \in PutTargets
      BY <1>1, PutParts DEF PutInv, OwnersKnown, PutTargets
    <2>2. t \notin PutsToStart
      <3>1. SUFFICES ASSUME t \in PutsToStart PROVE FALSE
        OBVIOUS
      <3>2. t \in DOMAIN doneGet /\ doneGet[t] # {} /\ puts'[t] = Start(puts[t], doneGet[t])
        BY <1>1, <3>1 DEF PutsToStart, PutsWithoutNodes
      <3>3. doneGet[t] \in SUBSET Entries /\ \A e \in doneGet[t] : e.token
        BY <1>3, <2>1, <3>2 DEF RpcInv, TypeOK, IsMap
      <3>4. QED
        BY <1>5, <2>1, <3>2, <3>3, TokensStartPuts
    <2>3. puts'[t] = puts[t]
      BY <1>1, <2>2
    <2>4. t \in DOMAIN queries /\ queries[t].kind # "FindNode"
      BY <1>5, <2>1, <2>3 DEF ReachInv, UnstartedPutHasLookup
    <2>5. t \notin DOMAIN doneGet
      BY <1>5, <2>1, <2>2, <2>3, <2>4 DEF PutsToStart
    <2>6. QED
      BY <1>2, <2>4, <2>5
  <1>6. QED
    BY <1>2, <1>4, <1>5 DEF ReachInv, UnstartedPutHasLookup

\* An answer changes no put's requests and no lookup's kind.
LEMMA HandleMessageKeepsReach ==
  ASSUME NoFindNodeOnItems, RpcInv, LookupInv, PutInv, ReachInv, HandleMessage
  PROVE  ReachInv'
  <1>1. CASE NoMessage
    BY <1>1, QuietKeepsReach DEF NoMessage, Unaffected
  <1>2. CASE OwnPing
    <2>1. PICK t \in SelfTargets : JoinOrStart(t, "FindNode")
      BY <1>2 DEF OwnPing
    <2>2. t \in Targets /\ "FindNode" \in QueryKinds /\ t \notin PutTargets
      BY RpcAssumption DEF QueryKinds, NoFindNodeOnItems
    <2>3. QED
      BY <1>2, <2>1, <2>2, StartsKeepReach DEF OwnPing, Unaffected
  <1>3. ASSUME NEW r \in inflight, AnswerIgnored(r) PROVE ReachInv'
    BY <1>3, QuietKeepsReach DEF AnswerIgnored, Unaffected
  <1>4. ASSUME NEW r \in inflight, PutAck(r) \/ PutRejected(r) PROVE ReachInv'
    <2>1. UNCHANGED <<queries, cached>>
      BY <1>4 DEF PutAck, PutRejected, Unaffected
    <2>2. PICK t \in DOMAIN puts, code \in Codes :
            \/ puts' = [puts EXCEPT ![t] = Success(@)]
            \/ puts' = [puts EXCEPT ![t] = AddError(@, code)]
      BY <1>4 DEF PutAck, PutRejected, OfPut, Codes
    <2>3. puts[t] \in PutQueries /\ IsMap(puts, Targets, PutQueries)
      BY PutParts DEF RpcInv, TypeOK
    <2>4. Success(puts[t]).sent = puts[t].sent /\ AddError(puts[t], code).sent = puts[t].sent
      BY <2>3 DEF Success, AddError, PutQueries
    <2>5. /\ DOMAIN puts' = DOMAIN puts
          /\ \A u \in DOMAIN puts : puts'[u].sent = puts[u].sent
      BY <2>2, <2>3, <2>4 DEF IsMap
    <2>6. QED
      BY <2>1, <2>5 DEF ReachInv, UnstartedPutHasLookup, Started
  <1>5. ASSUME NEW r \in inflight, ReadOnlyAnswer(r) \/ QueryAnswer(r) PROVE ReachInv'
    <2>1. UNCHANGED <<puts, cached>>
      BY <1>5 DEF ReadOnlyAnswer, QueryAnswer, Unaffected
    <2>2. /\ DOMAIN queries' = DOMAIN queries
          /\ \A t \in DOMAIN queries : queries'[t].kind = queries[t].kind
      <3>1. \A t \in DOMAIN queries : queries[t] \in Queries
        BY QueryParts
      <3>2. IsMap(queries, Targets, Queries)
        BY DEF RpcInv, TypeOK
      <3>3. CASE ReadOnlyAnswer(r)
        BY <3>1, <3>2, <3>3 DEF ReadOnlyAnswer, OfQuery, IsMap, Queries
      <3>4. CASE QueryAnswer(r)
        <4>1. PICK body, nodes : queries' = [queries EXCEPT ![r.owner] = Hear(@, r, body, nodes)]
          BY <3>4 DEF QueryAnswer
        <4>2. \A t \in DOMAIN queries : Hear(queries[t], r, body, nodes).kind = queries[t].kind
          BY <3>1 DEF Hear, Queries
        <4>3. QED
          BY <3>2, <4>1, <4>2 DEF IsMap
      <3>5. QED
        BY <1>5, <3>3, <3>4
    <2>3. QED
      BY <2>1, <2>2 DEF ReachInv, UnstartedPutHasLookup
  <1>6. QED
    BY <1>1, <1>2, <1>3, <1>4, <1>5 DEF HandleMessage

\* Every step keeps ReachInv.
LEMMA ReachInvStep ==
  ASSUME NoFindNodeOnItems, RpcInv, LookupInv, PutInv, ReachInv, [Next]_vars
  PROVE  ReachInv'
  <1>1. CASE Recv
    <2>1. ASSUME NEW c \in GetCalls, RecvGet(c) PROVE ReachInv'
      <3>1. GetReq[c].target \in Targets /\ GetReq[c].kind \in QueryKinds
        BY RequestTargets
      <3>2. GetReq[c].target \in PutTargets => GetReq[c].kind # "FindNode"
        BY DEF NoFindNodeOnItems
      <3>3. JoinOrStart(GetReq[c].target, GetReq[c].kind) /\ UNCHANGED <<cached, puts>>
        BY <2>1 DEF RecvGet
      <3>4. QED
        BY <3>1, <3>2, <3>3, StartsKeepReach
    <2>2. ASSUME NEW c \in PutCalls, RecvPutFromCache(c) \/ RecvPutWithLookup(c) PROVE ReachInv'
      BY <2>2, RecvPutKeepsReach
    <2>3. CASE UNCHANGED <<queries, cached, puts>>
      BY <2>3, QuietKeepsReach
    <2>4. QED
      BY <1>1, <2>1, <2>2, <2>3 DEF Recv, RecvNothing, RecvPutRefused, RecvPutJoin, AwaitPut
  <1>2. CASE TickGet
    <2>1. /\ queries' = [t \in DOMAIN queries |-> VisitClosest(t, queries[t])]
          /\ UNCHANGED <<cached, puts>>
      BY <1>2 DEF TickGet
    <2>2. \A t \in DOMAIN queries : queries'[t].kind = queries[t].kind
      BY <2>1, QueryParts, VisitClosestType
    <2>3. DOMAIN queries' = DOMAIN queries
      BY <2>1
    <2>4. QED
      BY <2>1, <2>2, <2>3 DEF ReachInv, UnstartedPutHasLookup
  <1>3. CASE Cleanup
    BY <1>3, CleanupKeepsReach
  <1>4. CASE Maintain
    <2>1. UNCHANGED <<cached, puts>>
      BY <1>4 DEF Maintain
    <2>2. CASE UNCHANGED <<queries, inflight>>
      BY <2>1, <2>2, QuietKeepsReach
    <2>3. CASE \E t \in SelfTargets : JoinOrStart(t, "FindNode")
      <3>1. PICK t \in SelfTargets : JoinOrStart(t, "FindNode")
        BY <2>3
      <3>2. t \in Targets /\ "FindNode" \in QueryKinds /\ t \notin PutTargets
        BY RpcAssumption DEF QueryKinds, NoFindNodeOnItems
      <3>3. QED
        BY <2>1, <3>1, <3>2, StartsKeepReach
    <2>4. QED
      BY <1>4, <2>2, <2>3 DEF Maintain
  <1>5. CASE HandleMessage
    BY <1>5, HandleMessageKeepsReach
  <1>6. CASE CacheAges
    <2>1. /\ UNCHANGED <<queries, puts>>
          /\ cached' = [t \in DOMAIN cached |-> {[e EXCEPT !.fresh = FALSE] : e \in cached[t]}]
      BY <1>6 DEF CacheAges
    <2>2. \A t \in DOMAIN cached : cached[t] \in SUBSET Entries
      BY DEF RpcInv, TypeOK, IsMap
    <2>3. \A e \in Entries : [e EXCEPT !.fresh = FALSE].token = e.token
      BY DEF Entries
    <2>4. QED
      BY <2>1, <2>2, <2>3 DEF ReachInv, UnstartedPutHasLookup
  <1>7. CASE UNCHANGED <<queries, cached, puts>>
    BY <1>7, QuietKeepsReach
  <1>8. QED
    BY <1>1, <1>2, <1>3, <1>4, <1>5, <1>6, <1>7 DEF Next, Loop, TickPut, Report, Expire, vars

\* Unless a FindNode lookup meets its target, a put that has sent nothing has a
\* value lookup to wait for, and that lookup hands it nodes with tokens.
THEOREM PutsGetToStorage == ASSUME NoFindNodeOnItems PROVE Spec => []PutsReachStorage
  <1>1. Init => ReachInv
    <2> SUFFICES ASSUME Init PROVE ReachInv
      OBVIOUS
    <2>1. DOMAIN queries = {} /\ DOMAIN cached = {} /\ DOMAIN puts = {}
      BY EmptyIsMap DEF Init
    <2>2. QED
      BY <2>1 DEF ReachInv, UnstartedPutHasLookup
  <1>2. RpcInv /\ LookupInv /\ PutInv /\ ReachInv /\ [Next]_vars => ReachInv'
    BY ReachInvStep
  <1>3. LookupInv /\ ReachInv => PutsReachStorage
    BY DEF LookupInv, ReachInv, PutsReachStorage
  <1>4. QED
    BY <1>1, <1>2, <1>3, LookupInvHolds, PutInvHolds, PTL DEF Spec
=============================================================================
