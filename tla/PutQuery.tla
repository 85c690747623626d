------------------------------ MODULE PutQuery ------------------------------
(***************************************************************************)
(* The data of a PUT: PutQuery (src/src/rpc/put_query.rs).                 *)
(*                                                                         *)
(* A PutQuery is created by one API call, its owner, and keeps that call's *)
(* request.  Requests are compared the way the code does: items by their   *)
(* signature, seq and cas as numbers.                                      *)
(***************************************************************************)
EXTENDS IterativeQuery

CONSTANTS
  PutCalls,     \* API calls that put
  PutReq,       \* PutReq[c]: the request of call c
  ExtraNodes    \* ExtraNodes[c]: the extra_nodes with a token given to call c

PutRequests ==
  [kind : {"Announce", "Immutable", "Mutable"}, target : Targets,
   sig : Nat,                                   \* identity of what is stored
   seq : Nat, cas : SUBSET Nat]                 \* of a mutable item; cas = {} is None

ASSUME PutReqAssumption ==
  /\ PutReq \in [PutCalls -> PutRequests]
  /\ ExtraNodes \in [PutCalls -> SUBSET Nodes]
  /\ \A c \in PutCalls : Cardinality(PutReq[c].cas) <= 1

\* What two items with the same target have in common.  An immutable item's
\* target is the hash of its value and a mutable one's the hash of its key and
\* salt (hash_immutable, target_from_key), and a signature is over the seq
\* (encode_signable).  An announce names any target.
ASSUME ContentAssumption ==
  \A c, d \in PutCalls :
    LET p == PutReq[c]
        q == PutReq[d]
    IN  p.target = q.target /\ p.kind # "Announce" /\ q.kind # "Announce" =>
          /\ p.kind = q.kind
          /\ p.kind = "Immutable" => p.sig = q.sig
          /\ p.kind = "Mutable" /\ p.sig = q.sig => p.seq = q.seq

\* Error codes a server answers a put with: 301 CAS mismatch, 302 sequence
\* number, 203 for all the others.
Codes == {203, 301, 302}

PutQueries ==
  [owner : PutCalls, sent : SUBSET [owner : PutCalls, to : Nodes, op : {"put", "extra"}],
   storedAt : Nat, errors : Seq([code : Codes, count : Nat])]

\* PutQuery::new
NewPut(c) == [owner |-> c, sent |-> {}, storedAt |-> 0, errors |-> <<>>]

Started(p) == p.sent # {}

\* PutQuery::start: one request to every closest node that has a token, then
\* one to every extra node, which may be the same node again.
StartRequests(c, closest) ==
  [owner : {c}, to : NodesOf({e \in closest : e.token}), op : {"put"}]
    \cup [owner : {c}, to : ExtraNodes[c], op : {"extra"}]

Start(p, closest) == [p EXCEPT !.sent = StartRequests(p.owner, closest)]

\* PutQuery::success
Success(p) == [p EXCEPT !.storedAt = @ + 1]

\* mutant: the counter goes up and the list is not reordered
CountWithoutMoving(errs, pos) == [errs EXCEPT ![pos].count = @ + 1]

\* The loop of PutQuery::error that moves errors[pos], once incremented, in
\* front of the errors with a lower count.
CountAndMove(errs, pos) ==
  LET counted == [errs[pos] EXCEPT !.count = @ + 1]
      first   == CHOOSE i \in 1..pos :
                   /\ \A k \in i..(pos - 1) : errs[k].count < counted.count
                   /\ i = 1 \/ errs[i - 1].count >= counted.count
  IN  [k \in DOMAIN errs |->
         IF k = first THEN counted
         ELSE IF k \in 2..pos /\ k > first THEN errs[k - 1] ELSE errs[k]]

\* PutQuery::error
AddError(p, code) ==
  LET at == {i \in DOMAIN p.errors : p.errors[i].code = code}
  IN  [p EXCEPT !.errors =
         IF at = {} THEN Append(@, [code |-> code, count |-> 1])
         ELSE CountAndMove(@, CHOOSE i \in at : TRUE)]

-----------------------------------------------------------------------------
(* poll_completion *)

NameOf(code) == IF code = 301 THEN "CasFailed" ELSE "NotMostRecent"

\* most_common_error: the first error, if it is a 301 or a 302.
HasCommonError(p) == p.errors # <<>> /\ p.errors[1].code \in {301, 302}

CommonError(p) == NameOf(p.errors[1].code)

\* majority_nodes_rejected_put_mutable
MajorityRejected(p) ==
  /\ PutReq[p.owner].kind = "Mutable"
  /\ HasCommonError(p)
  /\ p.errors[1].count >= Cardinality(p.sent) \div 2 + 1

AllAnswered(p, inflight) == p.sent \cap inflight = {}

\* mutant: a finished put is a success whatever was answered
CompletionAlwaysOk(p, inflight) ==
  IF Started(p) /\ AllAnswered(p, inflight) THEN "Ok" ELSE "Pending"

\* mutant: the majority check is forgotten
CompletionWithoutMajority(p, inflight) ==
  IF ~ Started(p) \/ ~ AllAnswered(p, inflight) THEN "Pending"
  ELSE IF p.storedAt > 0 THEN "Ok"
  ELSE IF HasCommonError(p) THEN CommonError(p) ELSE "Timeout"

\* PutQuery::poll_completion
PollCompletion(p, inflight) ==
  IF ~ Started(p) THEN "Pending"
  ELSE IF MajorityRejected(p) THEN CommonError(p)
  ELSE IF ~ AllAnswered(p, inflight) THEN "Pending"
  ELSE IF p.storedAt > 0 THEN "Ok"
  ELSE IF HasCommonError(p) THEN CommonError(p) ELSE "Timeout"

=============================================================================
