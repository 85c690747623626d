----------------------------- MODULE KrpcSocket -----------------------------
(***************************************************************************)
(* Correlating answers with requests: KrpcSocket (src/src/rpc/socket.rs)   *)
(* and InflightRequests (src/src/rpc/socket/inflight_requests.rs).         *)
(*                                                                         *)
(* Transaction ids wrap around at TidSpace (2^32 in the code).  The        *)
(* network loses, delays, duplicates and reorders answers; an answer is    *)
(* gone after MaxDelay.  Requests get a serial number that the code does   *)
(* not have, to tell which request an answer really answers.               *)
(***************************************************************************)
EXTENDS Naturals, FiniteSets

CONSTANTS
  Addresses,        \* [ip, port]; ip 0 is the unspecified address
  TidSpace,         \* number of transaction ids
  Timeout,          \* request_timeout
  CleanupInterval,  \* INFLIGHT_CLEANUP_INTERVAL
  Rate,             \* bound: requests sent per unit of time
  MaxDelay,         \* an answer arrives at most this long after its request was sent
  MaxTime           \* bound: where the clock stops

ASSUME AddressesAssumption ==
  \A a \in Addresses : a = [ip |-> a.ip, port |-> a.port] /\ a.ip \in Nat

ASSUME SocketAssumption ==
  /\ TidSpace \in Nat \ {0} /\ Timeout \in Nat \ {0}
  /\ {CleanupInterval, Rate, MaxDelay, MaxTime} \subseteq Nat

\* "since the timeout is so short we are unlikely to run out of 4294967295 ids
\* in 2 seconds": an id is taken again only when the request that had it has
\* timed out and no answer to it is under way any more.
ASSUME EnoughTids == Rate * Timeout <= TidSpace /\ Rate * (MaxDelay + 1) <= TidSpace

VARIABLES
  nextTid,      \* next_tid
  requests,     \* inflight_requests.requests
  lastCleanup,  \* last_cleanup
  now,          \* the clock
  polled,       \* recv_from was called since the clock last moved
  burst,        \* requests sent since the clock last moved
  sent,         \* history: number of requests sent
  network,      \* answers under way
  accepted,     \* history: the requests whose answer was handed on
  mistaken      \* history: an answer was handed on that should not have been

vars == <<nextTid, requests, lastCleanup, now, polled, burst, sent, network,
          accepted, mistaken>>

Tids == 0..(TidSpace - 1)

InflightRequest == [to : Addresses, sentAt : Nat, serial : Nat]

Answers == [tid : Tids, from : Addresses, serial : Nat, sentAt : Nat]

Init ==
  /\ nextTid = 0
  /\ requests = [t \in {} |-> {}]
  /\ lastCleanup = 0 /\ now = 0
  /\ polled = FALSE /\ burst = 0
  /\ sent = 0 /\ network = {} /\ accepted = {} /\ mistaken = FALSE

-----------------------------------------------------------------------------
(* InflightRequests *)

Restricted(S) == [t \in S |-> requests[t]]

\* InflightRequest::does_match: the port, and the IP unless we sent to the
\* unspecified address.
DoesMatch(r, from) ==
  r.to.port = from.port /\ (r.to.ip = 0 \/ r.to.ip = from.ip)

\* contains, and the same test in remove
Live(r) == now - r.sentAt < Timeout

\* mutant: expired requests are left to the next cleanup
ExpectedEvenLate(a, S) == a.tid \in S /\ DoesMatch(requests[a.tid], a.from)

\* is_expected_response, among the requests with ids in S
Expected(a, S) ==
  a.tid \in S /\ Live(requests[a.tid]) /\ DoesMatch(requests[a.tid], a.from)

\* The ids remove leaves of S: an expired request goes, even when the answer
\* comes from elsewhere.
Removed(a, S) ==
  IF a.tid \in S /\ (~ Live(requests[a.tid]) \/ Expected(a, S))
  THEN S \ {a.tid} ELSE S

CleanupDue == now - lastCleanup > CleanupInterval

\* mutant: recv_from does not clean up
AfterNoCleanup == DOMAIN requests

\* The ids that are left when recv_from has cleaned up, if that was due.
AfterCleanup ==
  IF CleanupDue THEN {t \in DOMAIN requests : Live(requests[t])} ELSE DOMAIN requests

-----------------------------------------------------------------------------

\* mutant: ids are taken from a space half as large
TidAfterHalved(t) == IF t + 1 >= TidSpace \div 2 THEN 0 ELSE t + 1

\* tid(): wrapping_add
TidAfter(t) == IF t + 1 = TidSpace THEN 0 ELSE t + 1

\* KrpcSocket::request
Request(addr) ==
  /\ burst < Rate
  /\ requests' = [t \in DOMAIN requests \cup {nextTid} |->
                    IF t = nextTid THEN [to |-> addr, sentAt |-> now, serial |-> sent]
                    ELSE requests[t]]
  /\ nextTid' = TidAfter(nextTid)
  /\ burst' = burst + 1 /\ sent' = sent + 1
  /\ UNCHANGED <<lastCleanup, now, polled, network, accepted, mistaken>>

\* A node answers the request with id t.  Behind a NAT the answer may come from
\* an address other than the one that was asked.
Answer(t, from) ==
  /\ t \in DOMAIN requests /\ now - requests[t].sentAt <= MaxDelay
  /\ network' = network \cup
       {[tid |-> t, from |-> from, serial |-> requests[t].serial,
         sentAt |-> requests[t].sentAt]}
  /\ UNCHANGED <<nextTid, requests, lastCleanup, now, polled, burst, sent,
                 accepted, mistaken>>

\* recv_from without an answer: nothing, a request, or something invalid.
RecvNothing ==
  /\ requests' = Restricted(AfterCleanup)
  /\ lastCleanup' = IF CleanupDue THEN now ELSE lastCleanup
  /\ polled' = TRUE
  /\ UNCHANGED <<nextTid, now, burst, sent, network, accepted, mistaken>>

\* recv_from with an answer; the network may deliver it once more.
RecvAnswer(a) ==
  /\ requests' = Restricted(Removed(a, AfterCleanup))
  /\ lastCleanup' = IF CleanupDue THEN now ELSE lastCleanup
  /\ polled' = TRUE
  /\ IF Expected(a, AfterCleanup)
     THEN /\ accepted' = accepted \cup {a.serial}
          /\ mistaken' = (mistaken \/ a.serial # requests[a.tid].serial
                            \/ a.serial \in accepted \/ now - a.sentAt >= Timeout)
     ELSE UNCHANGED <<accepted, mistaken>>
  /\ UNCHANGED <<nextTid, now, burst, sent, network>>

\* Time passes; the loop of the actor calls recv_from in between.
Advance ==
  /\ polled /\ now < MaxTime
  /\ now' = now + 1
  /\ polled' = FALSE /\ burst' = 0
  /\ network' = {a \in network : now' - a.sentAt <= MaxDelay}
  /\ UNCHANGED <<nextTid, requests, lastCleanup, sent, accepted, mistaken>>

Next ==
  \/ \E addr \in Addresses : Request(addr)
  \/ \E t \in Tids, from \in Addresses : Answer(t, from)
  \/ RecvNothing
  \/ \E a \in network : RecvAnswer(a)
  \/ Advance

Spec == Init /\ [][Next]_vars

-----------------------------------------------------------------------------

\* next_tid and the keys of the table stay below TidSpace: the counter wraps.
TypeOK ==
  /\ nextTid \in Tids
  /\ DOMAIN requests \subseteq Tids
  /\ requests \in [DOMAIN requests -> InflightRequest]
  /\ lastCleanup \in Nat /\ now \in Nat /\ sent \in Nat /\ burst \in 0..Rate
  /\ polled \in BOOLEAN /\ mistaken \in BOOLEAN
  /\ network \subseteq Answers
  /\ accepted \subseteq Nat

\* Whatever is delayed, duplicated or reordered, an answer is handed on only for
\* the request it answers, only once, and not after that request timed out
\* ("avoid accepting late responses": the query that sent it has moved on).
AnswersMatched == ~ mistaken

LiveRequestKept(t) ==
  \/ t \in DOMAIN requests' /\ requests'[t] = requests[t]
  \/ requests[t].serial \in accepted' \ accepted

\* wrapping_add never gives an id that is in flight: BTreeMap::insert replaces
\* no request that can still be answered, so a live request is only dropped for
\* its answer.
LiveRequestsKept ==
  [][\A t \in DOMAIN requests : Live(requests[t]) => LiveRequestKept(t)]_vars

\* Requests that nobody answers do not pile up: each is gone soon after it timed
\* out, although cleanup runs only now and then.
NoLeak ==
  \A t \in DOMAIN requests :
    now - requests[t].sentAt <= Timeout + CleanupInterval + 1

=============================================================================
