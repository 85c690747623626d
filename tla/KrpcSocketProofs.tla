-------------------------- MODULE KrpcSocketProofs --------------------------
(***************************************************************************)
(* Proofs about KrpcSocket: answers are never confused, for every number   *)
(* of transaction ids that outlasts the requests and their answers.        *)
(***************************************************************************)
EXTENDS KrpcSocket, TLAPS

\* The id that was given out d requests ago.
TidBefore(d) == IF nextTid >= d THEN nextTid - d ELSE nextTid + TidSpace - d

\* The request numbered s has id t: the last TidSpace ids are all different.
Numbered(t, s) == s < sent /\ sent - s <= TidSpace /\ t = TidBefore(sent - s)

\* What was sent since the request numbered s is limited by the time since.
Limited(s, at) == at <= now /\ sent - s <= Rate * (now - at) + burst

RequestsPlaced ==
  \A t \in DOMAIN requests :
    /\ Numbered(t, requests[t].serial)
    /\ Limited(requests[t].serial, requests[t].sentAt)

AnswersPlaced ==
  \A a \in network :
    /\ Numbered(a.tid, a.serial)
    /\ Limited(a.serial, a.sentAt)
    /\ now - a.sentAt <= MaxDelay

\* A serial number stands for one request, sent at one time.
SerialsAgree ==
  \A a \in network : \A t \in DOMAIN requests :
    a.serial = requests[t].serial => a.sentAt = requests[t].sentAt

\* No request whose answer was handed on is in flight.
AcceptedGone ==
  \A s \in accepted : s < sent /\ \A t \in DOMAIN requests : requests[t].serial # s

SocketInv ==
  /\ TypeOK /\ RequestsPlaced /\ AnswersPlaced /\ SerialsAgree /\ AcceptedGone
  /\ AnswersMatched

-----------------------------------------------------------------------------
(* Arithmetic *)

\* A unit of time more allows Rate more requests.
LEMMA RateStep ==
  ASSUME NEW r \in Nat, NEW d \in Nat
  PROVE  r * (d + 1) = r * d + r /\ r * d \in Nat
  OBVIOUS

\* More time allows at least as many requests.
LEMMA RateMonotone ==
  ASSUME NEW r \in Nat, NEW d \in Nat, NEW e \in Nat, d <= e
  PROVE  r * d <= r * e
  OBVIOUS

\* Two of the last TidSpace requests with the same id are the same request.
LEMMA TidIdentifies ==
  ASSUME TypeOK, NEW t, NEW x \in Nat, NEW y \in Nat, Numbered(t, x), Numbered(t, y)
  PROVE  x = y
  BY SocketAssumption DEF SocketAssumption, TypeOK, Numbered, TidBefore, Tids

\* An id that is about to be taken again belongs to a request that is TidSpace
\* requests old, and to no later one.
LEMMA TidsShift ==
  ASSUME TypeOK, NEW t \in Tids, NEW s \in Nat, Numbered(t, s),
         sent' = sent + 1, nextTid' = TidAfter(nextTid), sent - s # TidSpace
  PROVE  Numbered(t, s)' /\ t # nextTid
  BY SocketAssumption DEF SocketAssumption, TypeOK, Numbered, TidBefore, Tids, TidAfter

\* The id tid() gives to a new request is the next one in the numbering.
LEMMA NewTidNumbered ==
  ASSUME TypeOK, NEW t, NEW s, t = nextTid, s = sent,
         sent' = sent + 1, nextTid' = TidAfter(nextTid)
  PROVE  Numbered(t, s)' /\ nextTid' \in Tids
  BY SocketAssumption DEF SocketAssumption, TypeOK, Numbered, TidBefore, Tids, TidAfter

\* An answer that may still arrive is not TidSpace requests old while another
\* request may be sent.
LEMMA ReuseIsLater ==
  ASSUME TypeOK, burst < Rate, NEW s \in Nat, NEW at \in Nat, NEW d \in Nat,
         Limited(s, at), now - at <= d, Rate * (d + 1) <= TidSpace
  PROVE  sent - s < TidSpace
<1>1. now \in Nat /\ sent \in Nat /\ burst \in Nat /\ Rate \in Nat /\ TidSpace \in Nat
  BY SocketAssumption DEF SocketAssumption, TypeOK
<1>2. now - at \in Nat
  BY <1>1 DEF Limited
<1>3. Rate * (now - at) <= Rate * d
  BY <1>1, <1>2, RateMonotone
<1>4. Rate * (d + 1) = Rate * d + Rate /\ Rate * d \in Nat
  BY <1>1, RateStep
<1>5. Rate * (now - at) \in Nat
  BY <1>1, <1>2, RateStep
<1> QED
  BY <1>1, <1>3, <1>4, <1>5 DEF Limited

\* The limit on requests survives the passing of time and the sending of one.
LEMMA LimitedNextTick ==
  ASSUME TypeOK, NEW s \in Nat, NEW at \in Nat, Limited(s, at),
         now' = now + 1, burst' = 0, sent' = sent
  PROVE  Limited(s, at)'
<1>1. now \in Nat /\ sent \in Nat /\ burst \in Nat /\ burst <= Rate /\ Rate \in Nat
  BY SocketAssumption DEF SocketAssumption, TypeOK
<1>2. now - at \in Nat /\ now' - at = (now - at) + 1
  BY <1>1 DEF Limited
<1>3. Rate * ((now - at) + 1) = Rate * (now - at) + Rate /\ Rate * (now - at) \in Nat
  BY <1>1, <1>2, RateStep
<1> QED
  BY <1>1, <1>2, <1>3 DEF Limited

\* One more request stays within what the rate allows.
LEMMA LimitedAfterRequest ==
  ASSUME TypeOK, NEW s \in Nat, NEW at \in Nat, Limited(s, at),
         now' = now, burst' = burst + 1, sent' = sent + 1
  PROVE  Limited(s, at)'
<1>1. now \in Nat /\ sent \in Nat /\ burst \in Nat /\ Rate \in Nat
  BY SocketAssumption DEF SocketAssumption, TypeOK
<1>2. now - at \in Nat
  BY <1>1 DEF Limited
<1>3. Rate * (now - at) \in Nat
  BY <1>1, <1>2, RateStep
<1> QED
  BY <1>1, <1>2, <1>3 DEF Limited

\* A request just sent is within the rate.
LEMMA LimitedAtOnce ==
  ASSUME TypeOK, NEW s \in Nat, NEW at \in Nat, s = sent, at = now,
         now' = now, burst' = burst + 1, sent' = sent + 1
  PROVE  Limited(s, at)'
<1>1. now \in Nat /\ sent \in Nat /\ burst \in Nat /\ Rate \in Nat
  BY SocketAssumption DEF SocketAssumption, TypeOK
<1>2. Rate * 0 = 0 /\ now - now = 0
  BY <1>1
<1> QED
  BY <1>1, <1>2 DEF Limited

-----------------------------------------------------------------------------
(* The invariant *)

\* A new socket has no requests in flight and no answers under way.
LEMMA SocketInvInit == Init => SocketInv
<1> SUFFICES ASSUME Init PROVE SocketInv
  OBVIOUS
<1>1. DOMAIN requests = {} /\ requests \in [DOMAIN requests -> InflightRequest]
  BY DEF Init
<1>2. network = {} /\ accepted = {} /\ ~ mistaken
  BY DEF Init
<1>3. polled \in BOOLEAN /\ mistaken \in BOOLEAN
  BY Zenon DEF Init
<1>4. /\ nextTid \in Tids /\ lastCleanup \in Nat /\ now \in Nat /\ sent \in Nat
      /\ burst \in 0..Rate
  BY SocketAssumption DEF SocketAssumption, Init, Tids
<1>5. TypeOK
  BY <1>1, <1>2, <1>3, <1>4 DEF TypeOK
<1> QED
  BY <1>1, <1>2, <1>5
  DEF SocketInv, RequestsPlaced, AnswersPlaced, SerialsAgree, AcceptedGone, AnswersMatched

\* KrpcSocket::request takes an id that no live request or answer holds.
LEMMA RequestKeepsInv ==
  ASSUME SocketInv, NEW addr \in Addresses, Request(addr)
  PROVE  SocketInv'
<1> USE DEF SocketInv
<1>0. /\ sent' = sent + 1 /\ nextTid' = TidAfter(nextTid) /\ burst' = burst + 1
      /\ now' = now /\ network' = network /\ accepted' = accepted
      /\ lastCleanup' = lastCleanup /\ polled' = polled /\ mistaken' = mistaken
      /\ burst < Rate
  BY DEF Request
<1>1. /\ DOMAIN requests' = DOMAIN requests \cup {nextTid}
      /\ requests'[nextTid] = [to |-> addr, sentAt |-> now, serial |-> sent]
      /\ \A t \in DOMAIN requests : t # nextTid => requests'[t] = requests[t]
  BY DEF Request
<1>2. /\ \A t \in DOMAIN requests : requests[t].serial \in Nat /\ requests[t].sentAt \in Nat
      /\ \A a \in network : a.serial \in Nat /\ a.sentAt \in Nat /\ a.tid \in Tids
      /\ nextTid \in Tids /\ now \in Nat /\ sent \in Nat /\ Rate \in Nat
      /\ Timeout \in Nat /\ MaxDelay \in Nat /\ burst \in Nat /\ burst <= Rate
      /\ TidSpace \in Nat
  BY SocketAssumption DEF SocketAssumption, TypeOK, InflightRequest, Answers
<1>3. TypeOK'
  <2>1. nextTid' \in Tids
    BY NewTidNumbered, <1>0
  <2>2. requests' \in [DOMAIN requests' -> InflightRequest] /\ DOMAIN requests' \subseteq Tids
    BY <1>1, <1>2 DEF TypeOK, InflightRequest, Request
  <2> QED
    BY <2>1, <2>2, <1>0, <1>2 DEF TypeOK
<1>4. RequestsPlaced'
  <2> SUFFICES ASSUME NEW t \in DOMAIN requests'
               PROVE  (/\ Numbered(t, requests[t].serial)
                       /\ Limited(requests[t].serial, requests[t].sentAt))'
    BY DEF RequestsPlaced
  <2>1. CASE t = nextTid
    <3>2. PICK s \in Nat : s = sent
      BY <1>2
    <3>3. PICK at \in Nat : at = now
      BY <1>2
    <3>4. Numbered(t, s)' /\ Limited(s, at)'
      BY <2>1, <3>2, <3>3, <1>0, NewTidNumbered, LimitedAtOnce
    <3> QED
      BY <2>1, <3>2, <3>3, <3>4, <1>1 DEF Numbered, Limited, TidBefore
  <2>2. CASE t # nextTid
    <3>1. t \in DOMAIN requests /\ requests'[t] = requests[t]
      BY <2>2, <1>1
    <3>2. PICK s \in Nat : s = requests[t].serial
      BY <1>2, <3>1
    <3>3. PICK at \in Nat : at = requests[t].sentAt
      BY <1>2, <3>1
    <3>4. Numbered(t, s) /\ Limited(s, at)
      BY <3>1, <3>2, <3>3 DEF RequestsPlaced
    <3>5. sent - s # TidSpace
      BY <2>2, <3>4, <1>2 DEF Numbered, TidBefore, Tids
    <3>6. Numbered(t, s)' /\ Limited(s, at)'
      BY <3>1, <3>4, <3>5, <1>0, TidsShift, LimitedAfterRequest DEF TypeOK
    <3> QED
      BY <3>1, <3>2, <3>3, <3>6 DEF Numbered, Limited, TidBefore
  <2> QED
    BY <2>1, <2>2
<1>5. AnswersPlaced'
  <2> SUFFICES ASSUME NEW a \in network
               PROVE  /\ Numbered(a.tid, a.serial)' /\ Limited(a.serial, a.sentAt)'
                      /\ now' - a.sentAt <= MaxDelay
    BY <1>0 DEF AnswersPlaced
  <2>1. Numbered(a.tid, a.serial) /\ Limited(a.serial, a.sentAt) /\ now - a.sentAt <= MaxDelay
    BY DEF AnswersPlaced
  <2>2. sent - a.serial < TidSpace
    BY <1>0, <1>2, <2>1, ReuseIsLater, EnoughTids DEF EnoughTids
  <2>3. Numbered(a.tid, a.serial)'
    BY <1>0, <1>2, <2>1, <2>2, TidsShift
  <2>4. Limited(a.serial, a.sentAt)'
    BY <1>0, <1>2, <2>1, LimitedAfterRequest
  <2> QED
    BY <2>1, <2>3, <2>4, <1>0
<1>6. SerialsAgree'
  <2> SUFFICES ASSUME NEW a \in network, NEW t \in DOMAIN requests',
                      a.serial = requests'[t].serial
               PROVE  a.sentAt = requests'[t].sentAt
    BY <1>0 DEF SerialsAgree
  <2>1. t # nextTid
    BY <1>1, <1>2 DEF AnswersPlaced, Numbered
  <2> QED
    BY <2>1, <1>1 DEF SerialsAgree
<1>7. AcceptedGone'
  <2> SUFFICES ASSUME NEW s \in accepted
               PROVE  s < sent' /\ \A t \in DOMAIN requests' : requests'[t].serial # s
    BY <1>0 DEF AcceptedGone
  <2>1. s \in Nat /\ s < sent
    BY DEF AcceptedGone, TypeOK
  <2> QED
    BY <2>1, <1>0, <1>1, <1>2 DEF AcceptedGone
<1>8. AnswersMatched'
  BY <1>0 DEF AnswersMatched
<1> QED
  BY <1>3, <1>4, <1>5, <1>6, <1>7, <1>8

\* A remote answer carries the id and the number of the request it answers.
LEMMA AnswerKeepsInv ==
  ASSUME SocketInv, NEW t \in Tids, NEW from \in Addresses, Answer(t, from)
  PROVE  SocketInv'
<1> DEFINE new == [tid |-> t, from |-> from, serial |-> requests[t].serial,
                   sentAt |-> requests[t].sentAt]
<1>1. /\ t \in DOMAIN requests /\ now - requests[t].sentAt <= MaxDelay
      /\ network' = network \cup {new}
      /\ UNCHANGED <<nextTid, requests, lastCleanup, now, polled, burst, sent,
                     accepted, mistaken>>
  BY DEF Answer
<1>2. requests[t].serial \in Nat /\ requests[t].sentAt \in Nat
  BY <1>1 DEF SocketInv, TypeOK, InflightRequest
<1>3. TypeOK'
  <2>1. new \in Answers
    BY <1>2 DEF Answers
  <2> QED
    BY <1>1, <2>1 DEF SocketInv, TypeOK
<1>4. RequestsPlaced' /\ AcceptedGone' /\ AnswersMatched'
  BY <1>1 DEF SocketInv, RequestsPlaced, AcceptedGone, AnswersMatched, Numbered, Limited, TidBefore
<1>5. AnswersPlaced'
  <2>1. /\ Numbered(t, requests[t].serial)
        /\ Limited(requests[t].serial, requests[t].sentAt)
    BY <1>1 DEF SocketInv, RequestsPlaced
  <2> QED
    BY <1>1, <2>1 DEF SocketInv, AnswersPlaced, Numbered, Limited, TidBefore
<1>6. SerialsAgree'
  <2> SUFFICES ASSUME NEW u \in DOMAIN requests, requests[t].serial = requests[u].serial
               PROVE  requests[t].sentAt = requests[u].sentAt
    BY <1>1 DEF SocketInv, SerialsAgree
  <2>1. Numbered(t, requests[t].serial) /\ Numbered(u, requests[u].serial)
    BY <1>1 DEF SocketInv, RequestsPlaced
  <2> QED
    BY <2>1 DEF Numbered
<1> QED
  BY <1>3, <1>4, <1>5, <1>6 DEF SocketInv

\* recv_from only removes requests.
LEMMA RemovalKeepsInv ==
  ASSUME SocketInv, NEW S \in SUBSET DOMAIN requests, requests' = Restricted(S),
         lastCleanup' \in Nat, polled' \in BOOLEAN,
         UNCHANGED <<nextTid, now, burst, sent, network>>
  PROVE  /\ RequestsPlaced' /\ AnswersPlaced' /\ SerialsAgree'
         /\ accepted' \subseteq Nat /\ mistaken' \in BOOLEAN => TypeOK'
         /\ DOMAIN requests' = S /\ \A t \in S : requests'[t] = requests[t]
<1>1. DOMAIN requests' = S /\ \A t \in S : requests'[t] = requests[t]
  BY DEF Restricted
<1>2. RequestsPlaced' /\ AnswersPlaced' /\ SerialsAgree'
  BY <1>1 DEF SocketInv, RequestsPlaced, AnswersPlaced, SerialsAgree, Numbered, Limited, TidBefore
<1>3. requests' \in [DOMAIN requests' -> InflightRequest] /\ DOMAIN requests' \subseteq Tids
  BY <1>1 DEF SocketInv, TypeOK, Restricted
<1> QED
  BY <1>1, <1>2, <1>3 DEF SocketInv, TypeOK

\* InflightRequests::cleanup only removes, and never a live request.
LEMMA CleanupRemoves ==
  AfterCleanup \subseteq DOMAIN requests
  BY DEF AfterCleanup

\* recv_from without an answer only cleans up.
LEMMA RecvNothingKeepsInv ==
  ASSUME SocketInv, RecvNothing
  PROVE  SocketInv'
<1>1. /\ requests' = Restricted(AfterCleanup) /\ polled' \in BOOLEAN
      /\ UNCHANGED <<nextTid, now, burst, sent, network, accepted, mistaken>>
  BY DEF RecvNothing
<1>2. lastCleanup' \in Nat
  BY DEF RecvNothing, SocketInv, TypeOK
<1>3. /\ RequestsPlaced' /\ AnswersPlaced' /\ SerialsAgree'
      /\ accepted' \subseteq Nat /\ mistaken' \in BOOLEAN => TypeOK'
      /\ \A t \in DOMAIN requests' : t \in DOMAIN requests /\ requests'[t] = requests[t]
  BY <1>1, <1>2, RemovalKeepsInv, CleanupRemoves
<1>4. TypeOK'
  BY <1>1, <1>3 DEF SocketInv, TypeOK
<1>5. AcceptedGone' /\ AnswersMatched'
  BY <1>1, <1>3 DEF SocketInv, AcceptedGone, AnswersMatched
<1> QED
  BY <1>3, <1>4, <1>5 DEF SocketInv

\* recv_from hands an answer on only for the live request with its number.
LEMMA RecvAnswerKeepsInv ==
  ASSUME SocketInv, NEW a \in network, RecvAnswer(a)
  PROVE  SocketInv'
<1> DEFINE S == Removed(a, AfterCleanup)
<1>1. /\ requests' = Restricted(S) /\ polled' \in BOOLEAN
      /\ UNCHANGED <<nextTid, now, burst, sent, network>>
  BY DEF RecvAnswer
<1>2. lastCleanup' \in Nat
  BY DEF RecvAnswer, SocketInv, TypeOK
<1>3. S \subseteq DOMAIN requests /\ S \subseteq AfterCleanup
  BY CleanupRemoves DEF Removed
<1>4. /\ RequestsPlaced' /\ AnswersPlaced' /\ SerialsAgree'
      /\ accepted' \subseteq Nat /\ mistaken' \in BOOLEAN => TypeOK'
      /\ DOMAIN requests' = S /\ \A t \in S : requests'[t] = requests[t]
  BY <1>1, <1>2, <1>3, RemovalKeepsInv
<1>5. CASE ~ Expected(a, AfterCleanup)
  <2>1. accepted' = accepted /\ mistaken' = mistaken
    BY <1>5 DEF RecvAnswer
  <2>2. TypeOK'
    BY <2>1, <1>4 DEF SocketInv, TypeOK
  <2>3. AcceptedGone' /\ AnswersMatched'
    BY <2>1, <1>1, <1>3, <1>4 DEF SocketInv, AcceptedGone, AnswersMatched
  <2> QED
    BY <1>4, <2>2, <2>3 DEF SocketInv
<1>6. CASE Expected(a, AfterCleanup)
  <2>1. /\ a.tid \in DOMAIN requests /\ Live(requests[a.tid])
        /\ S = AfterCleanup \ {a.tid}
    BY <1>6, CleanupRemoves DEF Expected, Removed
  <2>2. /\ accepted' = accepted \cup {a.serial}
        /\ mistaken' = (mistaken \/ a.serial # requests[a.tid].serial
                          \/ a.serial \in accepted \/ now - a.sentAt >= Timeout)
    BY <1>6 DEF RecvAnswer
  <2>3. a.serial \in Nat /\ requests[a.tid].serial \in Nat
    BY <2>1 DEF SocketInv, TypeOK, Answers, InflightRequest
  <2>4. a.serial = requests[a.tid].serial
    BY <2>1, <2>3, TidIdentifies DEF SocketInv, RequestsPlaced, AnswersPlaced
  <2>5. a.sentAt = requests[a.tid].sentAt
    BY <2>1, <2>4 DEF SocketInv, SerialsAgree
  <2>6. a.serial \notin accepted
    BY <2>1, <2>4 DEF SocketInv, AcceptedGone
  <2>7. now - a.sentAt < Timeout
    BY <2>1, <2>5 DEF Live
  <2>8. ~ (now - a.sentAt >= Timeout)
    BY <2>7, SocketAssumption DEF SocketAssumption, SocketInv, TypeOK, Answers
  <2>9. mistaken' = FALSE
    BY <2>2, <2>4, <2>6, <2>8 DEF SocketInv, AnswersMatched
  <2>10. TypeOK'
    BY <2>2, <2>3, <2>9, <1>4 DEF SocketInv, TypeOK
  <2>11. AcceptedGone'
    <3>1. \A t \in S : requests[t].serial # a.serial
      <4> SUFFICES ASSUME NEW t \in S, requests[t].serial = a.serial
                   PROVE  FALSE
        OBVIOUS
      <4>1. t \in DOMAIN requests /\ t # a.tid
        BY <1>3, <2>1
      <4>2. Numbered(t, requests[t].serial) /\ Numbered(a.tid, requests[a.tid].serial)
        BY <4>1, <2>1 DEF SocketInv, RequestsPlaced
      <4> QED
        BY <4>1, <4>2, <2>4 DEF Numbered
    <3>2. a.serial < sent
      BY DEF SocketInv, AnswersPlaced, Numbered
    <3> QED
      BY <3>1, <3>2, <2>2, <1>1, <1>3, <1>4 DEF SocketInv, AcceptedGone
  <2> QED
    BY <1>4, <2>9, <2>10, <2>11 DEF SocketInv, AnswersMatched
<1> QED
  BY <1>5, <1>6

\* The clock drops answers older than MaxDelay and keeps the rest in place.
LEMMA AdvanceKeepsInv ==
  ASSUME SocketInv, Advance
  PROVE  SocketInv'
<1>1. /\ now' = now + 1 /\ burst' = 0 /\ polled' \in BOOLEAN
      /\ network' = {a \in network : now' - a.sentAt <= MaxDelay}
      /\ UNCHANGED <<nextTid, requests, lastCleanup, sent, accepted, mistaken>>
  BY DEF Advance
<1>2. TypeOK'
  BY <1>1, SocketAssumption DEF SocketAssumption, SocketInv, TypeOK
<1>3. RequestsPlaced'
  <2> SUFFICES ASSUME NEW t \in DOMAIN requests
               PROVE  /\ Numbered(t, requests[t].serial)'
                      /\ Limited(requests[t].serial, requests[t].sentAt)'
    BY <1>1 DEF RequestsPlaced
  <2>1. PICK s \in Nat : s = requests[t].serial
    BY DEF SocketInv, TypeOK, InflightRequest
  <2>2. PICK at \in Nat : at = requests[t].sentAt
    BY DEF SocketInv, TypeOK, InflightRequest
  <2>3. Numbered(t, s) /\ Limited(s, at)
    BY <2>1, <2>2 DEF SocketInv, RequestsPlaced
  <2>4. Limited(s, at)'
    BY <2>3, <1>1, LimitedNextTick DEF SocketInv
  <2> QED
    BY <1>1, <2>1, <2>2, <2>3, <2>4 DEF Numbered, Limited, TidBefore
<1>4. AnswersPlaced'
  <2> SUFFICES ASSUME NEW a \in network
               PROVE  Numbered(a.tid, a.serial)' /\ Limited(a.serial, a.sentAt)'
    BY <1>1 DEF AnswersPlaced
  <2>1. a.serial \in Nat /\ a.sentAt \in Nat
    BY DEF SocketInv, TypeOK, Answers
  <2>2. Numbered(a.tid, a.serial) /\ Limited(a.serial, a.sentAt)
    BY DEF SocketInv, AnswersPlaced
  <2>3. Limited(a.serial, a.sentAt)'
    BY <2>1, <2>2, <1>1, LimitedNextTick DEF SocketInv
  <2> QED
    BY <1>1, <2>2, <2>3 DEF Numbered, TidBefore
<1>5. SerialsAgree' /\ AcceptedGone' /\ AnswersMatched'
  BY <1>1 DEF SocketInv, SerialsAgree, AcceptedGone, AnswersMatched
<1> QED
  BY <1>2, <1>3, <1>4, <1>5 DEF SocketInv

\* Every step of the socket or of its environment keeps SocketInv.
LEMMA SocketInvStep == SocketInv /\ [Next]_vars => SocketInv'
<1> SUFFICES ASSUME SocketInv, [Next]_vars PROVE SocketInv'
  OBVIOUS
<1>1. CASE \E addr \in Addresses : Request(addr)
  BY <1>1, RequestKeepsInv
<1>2. CASE \E t \in Tids, from \in Addresses : Answer(t, from)
  BY <1>2, AnswerKeepsInv
<1>3. CASE RecvNothing
  BY <1>3, RecvNothingKeepsInv
<1>4. CASE \E a \in network : RecvAnswer(a)
  BY <1>4, RecvAnswerKeepsInv
<1>5. CASE Advance
  BY <1>5, AdvanceKeepsInv
<1>6. CASE UNCHANGED vars
  BY <1>6 DEF vars, SocketInv, TypeOK, RequestsPlaced, AnswersPlaced, SerialsAgree,
     AcceptedGone, AnswersMatched, Numbered, Limited, TidBefore
<1> QED
  BY <1>1, <1>2, <1>3, <1>4, <1>5, <1>6 DEF Next

\* Every state is well typed: in particular next_tid stays below TidSpace and
\* every id in flight is one that was given out.
THEOREM SocketTypeCorrect == Spec => []TypeOK
<1>1. Spec => []SocketInv
  BY SocketInvInit, SocketInvStep, PTL DEF Spec
<1> QED
  BY <1>1, PTL DEF SocketInv

\* is_expected_response never hands on an answer for another request, a second
\* time, or late, whatever the network does and although next_tid wraps around,
\* as long as the ids outlast requests and answers.
THEOREM AnswersNeverConfused == Spec => []AnswersMatched
<1>1. Spec => []SocketInv
  BY SocketInvInit, SocketInvStep, PTL DEF Spec
<1> QED
  BY <1>1, PTL DEF SocketInv

\* No step drops a live request except for its answer.
LEMMA LiveRequestKeptStep ==
  ASSUME SocketInv, [Next]_vars, NEW t \in DOMAIN requests, Live(requests[t])
  PROVE  LiveRequestKept(t)
<1>1. ASSUME NEW addr \in Addresses, Request(addr)
      PROVE  LiveRequestKept(t)
  <2>1. PICK s \in Nat : s = requests[t].serial
    BY DEF SocketInv, TypeOK, InflightRequest
  <2>2. PICK at \in Nat : at = requests[t].sentAt
    BY DEF SocketInv, TypeOK, InflightRequest
  <2>3. Numbered(t, s) /\ Limited(s, at)
    BY <2>1, <2>2 DEF SocketInv, RequestsPlaced
  <2>4. Timeout - 1 \in Nat /\ now - at <= Timeout - 1 /\ (Timeout - 1) + 1 = Timeout
    BY <2>2, <2>3, SocketAssumption DEF SocketAssumption, Live, SocketInv, TypeOK, Limited
  <2>5. sent - s < TidSpace
    BY <1>1, <2>3, <2>4, ReuseIsLater, EnoughTids DEF EnoughTids, Request, SocketInv
  <2>6. t # nextTid
    BY <2>3, <2>5, SocketAssumption
    DEF SocketAssumption, SocketInv, TypeOK, Numbered, TidBefore, Tids
  <2> QED
    BY <1>1, <2>6 DEF Request, LiveRequestKept
<1>2. ASSUME t \in AfterCleanup, RecvNothing
      PROVE  LiveRequestKept(t)
  BY <1>2 DEF RecvNothing, Restricted, LiveRequestKept
<1>3. t \in AfterCleanup
  BY DEF AfterCleanup
<1>4. ASSUME NEW a \in network, RecvAnswer(a)
      PROVE  LiveRequestKept(t)
  <2>1. CASE t \in Removed(a, AfterCleanup)
    BY <1>4, <2>1 DEF RecvAnswer, Restricted, LiveRequestKept
  <2>2. CASE t \notin Removed(a, AfterCleanup)
    <3>1. t = a.tid /\ Expected(a, AfterCleanup)
      BY <1>3, <2>2 DEF Removed
    <3>2. a.serial \in Nat /\ requests[t].serial \in Nat
      BY DEF SocketInv, TypeOK, Answers, InflightRequest
    <3>3. a.serial = requests[t].serial
      BY <3>1, <3>2, TidIdentifies DEF SocketInv, RequestsPlaced, AnswersPlaced
    <3>4. a.serial \notin accepted
      BY <3>3 DEF SocketInv, AcceptedGone
    <3> QED
      BY <1>4, <3>1, <3>3, <3>4 DEF RecvAnswer, LiveRequestKept
  <2> QED
    BY <2>1, <2>2
<1>5. ASSUME requests' = requests
      PROVE  LiveRequestKept(t)
  BY <1>5 DEF LiveRequestKept
<1>6. (\E u \in Tids, from \in Addresses : Answer(u, from)) \/ Advance \/ UNCHANGED vars
         => requests' = requests
  BY DEF Answer, Advance, vars
<1> QED
  BY <1>1, <1>2, <1>3, <1>4, <1>5, <1>6 DEF Next

\* InflightRequests::add never replaces a request that can still be answered,
\* and cleanup and remove drop only expired and answered ones.
THEOREM LiveRequestsNeverLost == Spec => LiveRequestsKept
<1>1. Spec => []SocketInv
  BY SocketInvInit, SocketInvStep, PTL DEF Spec
<1>2. SocketInv /\ [Next]_vars =>
        [\A t \in DOMAIN requests : Live(requests[t]) => LiveRequestKept(t)]_vars
  BY LiveRequestKeptStep
<1> QED
  BY <1>1, <1>2, PTL DEF Spec, LiveRequestsKept

-----------------------------------------------------------------------------
(* Cleaning up *)

\* recv_from is called in every unit of time, so the last cleanup is recent, and
\* whatever it left had not timed out.
CleanupInv ==
  /\ lastCleanup <= now
  /\ now - lastCleanup <= CleanupInterval + 1
  /\ polled => now - lastCleanup <= CleanupInterval
  /\ \A t \in DOMAIN requests : lastCleanup - requests[t].sentAt < Timeout

\* recv_from cleans up often enough: every step keeps CleanupInv.
LEMMA CleanupInvStep == TypeOK /\ CleanupInv /\ [Next]_vars => CleanupInv'
<1> SUFFICES ASSUME TypeOK, CleanupInv, [Next]_vars PROVE CleanupInv'
  OBVIOUS
<1>0. /\ now \in Nat /\ lastCleanup \in Nat /\ CleanupInterval \in Nat
      /\ Timeout \in Nat \ {0}
      /\ \A t \in DOMAIN requests : requests[t].sentAt \in Nat
  BY SocketAssumption DEF SocketAssumption, TypeOK, InflightRequest
<1>1. ASSUME NEW addr \in Addresses, Request(addr)
      PROVE  CleanupInv'
  <2>1. \A t \in DOMAIN requests' :
          requests'[t].sentAt = now \/ (t \in DOMAIN requests /\ requests'[t] = requests[t])
    BY <1>1 DEF Request
  <2>2. UNCHANGED <<now, lastCleanup, polled>>
    BY <1>1 DEF Request
  <2> QED
    BY <1>0, <2>1, <2>2 DEF CleanupInv
<1>2. ASSUME NEW S \in SUBSET AfterCleanup, requests' = Restricted(S), now' = now,
             lastCleanup' = IF CleanupDue THEN now ELSE lastCleanup
      PROVE  CleanupInv'
  <2>1. \A t \in DOMAIN requests' : t \in AfterCleanup /\ requests'[t] = requests[t]
    BY <1>2 DEF Restricted
  <2>2. CASE CleanupDue
    BY <1>0, <1>2, <2>1, <2>2 DEF CleanupInv, AfterCleanup, Live
  <2>3. CASE ~ CleanupDue
    BY <1>0, <1>2, <2>1, <2>3 DEF CleanupInv, AfterCleanup, CleanupDue
  <2> QED
    BY <2>2, <2>3
<1>3. ASSUME RecvNothing
      PROVE  CleanupInv'
  BY <1>2, <1>3 DEF RecvNothing
<1>4. ASSUME NEW a \in network, RecvAnswer(a)
      PROVE  CleanupInv'
  <2>1. Removed(a, AfterCleanup) \subseteq AfterCleanup
    BY DEF Removed
  <2> QED
    BY <1>2, <1>4, <2>1 DEF RecvAnswer
<1>5. ASSUME Advance
      PROVE  CleanupInv'
  BY <1>0, <1>5 DEF Advance, CleanupInv
<1>6. ASSUME UNCHANGED <<now, lastCleanup, polled, requests>>
      PROVE  CleanupInv'
  BY <1>6 DEF CleanupInv
<1>7. (\E u \in Tids, from \in Addresses : Answer(u, from)) \/ UNCHANGED vars
         => UNCHANGED <<now, lastCleanup, polled, requests>>
  BY DEF Answer, vars
<1> QED
  BY <1>1, <1>3, <1>4, <1>5, <1>6, <1>7 DEF Next

\* InflightRequests does not grow without bound: a request that nobody answers
\* is gone one cleanup interval after it timed out.
THEOREM RequestsDoNotPileUp == Spec => []NoLeak
<1>1. Init => CleanupInv
  <2> SUFFICES ASSUME Init PROVE CleanupInv
    OBVIOUS
  <2>1. DOMAIN requests = {} /\ lastCleanup = 0 /\ now = 0
    BY DEF Init
  <2> QED
    BY <2>1, SocketAssumption DEF SocketAssumption, CleanupInv
<1>2. Spec => []CleanupInv
  BY <1>1, CleanupInvStep, SocketTypeCorrect, PTL DEF Spec
<1>3. TypeOK /\ CleanupInv => NoLeak
  BY SocketAssumption DEF SocketAssumption, TypeOK, InflightRequest, CleanupInv, NoLeak
<1> QED
  BY <1>2, <1>3, SocketTypeCorrect, PTL

=============================================================================
