----------------------------- MODULE DhtProofs -----------------------------
(***************************************************************************)
(* The handles of a node, blocking and async: they panic only after the    *)
(* last one was dropped, every stream hands over all its values, and       *)
(* get_mutable_most_recent returns the newest of them.                     *)
(*                                                                         *)
(* What a caller has read and what is still in its channel are sequences   *)
(* that grow and shrink by one; what the recursive MostRecent computes of  *)
(* them is proved by least counterexample (LeastNat).                      *)
(***************************************************************************)
EXTENDS Dht, SequenceTheorems, NaturalsInduction, WellFoundedInduction, TLAPS

\* A set of numbers has a least one: what induction over data rests on here.
LEMMA LeastNat ==
  ASSUME NEW T \in SUBSET Nat, T # {}
  PROVE  \E n \in T : \A m \in T : n <= m
  <1>1. IsWellFoundedOn(OpToRel(<, Nat), Nat)
    BY NatLessThanWellFounded
  <1>2. PICK n \in T : \A m \in T : ~ (<<m, n>> \in OpToRel(<, Nat))
    BY <1>1, WFMin
  <1>3. \A m \in T : ~ (m < n)
    BY <1>2 DEF OpToRel
  <1>4. QED
    BY <1>3

-----------------------------------------------------------------------------
(* The fold of get_mutable_most_recent *)

\* Item a is at least as recent as b.
NoOlder(a, b) == a.seq > b.seq \/ (a.seq = b.seq /\ a.value >= b.value)

\* The most recent of some items.
Newest(S) == {i \in S : \A j \in S : NoOlder(i, j)}

\* NoOlder is a total order of the items.
LEMMA NoOlderIsOrder ==
  /\ \A a, b \in AllItems : NoOlder(a, b) \/ NoOlder(b, a)
  /\ \A a, b, c \in AllItems : NoOlder(a, b) /\ NoOlder(b, c) => NoOlder(a, c)
  /\ \A a, b \in AllItems : NoOlder(a, b) /\ NoOlder(b, a) => a = b
  BY DEF NoOlder, AllItems

\* most_recent_mutable_item chooses between the best so far and one more.
LEMMA MostRecentOfTwo ==
  ASSUME NEW S \in SUBSET AllItems, NEW x \in AllItems, S # {} => Newest(S) # {}
  PROVE  /\ most_recent_mutable_item(Newest(S), x) = Newest(S \cup {x})
         /\ Newest(S \cup {x}) # {}
  <1>1. Newest(S) \subseteq S /\ \A a \in S \cup {x} : a \in AllItems /\ NoOlder(a, a)
    BY NoOlderIsOrder DEF Newest
  <1>2. CASE \E mr \in Newest(S) : NoOlder(mr, x)
    <2>1. PICK mr \in Newest(S) : NoOlder(mr, x)
      BY <1>2
    <2>2. most_recent_mutable_item(Newest(S), x) = Newest(S)
      BY <1>2 DEF most_recent_mutable_item, NoOlder
    <2>3. \A b \in Newest(S) : NoOlder(b, x)
      BY <1>1, <2>1, NoOlderIsOrder DEF Newest
    <2>4. Newest(S) \subseteq Newest(S \cup {x})
      BY <2>3 DEF Newest
    <2>5. ASSUME NEW i \in Newest(S \cup {x}) PROVE i \in Newest(S)
      <3>1. CASE i \in S
        BY <2>5, <3>1 DEF Newest
      <3>2. CASE i = x
        <4>1. NoOlder(x, mr)
          BY <1>1, <2>5, <3>2 DEF Newest
        <4>2. x = mr
          BY <1>1, <2>1, <4>1, NoOlderIsOrder
        <4>3. QED
          BY <3>2, <4>2
      <3>3. QED
        BY <2>5, <3>1, <3>2 DEF Newest
    <2>6. QED
      BY <2>1, <2>2, <2>4, <2>5
  <1>3. CASE ~ \E mr \in Newest(S) : NoOlder(mr, x)
    <2>1. most_recent_mutable_item(Newest(S), x) = {x}
      BY <1>3 DEF most_recent_mutable_item, NoOlder
    <2>2. ASSUME NEW j \in S PROVE NoOlder(x, j)
      <3>1. PICK mr \in Newest(S) : TRUE
        BY <2>2
      <3>2. NoOlder(x, mr) /\ NoOlder(mr, j)
        BY <1>1, <1>3, <2>2, <3>1, NoOlderIsOrder DEF Newest
      <3>3. QED
        BY <1>1, <2>2, <3>1, <3>2, NoOlderIsOrder
    <2>3. x \in Newest(S \cup {x})
      BY <1>1, <2>2 DEF Newest
    <2>4. ASSUME NEW i \in Newest(S \cup {x}) PROVE i = x
      <3> SUFFICES ASSUME i # x PROVE FALSE
        OBVIOUS
      <3>1. i \in Newest(S) /\ NoOlder(i, x)
        BY <2>4 DEF Newest
      <3>2. QED
        BY <1>3, <3>1
    <2>5. QED
      BY <2>1, <2>3, <2>4
  <1>4. QED
    BY <1>2, <1>3

\* The fold over a stream returns the most recent of its items.
LEMMA MostRecentIs ==
  ASSUME NEW s \in Seq(AllItems)
  PROVE  MostRecent(s) = Newest({s[i] : i \in DOMAIN s})
  <1> DEFINE First1(n) == {s[i] : i \in 1 .. n}
             Best(n) == Newest(First1(n))
             f == [n \in 0 .. Len(s) |-> Best(n)]
             Body(h) == [n \in 0 .. Len(s) |->
                IF n = 0 THEN {} ELSE most_recent_mutable_item(h[n - 1], s[n])]
             F == CHOOSE h : h = Body(h)
  <1>0. Len(s) \in Nat /\ DOMAIN s = 1 .. Len(s) /\ \A i \in 1 .. Len(s) : s[i] \in AllItems
    OBVIOUS
  <1>1. Best(0) = {}
    BY DEF Newest
  <1>2. ASSUME NEW n \in 1 .. Len(s), First1(n - 1) # {} => Best(n - 1) # {}
        PROVE  Best(n) = most_recent_mutable_item(Best(n - 1), s[n]) /\ Best(n) # {}
    <2>1. First1(n) = First1(n - 1) \cup {s[n]}
      <3>1. 1 .. n = (1 .. n - 1) \cup {n}
        BY <1>0
      <3>2. QED
        BY <3>1
    <2>2. First1(n - 1) \in SUBSET AllItems /\ s[n] \in AllItems
      BY <1>0
    <2> HIDE DEF First1
    <2>3. QED
      BY <1>2, <2>1, <2>2, MostRecentOfTwo
  <1>3. \A n \in 0 .. Len(s) : n # 0 => Best(n) # {}
    <2> DEFINE Bad == {n \in 0 .. Len(s) : n # 0 /\ Best(n) = {}}
    <2> SUFFICES ASSUME Bad # {} PROVE FALSE
      OBVIOUS
    <2>0. Bad \in SUBSET Nat
      BY <1>0
    <2> HIDE DEF Best
    <2>1. PICK n \in Bad : \A l \in Bad : n <= l
      <3> HIDE DEF Bad
      <3> QED
        BY <2>0, LeastNat
    <2>2. n \in 1 .. Len(s) /\ Best(n) = {} /\ n - 1 \in 0 .. Len(s) /\ ~ (n <= n - 1)
      BY <1>0
    <2>3. n - 1 # 0 => Best(n - 1) # {}
      BY <2>1, <2>2
    <2>4. First1(n - 1) # {} => Best(n - 1) # {}
      BY <1>0, <2>2, <2>3
    <2> HIDE DEF First1
    <2>5. QED
      BY <1>2, <2>2, <2>4
  <1>4. ASSUME NEW n \in 1 .. Len(s)
        PROVE  Best(n) = most_recent_mutable_item(Best(n - 1), s[n])
    <2>1. n - 1 \in 0 .. Len(s)
      BY <1>0
    <2>2. First1(n - 1) # {} => Best(n - 1) # {}
      <3>1. n - 1 = 0 => First1(n - 1) = {}
        OBVIOUS
      <3> HIDE DEF First1, Best
      <3>2. QED
        BY <1>3, <2>1, <3>1
    <2> HIDE DEF First1, Best
    <2>3. QED
      BY <1>2, <2>2
  <1> HIDE DEF Best
  <1>5. f = Body(f)
    <2>1. ASSUME NEW n \in 0 .. Len(s) PROVE f[n] = Body(f)[n]
      <3>1. CASE n = 0
        BY <1>1, <3>1
      <3>2. CASE n # 0
        <4>1. n \in 1 .. Len(s) /\ n - 1 \in 0 .. Len(s)
          BY <1>0, <3>2
        <4>2. QED
          BY <1>4, <3>2, <4>1
      <3>3. QED
        BY <3>1, <3>2
    <2>2. QED
      BY <2>1
  <1>6. F = Body(F)
    <2> HIDE DEF f, Body
    <2> QED
      BY <1>5
  <1>7. \A n \in 0 .. Len(s) : F[n] = f[n]
    <2> DEFINE Bad == {n \in 0 .. Len(s) : F[n] # f[n]}
    <2> SUFFICES ASSUME Bad # {} PROVE FALSE
      OBVIOUS
    <2>0. Bad \in SUBSET Nat
      BY <1>0
    <2> HIDE DEF F, Bad, f
    <2>1. PICK n \in Bad : \A l \in Bad : n <= l
      BY <2>0, LeastNat
    <2>2. n \in 0 .. Len(s) /\ F[n] # f[n]
      BY DEF Bad
    <2>3. F[n] = Body(F)[n] /\ f[n] = Body(f)[n]
      BY <1>5, <1>6
    <2>4. CASE n = 0
      BY <2>2, <2>3, <2>4
    <2>5. CASE n # 0
      <3>1. n - 1 \in 0 .. Len(s) /\ ~ (n <= n - 1)
        BY <1>0, <2>2, <2>5
      <3>2. F[n - 1] = f[n - 1]
        BY <2>1, <3>1 DEF Bad
      <3>3. QED
        BY <2>2, <2>3, <2>5, <3>2
    <2>6. QED
      BY <2>4, <2>5
  <1>8. MostRecent(s) = F[Len(s)]
    BY DEF MostRecent
  <1>9. QED
    BY <1>0, <1>7, <1>8 DEF Best

-----------------------------------------------------------------------------
(* The inductive invariant *)

\* While Dht::new runs it holds the only sender; a handle exists only after the
\* actor has answered its Check, and the actor runs as long as one does.
Startup ==
  /\ creator = "Spawned" => inbox = <<>> /\ checked = None
  /\ creator \in {"Spawned", "Waiting"} => handles = {}
  /\ creator = "Waiting" /\ checked = "Ok" => actor = "Running"
  /\ handles # {} => actor = "Running"

\* A call is in the channel of messages once, until the actor takes it out.
Queued ==
  /\ \A i \in DOMAIN inbox : inbox[i] \in Calls => sender[inbox[i]] = "inbox"
  /\ \A i, j \in DOMAIN inbox : inbox[i] \in Calls /\ inbox[i] = inbox[j] => i = j

\* A sender is dropped after it was used, or with the actor; calls that are not
\* streams keep a handle alive until they return.
Answered ==
  \A c \in Calls :
    /\ sender[c] # "dropped" => reply[c] = <<>>
    /\ Len(reply[c]) <= 1
    /\ (sender[c] = "dropped" /\ result[c] = None /\ ExpectsReply(c) /\ reply[c] = <<>>)
         => actor = "Exited" /\ Streams(c)
    /\ result[c] = "Panic" => actor = "Exited" /\ Streams(c)
    /\ Pending(c) /\ ~ Streams(c) => by[c] \in handles

DhtInv == TypeOK /\ Startup /\ Queued /\ Answered /\ StreamHasEveryValue

\* What a message to the callers in C, if it is their first, leaves in their channels.
LEMMA ReplyDelivered ==
  ASSUME TypeOK, NEW m \in {"info", "refused", "end", "done"}, NEW C, NEW D \in SUBSET Calls,
         Deliver(Nothing, Only(C, <<m>>), D),
         \A c \in C \cap Calls : reply[c] = <<>>
  PROVE  /\ values' = values /\ UNCHANGED <<by, result, answer>>
         /\ reply' = [c \in Calls |-> IF c \in C /\ result[c] = None THEN <<m>> ELSE reply[c]]
         /\ reply' \in [Calls -> Seq({"info", "refused", "end", "done"})]
         /\ sender' = [c \in Calls |-> IF c \in D THEN "dropped" ELSE sender[c]]
         /\ sender' \in [Calls -> {"idle", "inbox", "waiting", "dropped"}]
  <1> DEFINE R == {"info", "refused", "end", "done"}
  <1>1. \A c \in Calls : values[c] \o <<>> = values[c]
    BY ConcatEmptySeq DEF TypeOK
  <1>2. \A c \in Calls : reply[c] \in Seq(R) /\ reply[c] \o <<>> = reply[c]
    BY ConcatEmptySeq DEF TypeOK
  <1>3. <<m>> \in Seq(R) /\ <<>> \o <<m>> = <<m>>
    BY ConcatEmptySeq
  <1> HIDE DEF R
  <1>4. values' = values
    <2>1. values' = [c \in Calls |-> values[c]]
      BY <1>1 DEF Deliver, Nothing
    <2>2. QED
      BY <2>1 DEF TypeOK
  <1>5. reply' = [c \in Calls |-> IF c \in C /\ result[c] = None THEN <<m>> ELSE reply[c]]
    <2>1. \A c \in Calls : (IF result[c] = None THEN reply[c] \o Only(C, <<m>>)[c] ELSE reply[c])
                           = IF c \in C /\ result[c] = None THEN <<m>> ELSE reply[c]
      BY <1>2, <1>3 DEF Only
    <2>2. reply' = [c \in Calls |-> IF result[c] = None THEN reply[c] \o Only(C, <<m>>)[c] ELSE reply[c]]
      BY DEF Deliver
    <2>3. QED
      BY <2>1, <2>2
  <1>6. reply' \in [Calls -> Seq(R)]
    BY <1>2, <1>3, <1>5
  <1>7. QED
    BY <1>4, <1>5, <1>6 DEF Deliver, R, TypeOK

\* Dht::new and the actor's start.
LEMMA StartKeeps ==
  ASSUME DhtInv, CreatorStep \/ ActorStart \/ ActorReport \/ ActorLeave
  PROVE  DhtInv'
  <1> USE DhtAssumption DEF DhtInv, None
  <1>1. CASE NewSend
    <2>1. CASE actor = "Exited"
      BY <1>1, <2>1 DEF NewSend, callVars, rpcVars, TypeOK, Startup, Queued, Answered,
            StreamHasEveryValue, Pending
    <2>2. CASE actor # "Exited"
      <3>1. /\ creator = "Spawned" /\ creator' = "Waiting" /\ inbox = <<>> /\ inbox' = <<"check">>
            /\ UNCHANGED <<bindFails, checked, actor, handles, callVars, rpcVars>>
        BY <1>1, <2>2 DEF NewSend, Startup
      <3>2. TypeOK'
        BY <3>1 DEF TypeOK, callVars, rpcVars
      <3>3. Startup'
        BY <3>1 DEF Startup
      <3>4. Queued'
        BY <3>1 DEF Queued
      <3>5. Answered' /\ StreamHasEveryValue'
        BY <3>1 DEF Answered, StreamHasEveryValue, Pending, callVars, rpcVars
      <3>6. QED
        BY <3>2, <3>3, <3>4, <3>5
    <2>3. QED
      BY <2>1, <2>2
  <1>2. CASE NewReceive
    <2>1. UNCHANGED <<bindFails, checked, actor, inbox, callVars, rpcVars>> /\ creator = "Waiting"
          /\ handles = {} /\ handles' \in {{}, {First}}
          /\ creator' \in {"Built", "Failed", "Panicked"}
          /\ (handles' # {} => actor = "Running")
      BY <1>2 DEF NewReceive, Startup
    <2>2. TypeOK'
      BY <2>1 DEF TypeOK, callVars, rpcVars
    <2>3. Startup'
      BY <2>1 DEF Startup
    <2>4. Queued' /\ StreamHasEveryValue'
      BY <2>1 DEF Queued, StreamHasEveryValue, callVars, rpcVars
    <2>5. Answered'
      BY <2>1 DEF Answered, Pending, callVars
    <2>6. QED
      BY <2>2, <2>3, <2>4, <2>5
  <1>3. CASE ActorStart
    <2>1. UNCHANGED <<startVars, handles, inbox, callVars, rpcVars>> /\ actor = "Starting"
          /\ actor' \in {"Failed", "Running"}
      BY <1>3 DEF ActorStart
    <2>2. QED
      BY <2>1 DEF TypeOK, Startup, Queued, Answered, StreamHasEveryValue, Pending,
            startVars, callVars, rpcVars
  <1>4. CASE ActorReport
    <2>1. UNCHANGED <<bindFails, creator, handles, callVars, rpcVars>>
          /\ actor = "Failed" /\ actor' = "Leaving" /\ handles = {}
      BY <1>4 DEF ActorReport, Startup
    <2>2. CASE inbox = <<>>
      BY <1>4, <2>1, <2>2 DEF ActorReport, TypeOK, Startup, Queued, Answered,
            StreamHasEveryValue, Pending, callVars, rpcVars
    <2>3. CASE inbox # <<>>
      <3>1. inbox' = Tail(inbox) /\ checked' = "Err" /\ creator # "Spawned"
        BY <1>4, <2>3 DEF ActorReport, Startup
      <3>2. /\ inbox' \in Seq(Calls \cup {"check"})
            /\ \A i \in DOMAIN inbox' : i + 1 \in DOMAIN inbox /\ inbox'[i] = inbox[i + 1]
        BY <2>3, <3>1 DEF TypeOK
      <3>3. TypeOK'
        BY <2>1, <3>1, <3>2 DEF TypeOK, callVars, rpcVars
      <3>4. Startup'
        BY <2>1, <3>1 DEF Startup
      <3>5. Queued'
        BY <2>1, <3>2 DEF Queued, callVars
      <3>6. Answered' /\ StreamHasEveryValue'
        BY <2>1 DEF Answered, StreamHasEveryValue, Pending, callVars, rpcVars
      <3>7. QED
        BY <3>3, <3>4, <3>5, <3>6
    <2>4. QED
      BY <2>2, <2>3
  <1>5. CASE ActorLeave
    BY <1>5 DEF ActorLeave, TypeOK, Startup, Queued, Answered, StreamHasEveryValue, Pending,
          startVars, callVars, rpcVars
  <1>6. QED
    BY <1>1, <1>2, <1>3, <1>4, <1>5 DEF CreatorStep

\* Dht::clone, and the drop of a handle that no call borrows.
LEMMA HandlesKeep ==
  ASSUME DhtInv, NEW h \in Handles, Clone(h) \/ Drop(h)
  PROVE  DhtInv'
  <1> USE DEF DhtInv
  <1>1. /\ UNCHANGED <<startVars, actor, inbox, callVars, rpcVars>> /\ handles # {}
        /\ handles' \subseteq Handles
    BY DEF Clone, Drop, TypeOK
  <1>2. \A c \in Calls : by[c] \in handles /\ ~ Streams(c) => by[c] \in handles'
    BY DEF Clone, Drop, Borrowed
  <1>3. TypeOK' /\ Queued' /\ StreamHasEveryValue'
    BY <1>1 DEF TypeOK, Queued, StreamHasEveryValue, startVars, callVars, rpcVars
  <1>4. Startup'
    BY <1>1 DEF Startup, startVars
  <1>5. Answered'
    BY <1>1, <1>2 DEF Answered, Pending, callVars
  <1>6. QED
    BY <1>3, <1>4, <1>5

\* Dht::send: a handle shows that the actor runs, so it never panics.
LEMMA CallKeeps ==
  ASSUME DhtInv, NEW h \in Handles, NEW c \in Calls, Call(h, c)
  PROVE  DhtInv'
  <1> USE DhtAssumption DEF DhtInv
  <1>1. /\ h \in handles /\ sender[c] = "idle" /\ actor = "Running"
        /\ by' = [by EXCEPT ![c] = h] /\ inbox' = Append(inbox, c)
        /\ sender' = [sender EXCEPT ![c] = "inbox"]
        /\ UNCHANGED <<startVars, actor, handles, values, reply, result, answer, rpcVars>>
    BY DEF Call, Startup
  <1>2. PICK n \in Nat : n = Len(inbox) /\ DOMAIN inbox = 1 .. n
    <2>1. Len(inbox) \in Nat /\ DOMAIN inbox = 1 .. Len(inbox)
      BY DEF TypeOK
    <2>2. QED
      BY <2>1
  <1>3. /\ inbox' \in Seq(Calls \cup {"check"}) /\ DOMAIN inbox' = 1 .. (n + 1)
        /\ inbox'[n + 1] = c /\ \A i \in 1 .. n : inbox'[i] = inbox[i]
    BY <1>1, <1>2 DEF TypeOK
  <1>4. TypeOK'
    BY <1>1, <1>3 DEF TypeOK, startVars, rpcVars
  <1>5. Startup'
    BY <1>1 DEF Startup, startVars
  <1>6. Queued'
    <2>1. \A i \in 1 .. n : inbox[i] \in Calls => sender[inbox[i]] = "inbox" /\ inbox[i] # c
      BY <1>1, <1>2 DEF Queued
    <2>2. \A i \in 1 .. (n + 1) : i \in 1 .. n \/ i = n + 1
      OBVIOUS
    <2>3. \A i \in DOMAIN inbox' : inbox'[i] \in Calls => sender'[inbox'[i]] = "inbox"
      <3> SUFFICES ASSUME NEW i \in DOMAIN inbox', inbox'[i] \in Calls
                   PROVE  sender'[inbox'[i]] = "inbox"
        OBVIOUS
      <3>1. CASE i \in 1 .. n
        BY <1>1, <1>3, <2>1, <3>1 DEF TypeOK
      <3>2. CASE i = n + 1
        BY <1>1, <1>3, <3>2 DEF TypeOK
      <3>3. QED
        BY <1>3, <2>2, <3>1, <3>2
    <2>4. \A i, j \in DOMAIN inbox' : inbox'[i] \in Calls /\ inbox'[i] = inbox'[j] => i = j
      BY <1>2, <1>3, <2>1, <2>2 DEF Queued
    <2>5. QED
      BY <2>3, <2>4 DEF Queued
  <1>7. Answered'
    BY <1>1 DEF Answered, Pending, TypeOK
  <1>8. StreamHasEveryValue'
    BY <1>1 DEF StreamHasEveryValue, TypeOK, rpcVars
  <1>9. QED
    BY <1>4, <1>5, <1>6, <1>7, <1>8

\* A call ends: its receivers are gone, and it borrows its handle no longer.
LEMMA CloseKeeps ==
  ASSUME DhtInv, NEW c \in Calls, NEW r \in {"Ok", "Panic", "Cancelled"}, Close(c),
         result' = [result EXCEPT ![c] = r],
         r = "Panic" => actor = "Exited" /\ Streams(c),
         answer' \in [Calls -> SUBSET AllItems],
         UNCHANGED <<startVars, actor, handles, inbox, sender, rpcVars>>
  PROVE  DhtInv'
  <1> USE DEF DhtInv, Close, None
  <1>1. TypeOK'
    <2>1. /\ by' \in [Calls -> Handles \cup {None}]
          /\ values' \in [Calls -> Seq(AllItems)]
          /\ reply' \in [Calls -> Seq({"info", "refused", "end", "done"})]
          /\ result' \in [Calls -> {None, "Ok", "Panic", "Cancelled"}]
      BY DEF TypeOK
    <2>2. QED
      BY <2>1 DEF TypeOK, startVars, rpcVars
  <1>2. Startup' /\ Queued'
    BY DEF Startup, Queued, startVars
  <1>3. Answered'
    BY DEF Answered, Pending, TypeOK
  <1>4. StreamHasEveryValue'
    BY DEF StreamHasEveryValue, TypeOK, rpcVars
  <1>5. QED
    BY <1>1, <1>2, <1>3, <1>4

\* A call that returns, or is cancelled.  An expect fails only for a stream
\* that is left when the actor is gone.
LEMMA ReturnKeeps ==
  ASSUME DhtInv, NEW c \in Calls, Return(c) \/ Cancel(c)
  PROVE  DhtInv'
  <1> USE DEF DhtInv
  <1>1. /\ Pending(c) /\ Close(c)
        /\ UNCHANGED <<startVars, actor, handles, inbox, sender, rpcVars>>
    BY DEF Return, Cancel
  <1>2. \E r \in {"Ok", "Panic", "Cancelled"} :
          /\ result' = [result EXCEPT ![c] = r]
          /\ r = "Panic" => actor = "Exited" /\ Streams(c)
    BY DEF Return, Cancel, Answered, Pending
  <1>3. Newest({values[c][i] : i \in DOMAIN values[c]}) \subseteq AllItems
    <2>1. \A i \in DOMAIN values[c] : values[c][i] \in AllItems
      BY DEF TypeOK
    <2>2. QED
      BY <2>1 DEF Newest
  <1>4. MostRecent(values[c]) \in SUBSET AllItems
    <2>1. values[c] \in Seq(AllItems)
      BY DEF TypeOK
    <2>2. MostRecent(values[c]) = Newest({values[c][i] : i \in DOMAIN values[c]})
      BY <2>1, MostRecentIs
    <2>3. QED
      BY <1>3, <2>2
  <1>5. answer' \in [Calls -> SUBSET AllItems]
    BY <1>4 DEF Return, Cancel, TypeOK
  <1>6. QED
    BY <1>1, <1>2, <1>5, CloseKeeps

-----------------------------------------------------------------------------
(* The actor's loop *)

\* Every caller whose sender is dropped, and who expects a reply, was sent it.
LEMMA RepliesKeep ==
  ASSUME DhtInv, NEW m \in {"info", "refused", "end", "done"}, NEW C \in SUBSET Calls,
         NEW D \in SUBSET Calls, Deliver(Nothing, Only(C, <<m>>), D),
         C \subseteq D, \A c \in D : sender[c] \in {"inbox", "waiting"},
         \A c \in D : ExpectsReply(c) => c \in C,
         UNCHANGED <<actor, handles>>
  PROVE  /\ Answered'
         /\ values' = values /\ UNCHANGED <<by, result, answer>>
         /\ reply' \in [Calls -> Seq({"info", "refused", "end", "done"})]
         /\ sender' = [c \in Calls |-> IF c \in D THEN "dropped" ELSE sender[c]]
         /\ sender' \in [Calls -> {"idle", "inbox", "waiting", "dropped"}]
  <1> USE DEF DhtInv
  <1>1. \A c \in C \cap Calls : reply[c] = <<>>
    BY DEF Answered
  <1>2. /\ values' = values /\ UNCHANGED <<by, result, answer>>
        /\ reply' = [c \in Calls |-> IF c \in C /\ result[c] = None THEN <<m>> ELSE reply[c]]
        /\ reply' \in [Calls -> Seq({"info", "refused", "end", "done"})]
        /\ sender' = [c \in Calls |-> IF c \in D THEN "dropped" ELSE sender[c]]
        /\ sender' \in [Calls -> {"idle", "inbox", "waiting", "dropped"}]
    BY <1>1, ReplyDelivered
  <1>3. <<m>> # <<>> /\ Len(<<m>>) = 1
    OBVIOUS
  <1>4. ASSUME NEW c \in Calls
        PROVE  /\ sender'[c] # "dropped" => reply'[c] = <<>>
               /\ Len(reply'[c]) <= 1
               /\ (sender'[c] = "dropped" /\ result'[c] = None /\ ExpectsReply(c)
                     /\ reply'[c] = <<>>) => actor' = "Exited" /\ Streams(c)
               /\ result'[c] = "Panic" => actor' = "Exited" /\ Streams(c)
               /\ sender'[c] # "idle" /\ result'[c] = None /\ ~ Streams(c) => by'[c] \in handles'
    BY <1>2, <1>3 DEF Answered, Pending
  <1>5. Answered'
    BY <1>4 DEF Answered, Pending
  <1>6. QED
    BY <1>2, <1>5

\* The message that try_recv takes: a call in it is in no other.
LEMMA HeadTaken ==
  ASSUME DhtInv, inbox # <<>>, inbox' = Tail(inbox)
  PROVE  /\ Head(inbox) \in Calls \cup {"check"}
         /\ Head(inbox) \in Calls => sender[Head(inbox)] = "inbox"
         /\ inbox' \in Seq(Calls \cup {"check"})
         /\ \A i \in DOMAIN inbox' : inbox'[i] \in Calls =>
               inbox'[i] # Head(inbox) /\ sender[inbox'[i]] = "inbox"
         /\ \A i, j \in DOMAIN inbox' : inbox'[i] \in Calls /\ inbox'[i] = inbox'[j] => i = j
  <1> USE DEF DhtInv
  <1>1. /\ Head(inbox) = inbox[1] /\ 1 \in DOMAIN inbox
        /\ Head(inbox) \in Calls \cup {"check"}
    BY DEF TypeOK
  <1>2. /\ inbox' \in Seq(Calls \cup {"check"})
        /\ \A i \in DOMAIN inbox' : /\ i \in Nat /\ i + 1 # 1
                                   /\ i + 1 \in DOMAIN inbox /\ inbox'[i] = inbox[i + 1]
    BY DEF TypeOK
  <1>3. QED
    BY <1>1, <1>2 DEF Queued

LEMMA RecvKeeps ==
  ASSUME DhtInv, ActorRecv
  PROVE  DhtInv'
  <1> USE DhtAssumption DEF DhtInv
  <1>1. /\ actor = "Running" /\ inbox # <<>> /\ inbox' = Tail(inbox) /\ creator # "Spawned"
        /\ UNCHANGED <<bindFails, creator, actor, handles>>
    BY DEF ActorRecv, Startup
  <1>2. /\ Head(inbox) \in Calls \cup {"check"}
        /\ Head(inbox) \in Calls => sender[Head(inbox)] = "inbox"
        /\ inbox' \in Seq(Calls \cup {"check"})
        /\ \A i \in DOMAIN inbox' : inbox'[i] \in Calls =>
              inbox'[i] # Head(inbox) /\ sender[inbox'[i]] = "inbox"
        /\ \A i, j \in DOMAIN inbox' : inbox'[i] \in Calls /\ inbox'[i] = inbox'[j] => i = j
    BY <1>1, HeadTaken
  <1>3. CASE HandleCheck
    <2>1. checked' = "Ok" /\ UNCHANGED <<callVars, rpcVars>>
      BY <1>3 DEF HandleCheck
    <2>2. TypeOK' /\ Startup'
      BY <1>1, <1>2, <2>1 DEF TypeOK, Startup, callVars, rpcVars
    <2>3. Queued' /\ Answered' /\ StreamHasEveryValue'
      BY <1>1, <1>2, <2>1 DEF Queued, Answered, StreamHasEveryValue, Pending, callVars, rpcVars
    <2>4. QED
      BY <2>2, <2>3
  <1>4. CASE HandleCall
    <2>1. PICK c \in Calls : Head(inbox) = c /\ (HandleInfo(c) \/ HandlePut(c) \/ HandleGet(c))
      BY <1>4 DEF HandleCall
    <2>2. sender[c] = "inbox" /\ reply[c] = <<>> /\ UNCHANGED checked
      BY <1>2, <1>4, <2>1 DEF Answered, HandleCall
    <2>3. Startup'
      BY <1>1, <2>2 DEF Startup
    <2>4. ASSUME NEW m \in {"info", "refused"}, Deliver(Nothing, Only({c}, <<m>>), {c}),
                 UNCHANGED rpcVars
          PROVE  DhtInv'
      <3>1. /\ Answered'
            /\ values' = values /\ UNCHANGED <<by, result, answer>>
            /\ reply' \in [Calls -> Seq({"info", "refused", "end", "done"})]
            /\ sender' = [d \in Calls |-> IF d \in {c} THEN "dropped" ELSE sender[d]]
            /\ sender' \in [Calls -> {"idle", "inbox", "waiting", "dropped"}]
        BY <1>1, <2>2, <2>4, RepliesKeep, SMTT(60)
      <3>2. TypeOK'
        BY <1>1, <1>2, <2>2, <2>4, <3>1 DEF TypeOK, rpcVars
      <3>3. Queued'
        BY <1>2, <2>1, <3>1 DEF Queued
      <3>4. StreamHasEveryValue'
        BY <2>4, <3>1 DEF StreamHasEveryValue, rpcVars
      <3>5. QED
        BY <2>3, <3>1, <3>2, <3>3, <3>4
    <2>5. ASSUME sender' = [sender EXCEPT ![c] = "waiting"], UNCHANGED <<by, reply, result, answer>>
          PROVE  Queued' /\ Answered'
      <3>1. Queued'
        BY <1>2, <2>1, <2>5 DEF Queued, TypeOK
      <3>2. Answered'
        BY <1>1, <2>2, <2>5 DEF Answered, Pending, TypeOK
      <3>3. QED
        BY <3>1, <3>2
    <2>6. Target[c] \in Targets
      BY DEF Targets
    <2>7. CASE HandleInfo(c)
      BY <2>4, <2>7 DEF HandleInfo
    <2>8. CASE HandlePut(c)
      <3>1. CASE Deliver(Nothing, Only({c}, <<"refused">>), {c}) /\ UNCHANGED rpcVars
        BY <2>4, <3>1
      <3>2. CASE /\ putting' = putting \cup {Target[c]}
                 /\ sender' = [sender EXCEPT ![c] = "waiting"]
                 /\ active' \in {active, active \cup {Target[c]}} /\ UNCHANGED responses
                 /\ UNCHANGED <<by, values, reply, result, answer>>
        <4>1. Queued' /\ Answered'
          BY <2>5, <3>2
        <4>2. TypeOK'
          BY <1>1, <1>2, <2>2, <2>6, <3>2 DEF TypeOK
        <4>3. ~ TakesValues(c)
          BY <2>8 DEF HandlePut, TakesValues
        <4>4. StreamHasEveryValue'
          BY <3>2, <4>3 DEF StreamHasEveryValue, TypeOK
        <4>5. QED
          BY <2>3, <4>1, <4>2, <4>4
      <3>3. QED
        BY <2>8, <3>1, <3>2 DEF HandlePut, StartLookup
    <2>9. CASE HandleGet(c)
      <3>1. /\ active' = active \cup {Target[c]} /\ UNCHANGED responses
            /\ values' = [values EXCEPT ![c] = IF TakesValues(c) /\ result[c] = None
                                               THEN responses[Target[c]] ELSE <<>>]
            /\ sender' = [sender EXCEPT ![c] = "waiting"]
            /\ UNCHANGED <<by, reply, result, answer, putting>>
        BY <2>9 DEF HandleGet, StartLookup, Earlier
      <3>2. Queued' /\ Answered'
        BY <2>5, <3>1
      <3>3. values' \in [Calls -> Seq(AllItems)]
        BY <2>6, <3>1 DEF TypeOK
      <3>4. TypeOK'
        BY <1>1, <1>2, <2>2, <2>6, <3>1, <3>3 DEF TypeOK
      <3>5. StreamHasEveryValue'
        BY <2>6, <3>1 DEF StreamHasEveryValue, TypeOK
      <3>6. QED
        BY <2>3, <3>2, <3>4, <3>5
    <2>10. QED
      BY <2>1, <2>7, <2>8, <2>9
  <1>5. QED
    BY <1>3, <1>4 DEF ActorRecv

\* report.new_query_response: whoever waits gets the item the lookup now has.
LEMMA ResponseKeeps ==
  ASSUME DhtInv, NEW t \in Targets, NEW item \in Items[t], TickResponse(t, item)
  PROVE  DhtInv'
  <1> USE DEF DhtInv
  <1> DEFINE C == {c \in Waiting(t) : TakesValues(c)}
  <1>1. /\ item \in AllItems /\ responses[t] \in Seq(AllItems)
        /\ responses' = [responses EXCEPT ![t] = Append(responses[t], item)]
        /\ UNCHANGED <<startVars, actor, handles, inbox, active, putting, by, result, answer>>
    BY DhtAssumption DEF TickResponse, Deliver, TypeOK
  <1>2. reply' = reply
    <2>1. \A c \in Calls : reply[c] \o <<>> = reply[c]
      BY ConcatEmptySeq DEF TypeOK
    <2>2. reply' = [c \in Calls |-> reply[c]]
      BY <2>1 DEF TickResponse, Deliver, Nothing
    <2>3. QED
      BY <2>2 DEF TypeOK
  <1>3. sender' = sender
    BY DEF TickResponse, Deliver, TypeOK
  <1>4. values' = [c \in Calls |-> IF c \in C /\ result[c] = None
                                   THEN Append(values[c], item) ELSE values[c]]
    <2>1. ASSUME NEW c \in Calls
          PROVE  values[c] \o <<>> = values[c] /\ values[c] \o <<item>> = Append(values[c], item)
      BY <1>1, ConcatEmptySeq, AppendIsConcat DEF TypeOK
    <2>2. \A c \in Calls :
            (IF result[c] = None THEN values[c] \o Only(C, <<item>>)[c] ELSE values[c])
            = IF c \in C /\ result[c] = None THEN Append(values[c], item) ELSE values[c]
      BY <2>1 DEF Only
    <2>3. values' = [c \in Calls |->
                       IF result[c] = None THEN values[c] \o Only(C, <<item>>)[c] ELSE values[c]]
      BY DEF TickResponse, Deliver
    <2>4. QED
      BY <2>2, <2>3
  <1>5. values' \in [Calls -> Seq(AllItems)] /\ responses' \in [Targets -> Seq(AllItems)]
    BY <1>1, <1>4 DEF TypeOK
  <1>6. TypeOK'
    BY <1>1, <1>2, <1>3, <1>5 DEF TypeOK, startVars
  <1>7. Startup' /\ Queued' /\ Answered'
    BY <1>1, <1>2, <1>3 DEF Startup, Queued, Answered, Pending, startVars
  <1>8. StreamHasEveryValue'
    BY <1>1, <1>3, <1>4 DEF StreamHasEveryValue, TypeOK, Waiting, TakesValues
  <1>9. QED
    BY <1>6, <1>7, <1>8

\* report.done_get_queries and report.done_put_queries
LEMMA DoneKeeps ==
  ASSUME DhtInv, NEW t \in Targets, TickDone(t) \/ TickPutDone(t)
  PROVE  DhtInv'
  <1> USE DEF DhtInv
  <1>1. CASE TickDone(t)
    <2>1. /\ ToldTheEnd(t) \subseteq Finished(t) /\ Finished(t) \subseteq Calls
          /\ \A c \in Finished(t) : sender[c] = "waiting" /\ (ExpectsReply(c) => c \in ToldTheEnd(t))
          /\ \A c \in Calls : sender[c] = "waiting" /\ Target[c] = t /\ TakesValues(c)
                               => c \in Finished(t)
      BY DEF ToldTheEnd, Finished, Waiting, TakesValues
    <2>2. /\ active' = active \ {t} /\ responses' = [responses EXCEPT ![t] = <<>>]
          /\ UNCHANGED <<startVars, actor, handles, inbox, putting>>
          /\ Deliver(Nothing, Only(ToldTheEnd(t), <<"end">>), Finished(t))
      BY <1>1 DEF TickDone
    <2>3. /\ Answered'
          /\ values' = values /\ UNCHANGED <<by, result, answer>>
          /\ reply' \in [Calls -> Seq({"info", "refused", "end", "done"})]
          /\ sender' = [d \in Calls |-> IF d \in Finished(t) THEN "dropped" ELSE sender[d]]
          /\ sender' \in [Calls -> {"idle", "inbox", "waiting", "dropped"}]
      BY <2>1, <2>2, RepliesKeep
    <2>4. responses' \in [Targets -> Seq(AllItems)]
      BY <2>2 DEF TypeOK
    <2>5. TypeOK' /\ Startup'
      BY <2>2, <2>3, <2>4 DEF TypeOK, Startup, startVars
    <2>6. Queued'
      BY <2>1, <2>2, <2>3 DEF Queued
    <2>7. StreamHasEveryValue'
      BY <2>1, <2>2, <2>3 DEF StreamHasEveryValue, TypeOK
    <2>8. QED
      BY <2>3, <2>5, <2>6, <2>7
  <1>2. CASE TickPutDone(t)
    <2>1. /\ WaitingPuts(t) \subseteq Calls
          /\ \A c \in WaitingPuts(t) : sender[c] = "waiting"
      BY DEF WaitingPuts
    <2>2. /\ putting' = putting \ {t}
          /\ UNCHANGED <<startVars, actor, handles, inbox, active, responses>>
          /\ Deliver(Nothing, Only(WaitingPuts(t), <<"done">>), WaitingPuts(t))
      BY <1>2 DEF TickPutDone
    <2>3. /\ Answered'
          /\ values' = values /\ UNCHANGED <<by, result, answer>>
          /\ reply' \in [Calls -> Seq({"info", "refused", "end", "done"})]
          /\ sender' = [d \in Calls |-> IF d \in WaitingPuts(t) THEN "dropped" ELSE sender[d]]
          /\ sender' \in [Calls -> {"idle", "inbox", "waiting", "dropped"}]
      BY <2>1, <2>2, RepliesKeep
    <2>4. TypeOK' /\ Startup'
      BY <2>2, <2>3 DEF TypeOK, Startup, startVars
    <2>5. Queued' /\ StreamHasEveryValue'
      BY <2>1, <2>2, <2>3 DEF Queued, StreamHasEveryValue
    <2>6. QED
      BY <2>3, <2>4, <2>5
  <1>3. QED
    BY <1>1, <1>2

\* The loop ends when no handle is left, so only streams are cut off.
LEMMA StopKeeps ==
  ASSUME DhtInv, ActorStop
  PROVE  DhtInv'
  <1> USE DEF DhtInv
  <1>1. /\ handles = {} /\ creator \notin {"Spawned", "Waiting"} /\ actor' = "Exited"
        /\ sender' = [c \in Calls |-> IF sender[c] = "waiting" THEN "dropped" ELSE sender[c]]
        /\ UNCHANGED <<startVars, handles, inbox, by, values, reply, result, answer, rpcVars>>
    BY DEF ActorStop, Disconnected
  <1>2. TypeOK' /\ Startup'
    BY <1>1 DEF TypeOK, Startup, startVars, rpcVars
  <1>3. Queued' /\ StreamHasEveryValue'
    BY <1>1 DEF Queued, StreamHasEveryValue, rpcVars
  <1>4. Answered'
    BY <1>1 DEF Answered, Pending
  <1>5. QED
    BY <1>2, <1>3, <1>4

-----------------------------------------------------------------------------
(* The theorems *)

LEMMA InvAlways == Spec => []DhtInv
  <1>1. Init => DhtInv
    BY DhtAssumption DEF Init, DhtInv, TypeOK, Startup, Queued, Answered, StreamHasEveryValue,
          Pending, None
  <1>2. DhtInv /\ [Next]_vars => DhtInv'
    <2> SUFFICES ASSUME DhtInv, [Next]_vars PROVE DhtInv'
      OBVIOUS
    <2>1. CASE CreatorStep \/ ActorStep
      BY <2>1, StartKeeps, RecvKeeps, StopKeeps DEF ActorStep
    <2>2. ASSUME NEW h \in Handles, Clone(h) \/ Drop(h) \/ \E c \in Calls : Call(h, c)
          PROVE  DhtInv'
      BY <2>2, HandlesKeep, CallKeeps
    <2>3. ASSUME NEW c \in Calls, Return(c) \/ Cancel(c)
          PROVE  DhtInv'
      BY <2>3, ReturnKeeps
    <2>4. ASSUME NEW t \in Targets,
                 TickDone(t) \/ TickPutDone(t) \/ \E item \in Items[t] : TickResponse(t, item)
          PROVE  DhtInv'
      BY <2>4, DoneKeeps, ResponseKeeps
    <2>5. CASE UNCHANGED vars
      BY <2>5 DEF vars, DhtInv, TypeOK, Startup, Queued, Answered, StreamHasEveryValue, Pending,
            startVars, callVars, rpcVars
    <2>6. QED
      BY <2>1, <2>2, <2>3, <2>4, <2>5 DEF Next
  <1>3. QED
    BY <1>1, <1>2, PTL DEF Spec

\* The channels, threads and calls of dht.rs are always in states they can be
\* in; the items in every stream are items of the network.
THEOREM DhtTypeOK == Spec => []TypeOK
  <1>1. DhtInv => TypeOK
    BY DEF DhtInv
  <1>2. QED
    BY <1>1, InvAlways, PTL

\* No expect of dht.rs and async_dht.rs fails while a handle is alive, for any
\* number of clones, calls and targets (src/src/dht.rs, Dht::send and the
\* recv().expect of the calls).
THEOREM NoPanicWhileInUse == Spec => []PanicsOnlyAfterLastDrop
  <1>1. DhtInv => PanicsOnlyAfterLastDrop
    BY DEF DhtInv, Startup, Answered, PanicsOnlyAfterLastDrop
  <1>2. QED
    BY <1>1, InvAlways, PTL

\* The actor sends at most one message on each bounded(1) channel, and every
\* value of a lookup to everyone who waits for it, in order.
THEOREM EveryValueDelivered == Spec => []Delivered
  <1>1. DhtInv => Delivered
    BY DEF DhtInv, Answered, Delivered, OneReply
  <1>2. QED
    BY <1>1, InvAlways, PTL

\* get_mutable_most_recent returns the most recent of the items its stream
\* brought, for every stream: whatever its length and the order of its items.
THEOREM MostRecentReturned == Spec => MostRecentWins
  <1>1. DhtInv /\ [Next]_vars =>
          [\A c \in Calls : result[c] # "Ok" /\ result'[c] = "Ok"
                               /\ Kind[c] = "get_mutable_most_recent" =>
             LET came == {values[c][i] : i \in DOMAIN values[c]}
             IN answer'[c] = {i \in came : \A j \in came :
                                i.seq > j.seq \/ (i.seq = j.seq /\ i.value >= j.value)}]_vars
    <2> SUFFICES ASSUME DhtInv, Next, NEW c \in Calls,
                        result[c] # "Ok", result'[c] = "Ok", Kind[c] = "get_mutable_most_recent"
                 PROVE  answer'[c] = Newest({values[c][i] : i \in DOMAIN values[c]})
      BY DEF Newest, NoOlder
    <2>1. PICK d \in Calls : Return(d) \/ Cancel(d) \/ \E h \in Handles : Call(h, d)
      BY DEF Next, CreatorStep, NewSend, NewReceive, ActorStep, ActorStart, ActorReport,
             ActorLeave, ActorRecv, ActorStop, Clone, Drop, TickDone, TickPutDone, TickResponse,
             HandleCheck, HandleCall, HandleInfo, HandlePut, HandleGet, Deliver, callVars
    <2>2. d = c /\ Return(c)
      BY <2>1 DEF Return, Cancel, Call, DhtInv, TypeOK
    <2>3. values[c] \in Seq(AllItems)
      BY DEF DhtInv, TypeOK
    <2>4. answer' = [answer EXCEPT ![c] = MostRecent(values[c])]
      BY <2>2 DEF Return, ExpectsReply, DhtInv, TypeOK
    <2>5. answer'[c] = MostRecent(values[c])
      BY <2>4 DEF DhtInv, TypeOK
    <2>6. QED
      BY <2>3, <2>5, MostRecentIs
  <1>2. QED
    BY <1>1, InvAlways, PTL DEF Spec, MostRecentWins
=============================================================================
