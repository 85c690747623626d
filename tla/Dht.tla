-------------------------------- MODULE Dht --------------------------------
(***************************************************************************)
(* The Dht and AsyncDht objects (src/src/dht.rs, src/src/async_dht.rs):    *)
(* handles that are cloned and dropped, the thread that creates a node,    *)
(* the calls and the streams they leave behind, the flume channels between *)
(* them and the actor thread, and the actor's loop.                        *)
(*                                                                         *)
(* What the actor does with a lookup or a put is modelled in Rpc; here a   *)
(* lookup brings any items and ends.  A message of the actor is "check" or *)
(* the name of a call, which stands for its sender.                        *)
(***************************************************************************)
EXTENDS Naturals, Sequences, FiniteSets

CONSTANTS
  Handles, First,  \* clones of the Dht, and the one Dht::new returns
  Calls,           \* the calls that may be made, each once
  Kind,            \* what is called
  Target,          \* and the id it is about
  Items,           \* the items a lookup of an id may bring: [seq, value]
  MaxCalls,        \* bound: calls that are made
  MaxResponses     \* bound: items that one lookup brings

Kinds == {"info", "find_node", "get_mutable", "get_mutable_detailed",
          "get_mutable_most_recent", "get_immutable", "put"}
Targets == {Target[c] : c \in Calls}
AllItems == [seq : Nat, value : Nat]

ASSUME DhtAssumption ==
  /\ First \in Handles /\ "none" \notin Handles /\ "check" \notin Calls
  /\ Kind \in [Calls -> Kinds] /\ DOMAIN Target = Calls
  /\ \A t \in Targets : Items[t] \subseteq AllItems
  /\ MaxCalls \in Nat /\ MaxResponses \in Nat

VARIABLES
  bindFails,  \* whether Rpc::new will fail to bind its socket
  creator,    \* the thread in Dht::new
  checked,    \* the channel of its Check message
  actor,      \* the actor thread
  handles,    \* the live clones of the Dht
  inbox,      \* the channel of ActorMessages
  sender,     \* where the sender of a call is: "idle", "inbox", "waiting", "dropped"
  by,         \* the handle a call was made on
  values,     \* what was sent on a call's unbounded channel of values
  reply,      \* what was sent on its bounded(1) channel
  result,     \* what the call returned
  answer,     \* the item that get_mutable_most_recent returned, if any
  active,     \* rpc.iterative_queries: targets being looked up
  responses,  \* the values each of these lookups has brought
  putting     \* rpc.put_queries

startVars == <<bindFails, creator, checked>>
callVars == <<sender, by, values, reply, result, answer>>
rpcVars == <<active, responses, putting>>
vars == <<startVars, actor, handles, inbox, callVars, rpcVars>>

None == "none"

Init ==
  /\ bindFails \in BOOLEAN /\ creator = "Spawned" /\ checked = None
  /\ actor = "Starting" /\ handles = {} /\ inbox = <<>>
  /\ sender = [c \in Calls |-> "idle"] /\ by = [c \in Calls |-> None]
  /\ values = [c \in Calls |-> <<>>] /\ reply = [c \in Calls |-> <<>>]
  /\ result = [c \in Calls |-> None] /\ answer = [c \in Calls |-> {}]
  /\ active = {} /\ responses = [t \in Targets |-> <<>>] /\ putting = {}

\* Kinds of calls: those that return one reply, which they expect to come,
\* and those that read values until the channel is closed.
ExpectsReply(c) == Kind[c] \in {"info", "find_node", "get_mutable_detailed", "put"}
TakesValues(c) == Kind[c] \in {"get_mutable", "get_mutable_detailed",
                              "get_mutable_most_recent", "get_immutable"}

\* Calls that return before their lookup ends, with a stream that does not
\* borrow the Dht.
Streams(c) == Kind[c] \in {"get_mutable", "get_mutable_detailed"}

Waiting(t) == {c \in Calls : sender[c] = "waiting" /\ Target[c] = t /\ Kind[c] # "put"}
WaitingPuts(t) == {c \in Calls : sender[c] = "waiting" /\ Target[c] = t /\ Kind[c] = "put"}

-----------------------------------------------------------------------------
(* Dht::new, and the start of run *)

\* sender.send(ActorMessage::Check(tx)), expected not to fail.
NewSend ==
  /\ creator = "Spawned"
  /\ IF actor = "Exited" THEN creator' = "Panicked" /\ UNCHANGED inbox
     ELSE creator' = "Waiting" /\ inbox' = Append(inbox, "check")
  /\ UNCHANGED <<bindFails, checked, actor, handles, callVars, rpcVars>>

\* rx.recv(): the answer, or a panic when there will be none.
NewReceive ==
  /\ creator = "Waiting"
  /\ \/ checked = "Ok" /\ creator' = "Built" /\ handles' = {First}
     \/ checked = "Err" /\ creator' = "Failed" /\ UNCHANGED handles
     \/ /\ checked = None /\ actor = "Exited"
        /\ creator' = "Panicked" /\ UNCHANGED handles
  /\ UNCHANGED <<bindFails, checked, actor, inbox, callVars, rpcVars>>

\* Rpc::new
ActorStart ==
  /\ actor = "Starting"
  /\ actor' = IF bindFails THEN "Failed" ELSE "Running"
  /\ UNCHANGED <<startVars, handles, inbox, callVars, rpcVars>>

\* The error goes to the Check message if it is there already.
ActorReport ==
  /\ actor = "Failed" /\ actor' = "Leaving"
  /\ IF inbox # <<>> THEN checked' = "Err" /\ inbox' = Tail(inbox)
     ELSE UNCHANGED <<checked, inbox>>
  /\ UNCHANGED <<bindFails, creator, handles, callVars, rpcVars>>

\* The end of run, where the receiver is dropped.
ActorLeave ==
  /\ actor = "Leaving" /\ actor' = "Exited"
  /\ UNCHANGED <<startVars, handles, inbox, callVars, rpcVars>>

-----------------------------------------------------------------------------
(* Callers *)

\* Dht::clone
Clone(h) ==
  /\ handles # {} /\ h \notin handles
  /\ handles' = handles \cup {h}
  /\ UNCHANGED <<startVars, actor, inbox, callVars, rpcVars>>

\* A call that borrows the Dht is under way.
Borrowed(h) == \E c \in Calls : by[c] = h /\ ~ Streams(c)

Drop(h) ==
  /\ h \in handles /\ ~ Borrowed(h)
  /\ handles' = handles \ {h}
  /\ UNCHANGED <<startVars, actor, inbox, callVars, rpcVars>>

\* Dht::send: panics if the actor is gone.
Call(h, c) ==
  /\ h \in handles /\ sender[c] = "idle"
  /\ Cardinality({d \in Calls : sender[d] # "idle"}) < MaxCalls
  /\ IF actor = "Exited"
     THEN /\ result' = [result EXCEPT ![c] = "Panic"]
          /\ sender' = [sender EXCEPT ![c] = "dropped"] /\ UNCHANGED <<by, inbox>>
     ELSE /\ by' = [by EXCEPT ![c] = h]
          /\ inbox' = Append(inbox, c)
          /\ sender' = [sender EXCEPT ![c] = "inbox"] /\ UNCHANGED result
  /\ UNCHANGED <<startVars, actor, handles, values, reply, answer, rpcVars>>

\* mutant: an item of the same seq always replaces the other
MostRecentLast(most_recent, item) ==
  IF \E mr \in most_recent : mr.seq > item.seq THEN most_recent ELSE {item}

\* most_recent_mutable_item
most_recent_mutable_item(most_recent, item) ==
  IF \E mr \in most_recent :
       mr.seq > item.seq \/ (mr.seq = item.seq /\ mr.value >= item.value)
  THEN most_recent ELSE {item}

\* get_mutable_most_recent: the fold over the stream.
MostRecent(s) ==
  LET upto[n \in 0..Len(s)] ==
        IF n = 0 THEN {} ELSE most_recent_mutable_item(upto[n - 1], s[n])
  IN upto[Len(s)]

Pending(c) == sender[c] # "idle" /\ result[c] = None

\* The receivers of a call are dropped, and the borrow of its handle ends.
Close(c) ==
  /\ values' = [values EXCEPT ![c] = <<>>]
  /\ reply' = [reply EXCEPT ![c] = <<>>]
  /\ by' = [by EXCEPT ![c] = None]

\* What is awaited has come, or its sender is gone.
Return(c) ==
  /\ Pending(c) /\ Close(c)
  /\ \/ /\ ExpectsReply(c) /\ reply[c] # <<>>
        /\ result' = [result EXCEPT ![c] = "Ok"] /\ UNCHANGED answer
     \/ /\ ExpectsReply(c) /\ reply[c] = <<>> /\ sender[c] = "dropped"
        /\ result' = [result EXCEPT ![c] = "Panic"] /\ UNCHANGED answer
     \/ /\ Kind[c] = "get_immutable" /\ (values[c] # <<>> \/ sender[c] = "dropped")
        /\ result' = [result EXCEPT ![c] = "Ok"] /\ UNCHANGED answer
     \/ /\ Kind[c] \in {"get_mutable", "get_mutable_most_recent"} /\ sender[c] = "dropped"
        /\ result' = [result EXCEPT ![c] = "Ok"]
        /\ answer' = [answer EXCEPT ![c] = MostRecent(values[c])]
  /\ UNCHANGED <<startVars, actor, handles, inbox, sender, rpcVars>>

\* The future or the stream is dropped; what is sent to it is lost.
Cancel(c) ==
  /\ Pending(c) /\ Close(c)
  /\ result' = [result EXCEPT ![c] = "Cancelled"]
  /\ UNCHANGED <<startVars, actor, handles, inbox, sender, answer, rpcVars>>

-----------------------------------------------------------------------------
(* The actor's loop *)

\* Sends to callers that still listen, and drops the senders in D.
Deliver(v, r, D) ==
  /\ values' = [c \in Calls |-> IF result[c] = None THEN values[c] \o v[c] ELSE values[c]]
  /\ reply' = [c \in Calls |-> IF result[c] = None THEN reply[c] \o r[c] ELSE reply[c]]
  /\ sender' = [c \in Calls |-> IF c \in D THEN "dropped" ELSE sender[c]]
  /\ UNCHANGED <<by, result, answer>>

Nothing == [c \in Calls |-> <<>>]
Only(C, s) == [c \in Calls |-> IF c \in C THEN s ELSE <<>>]

\* mutant: a call that joins a lookup does not get what the lookup has brought
EarlierForgotten(t) == <<>>

\* What a Get joining an active lookup is sent at once.
Earlier(t) == responses[t]

\* Rpc::get
StartLookup(t) ==
  /\ active' = active \cup {t}
  /\ UNCHANGED responses

\* ActorMessage::Info, and ToBootstrap and SeedRouting, which are answered alike.
HandleInfo(c) ==
  /\ Kind[c] = "info"
  /\ Deliver(Nothing, Only({c}, <<"info">>), {c})
  /\ UNCHANGED rpcVars

\* ActorMessage::Put: refused at once, or to be answered when it is done; it
\* needs a lookup unless the closest nodes are cached.
HandlePut(c) ==
  /\ Kind[c] = "put"
  /\ \/ /\ Deliver(Nothing, Only({c}, <<"refused">>), {c})
        /\ UNCHANGED rpcVars
     \/ /\ putting' = putting \cup {Target[c]}
        /\ sender' = [sender EXCEPT ![c] = "waiting"]
        /\ \/ UNCHANGED <<active, responses>>
           \/ StartLookup(Target[c])
        /\ UNCHANGED <<by, values, reply, result, answer>>

\* ActorMessage::Get
HandleGet(c) ==
  LET t == Target[c]
  IN /\ Kind[c] \notin {"info", "put"}
     /\ StartLookup(t)
     /\ values' = [values EXCEPT ![c] = IF TakesValues(c) /\ result[c] = None
                                        THEN Earlier(t) ELSE <<>>]
     /\ sender' = [sender EXCEPT ![c] = "waiting"]
     /\ UNCHANGED <<by, reply, result, answer, putting>>

HandleCheck ==
  /\ Head(inbox) = "check"
  /\ checked' = "Ok"
  /\ UNCHANGED <<callVars, rpcVars>>

HandleCall ==
  /\ \E c \in Calls : Head(inbox) = c /\ (HandleInfo(c) \/ HandlePut(c) \/ HandleGet(c))
  /\ UNCHANGED checked

\* receiver.try_recv()
ActorRecv ==
  /\ actor = "Running" /\ inbox # <<>>
  /\ inbox' = Tail(inbox)
  /\ HandleCheck \/ HandleCall
  /\ UNCHANGED <<bindFails, creator, actor, handles>>

\* report.new_query_response
TickResponse(t, item) ==
  /\ actor = "Running" /\ t \in active /\ Len(responses[t]) < MaxResponses
  /\ responses' = [responses EXCEPT ![t] = Append(@, item)]
  /\ Deliver(Only({c \in Waiting(t) : TakesValues(c)}, <<item>>), Nothing, {})
  /\ UNCHANGED <<startVars, actor, handles, inbox, active, putting>>

\* mutant: the senders of a finished lookup are kept
FinishedKept(t) == {}

\* get_senders.remove: senders that are dropped when a lookup is done.
Finished(t) == Waiting(t)

\* mutant: the outcome of a detailed get is not sent
ToldNodesOnly(t) == {c \in Waiting(t) : Kind[c] = "find_node"}

\* ResponseSender::ClosestNodes and MutableDetailed are told the end.
ToldTheEnd(t) == {c \in Waiting(t) : ExpectsReply(c)}

\* report.done_get_queries
TickDone(t) ==
  /\ actor = "Running" /\ t \in active
  /\ active' = active \ {t} /\ responses' = [responses EXCEPT ![t] = <<>>]
  /\ Deliver(Nothing, Only(ToldTheEnd(t), <<"end">>), Finished(t))
  /\ UNCHANGED <<startVars, actor, handles, inbox, putting>>

\* report.done_put_queries
TickPutDone(t) ==
  /\ actor = "Running" /\ t \in putting
  /\ putting' = putting \ {t}
  /\ Deliver(Nothing, Only(WaitingPuts(t), <<"done">>), WaitingPuts(t))
  /\ UNCHANGED <<startVars, actor, handles, inbox, active, responses>>

\* mutant: a clone of the sender is forgotten, in the actor's own thread
NeverDisconnected == FALSE

\* TryRecvError::Disconnected: every clone of the sender is gone, which
\* Dht::new holds until it returns.
Disconnected == handles = {} /\ creator \notin {"Spawned", "Waiting"}

\* The loop ends when the channel is empty too; all senders are dropped.
ActorStop ==
  /\ actor = "Running" /\ inbox = <<>> /\ Disconnected
  /\ actor' = "Exited"
  /\ sender' = [c \in Calls |-> IF sender[c] = "waiting" THEN "dropped" ELSE sender[c]]
  /\ UNCHANGED <<startVars, handles, inbox, by, values, reply, result, answer, rpcVars>>

\* The steps of each thread
CreatorStep == NewSend \/ NewReceive
ActorStep == ActorStart \/ ActorReport \/ ActorLeave \/ ActorRecv \/ ActorStop

Next ==
  \/ CreatorStep
  \/ ActorStep
  \/ \E h \in Handles : Clone(h) \/ Drop(h) \/ \E c \in Calls : Call(h, c)
  \/ \E c \in Calls : Return(c) \/ Cancel(c)
  \/ \E t \in Targets :
       TickDone(t) \/ TickPutDone(t) \/ \E item \in Items[t] : TickResponse(t, item)

\* The actor's thread runs, a lookup ends (RpcLive), and a caller that waits is
\* woken.  That a put ends is not assumed: see RpcPutHang.
Fairness ==
  /\ WF_vars(CreatorStep) /\ WF_vars(ActorStep)
  /\ \A t \in Targets : WF_vars(TickDone(t))
  /\ \A c \in Calls : WF_vars(Return(c))

Spec == Init /\ [][Next]_vars /\ Fairness

-----------------------------------------------------------------------------

\* Each channel carries its own kind of message, a lookup brings items of its
\* target, and each thread and call is at one of its stages.
TypeOK ==
  /\ bindFails \in BOOLEAN /\ checked \in {None, "Ok", "Err"}
  /\ creator \in {"Spawned", "Waiting", "Built", "Failed", "Panicked"}
  /\ actor \in {"Starting", "Failed", "Leaving", "Running", "Exited"}
  /\ handles \subseteq Handles /\ by \in [Calls -> Handles \cup {None}]
  /\ inbox \in Seq(Calls \cup {"check"})
  /\ sender \in [Calls -> {"idle", "inbox", "waiting", "dropped"}]
  /\ values \in [Calls -> Seq(AllItems)] /\ responses \in [Targets -> Seq(AllItems)]
  /\ reply \in [Calls -> Seq({"info", "refused", "end", "done"})]
  /\ result \in [Calls -> {None, "Ok", "Panic", "Cancelled"}]
  /\ answer \in [Calls -> SUBSET AllItems]
  /\ active \subseteq Targets /\ putting \subseteq Targets

\* "actor thread unexpectedly shutdown" and "Query was dropped before sending a
\* response" are never seen by a caller while the node is in use: an expect
\* fails only for a receiver of get_mutable_detailed that outlives every
\* handle.
PanicsOnlyAfterLastDrop ==
  \A c \in Calls : result[c] = "Panic" => handles = {} /\ Streams(c)

\* Channels that are bounded(1) get one message: the actor's send never blocks.
OneReply == \A c \in Calls : Len(reply[c]) <= 1

\* Whoever waits for a lookup has been sent every value it has brought, the ones
\* from before the call too, in the same order.
StreamHasEveryValue ==
  \A c \in Calls : (sender[c] = "waiting" /\ TakesValues(c) /\ result[c] = None) =>
    Target[c] \in active /\ values[c] = responses[Target[c]]

\* The actor sends each caller what it waits for, all of it and once.
Delivered == OneReply /\ StreamHasEveryValue

\* get_mutable_most_recent returns the item with the highest seq, and of those
\* the greatest value, whatever the order in which they came.
MostRecentWins ==
  [][\A c \in Calls : result[c] # "Ok" /\ result'[c] = "Ok"
                        /\ Kind[c] = "get_mutable_most_recent" =>
       LET came == {values[c][i] : i \in DOMAIN values[c]}
       IN answer'[c] = {i \in came : \A j \in came :
                          i.seq > j.seq \/ (i.seq = j.seq /\ i.value >= j.value)}]_vars

\* Every call but a put returns, and every stream ends, also when the node is
\* dropped meanwhile.
ReadsReturn == \A c \in Calls : Kind[c] # "put" => (Pending(c) ~> result[c] # None)

\* The thread, and with it the socket, goes when the last handle does.
LastDropStopsActor == (creator = "Built" /\ handles = {}) ~> actor = "Exited"

\* Nobody is left behind: neither a caller that waits, nor the actor's thread
\* when nobody can call any more.
Released == ReadsReturn /\ LastDropStopsActor

=============================================================================
