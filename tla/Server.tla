------------------------------- MODULE Server -------------------------------
(***************************************************************************)
(* A node in server mode: Server::handle_request (src/src/rpc/server.rs)   *)
(* with its tokens and its stores of announced peers                       *)
(* (src/src/rpc/server/peers.rs), immutable values and mutable items.      *)
(*                                                                         *)
(* One action per kind of request; each is the whole handler: the filter,  *)
(* the rotation of the secret, the checks in the code's order, the store   *)
(* and the reply.  Requests are what any node may send: any token it was   *)
(* given or a made-up one, any seq and cas, and any set of flaws: a value  *)
(* or a salt that is too big, a hash or a signature that does not match.   *)
(***************************************************************************)
EXTENDS Tokens, LruCache, FiniteSets

CONSTANTS
  InfoHashes, PeerIds, MaxInfoHashes, MaxPeers,   \* PeersStore
  Immutables, MaxImmutable,                       \* targets of immutable values
  Mutables, MaxMutable,                           \* targets of mutable items
  Seqs, Sigs                                      \* seq numbers, signed items

ASSUME ServerAssumption ==
  /\ {MaxInfoHashes, MaxPeers, MaxImmutable, MaxMutable} \subseteq Nat \ {0}
  /\ Seqs \subseteq Nat

VARIABLES
  peers,        \* info_hashes: LRU of LRUs, id -> "implied" or "explicit" port
  immutable,    \* immutable_values
  mutable,      \* mutable_values: target -> [seq, sig]
  reply,        \* the answer to the last request
  touched,      \* history: keys used since the last use of a mutable target
  best,         \* history: highest seq acknowledged for a target since it came in
  casAcks       \* history: acknowledged puts that advance their cas since it came in

storeVars == <<peers, immutable, mutable, touched, best, casAcks>>
vars == <<tokenVars, storeVars, reply>>

Items == [seq : Seqs, sig : Sigs]
CasValues == {{}} \cup {{s} : s \in Seqs}

\* A reply: its kind, its error code (0: none) and, for a bad token, the token
\* if it was one of the requester's own.
Reply(kind, code) == [kind |-> kind, code |-> code, refused |-> {}]
Ack == Reply("Ping", 0)
Error(code) == Reply("Error", code)
BadToken(ip, tok) ==
  [kind |-> "Error", code |-> 203, refused |-> {u \in {tok} : u.ip = ip}]

\* A token nobody was given.
MadeUp == [ip |-> "nobody", secret |-> 0, at |-> 0]

Init ==
  /\ TokensInit
  /\ peers = <<>> /\ immutable = <<>> /\ mutable = <<>>
  /\ reply = Reply("None", 0)
  /\ touched = [t \in Mutables |-> {}]
  /\ best = [t \in Mutables |-> {}]
  /\ casAcks = [t \in Mutables |-> {}]

-----------------------------------------------------------------------------

\* mutant: the secret is never rotated
BeginWithoutRotation == UNCHANGED <<prevSecret, currSecret, lastUpdated, now>>

\* "Lazily rotate secrets before handling a request", once the filter let it in.
Begin == RotateIfDue /\ UNCHANGED now

\* ServerSettings::filter refuses the request: no reply, and no rotation.
Filtered ==
  /\ reply' = Reply("None", 0)
  /\ UNCHANGED <<tokenVars, storeVars>>

\* ping and find_node
HandlePlain ==
  /\ Begin
  /\ reply' = Ack
  /\ UNCHANGED <<issued, storeVars>>

\* get_peers: the answer carries a token whether or not there are peers.
HandleGetPeers(ip, h) ==
  /\ Begin /\ GenerateToken(ip)
  /\ peers' = LruGet(peers, h)
  /\ reply' = Reply(IF h \in Keys(peers) THEN "Peers" ELSE "NoValues", 0)
  /\ UNCHANGED <<immutable, mutable, touched, best, casAcks>>

\* A use of mutable target t, for the history of who was used when.
Touch(t) ==
  touched' = [u \in Mutables |-> IF u = t THEN {} ELSE touched[u] \cup {t}]

\* handle_get_mutable
GetMutable(t, seq) ==
  /\ mutable' = LruGet(mutable, t)
  /\ IF t \in Keys(mutable)
     THEN /\ reply' = IF \E s \in seq : At(mutable, t).seq <= s
                      THEN Reply("NoMoreRecent", 0) ELSE Reply("Mutable", 0)
          /\ Touch(t)
     ELSE reply' = Reply("NoValues", 0) /\ UNCHANGED touched

\* get: an immutable value first, unless a seq is given.
HandleGetValue(ip, t, seq) ==
  /\ Begin /\ GenerateToken(ip)
  /\ \/ /\ seq = {} /\ t \in Keys(immutable)
        /\ immutable' = LruGet(immutable, t)
        /\ reply' = Reply("Immutable", 0)
        /\ UNCHANGED <<mutable, touched>>
     \/ /\ seq # {} \/ t \notin Keys(immutable)
        /\ GetMutable(t, seq)
        /\ UNCHANGED immutable
  /\ UNCHANGED <<peers, best, casAcks>>

Refuse(error) == reply' = error /\ UNCHANGED storeVars

\* PeersStore::add_peer
AddPeer(h, id, port) ==
  LET of == IF h \in Keys(peers) THEN At(peers, h) ELSE <<>>
  IN  LruPut(peers, h, LruPut(of, id, port, MaxPeers), MaxInfoHashes)

\* announce_peer
HandleAnnouncePeer(ip, tok, h, id, port) ==
  /\ Begin /\ UNCHANGED issued
  /\ \/ ~ Validate(ip, tok) /\ Refuse(BadToken(ip, tok))
     \/ /\ Validate(ip, tok)
        /\ peers' = AddPeer(h, id, port)
        /\ reply' = Ack
        /\ UNCHANGED <<immutable, mutable, touched, best, casAcks>>

\* put of an immutable value: the checks in the order of the code.
HandlePutImmutable(ip, tok, t, flaws) ==
  /\ Begin /\ UNCHANGED issued
  /\ \/ ~ Validate(ip, tok) /\ Refuse(BadToken(ip, tok))
     \/ Validate(ip, tok) /\ "big" \in flaws /\ Refuse(Error(205))
     \/ Validate(ip, tok) /\ "big" \notin flaws /\ "hash" \in flaws /\ Refuse(Error(203))
     \/ /\ Validate(ip, tok) /\ flaws \cap {"big", "hash"} = {}
        /\ immutable' = LruPut(immutable, t, "v", MaxImmutable)
        /\ reply' = Ack
        /\ UNCHANGED <<peers, mutable, touched, best, casAcks>>

-----------------------------------------------------------------------------
(* put of a mutable item *)

CasMismatch(t, cas) == \E c \in cas : At(mutable, t).seq # c

\* mutant: only a put without a cas has its seq compared
ConflictSkippingSeq(t, seq, cas) ==
  IF t \notin Keys(mutable) THEN 0
  ELSE IF cas # {} THEN (IF CasMismatch(t, cas) THEN 301 ELSE 0)
  ELSE IF seq < At(mutable, t).seq THEN 302 ELSE 0

\* mutant: the cas is not compared
ConflictSkippingCas(t, seq, cas) ==
  IF t \in Keys(mutable) /\ seq < At(mutable, t).seq THEN 302 ELSE 0

\* The error code of a put that conflicts with the stored item, 0 if none.
Conflict(t, seq, cas) ==
  IF t \notin Keys(mutable) THEN 0
  ELSE IF CasMismatch(t, cas) THEN 301
  ELSE IF seq < At(mutable, t).seq THEN 302 ELSE 0

\* The stored item is read for the comparison, which counts as a use, also
\* when the put is refused afterwards.
UseAndRefuse(t, code) ==
  /\ reply' = Error(code)
  /\ mutable' = LruGet(mutable, t)
  /\ IF t \in Keys(mutable) THEN Touch(t) ELSE UNCHANGED touched
  /\ UNCHANGED <<peers, immutable, best, casAcks>>

\* History of what the server promised since it took the target in.
Remember(t, item, cas) ==
  /\ best' = [best EXCEPT ![t] =
       IF t \in Keys(mutable) /\ (\E b \in @ : b > item.seq) THEN @ ELSE {item.seq}]
  /\ casAcks' = [casAcks EXCEPT ![t] =
       IF t \notin Keys(mutable) THEN {}
       ELSE @ \cup {<<c, item>> : c \in {d \in cas : d < item.seq}}]

StoreMutable(t, item, cas) ==
  /\ mutable' = LruPut(LruGet(mutable, t), t, item, MaxMutable)
  /\ reply' = Ack
  /\ Touch(t)
  /\ Remember(t, item, cas)
  /\ UNCHANGED <<peers, immutable>>

HandlePutMutable(ip, tok, t, item, cas, flaws) ==
  LET conflict == Conflict(t, item.seq, cas)
  IN  /\ Begin /\ UNCHANGED issued
      /\ \/ ~ Validate(ip, tok) /\ Refuse(BadToken(ip, tok))
         \/ Validate(ip, tok) /\ "big" \in flaws /\ Refuse(Error(205))
         \/ Validate(ip, tok) /\ "big" \notin flaws /\ "salt" \in flaws /\ Refuse(Error(207))
         \/ /\ Validate(ip, tok) /\ flaws \cap {"big", "salt"} = {}
            /\ \/ conflict # 0 /\ UseAndRefuse(t, conflict)
               \/ conflict = 0 /\ "sig" \in flaws /\ UseAndRefuse(t, 206)
               \/ conflict = 0 /\ "sig" \notin flaws /\ StoreMutable(t, item, cas)

Tick == Advance /\ UNCHANGED <<storeVars, reply>>

Presented == issued \cup {MadeUp}

Next ==
  \/ Filtered
  \/ HandlePlain
  \/ \E ip \in Ips :
       \/ \E h \in InfoHashes : HandleGetPeers(ip, h)
       \/ \E t \in Immutables : HandleGetValue(ip, t, {})
       \/ \E t \in Mutables, seq \in CasValues : HandleGetValue(ip, t, seq)
       \/ \E tok \in Presented :
            \/ \E h \in InfoHashes, id \in PeerIds, port \in {"implied", "explicit"} :
                 HandleAnnouncePeer(ip, tok, h, id, port)
            \/ \E t \in Immutables, flaws \in SUBSET {"big", "hash"} :
                 HandlePutImmutable(ip, tok, t, flaws)
            \/ \E t \in Mutables, item \in Items, cas \in CasValues,
                  flaws \in SUBSET {"big", "salt", "sig"} :
                 HandlePutMutable(ip, tok, t, item, cas, flaws)
  \/ Tick

Spec == Init /\ [][Next]_vars

-----------------------------------------------------------------------------

\* An item the server acknowledged can be read back, with that seq or a higher
\* one, until MaxMutable other targets have been used after it: neither a
\* refused put, nor a put of an older seq, nor a read disturbs it.
AcknowledgedItemKept ==
  \A t \in Mutables : best[t] # {} /\ Cardinality(touched[t]) < MaxMutable =>
    /\ t \in Keys(mutable)
    /\ \A b \in best[t] : At(mutable, t).seq >= b

\* Of the puts that name the same seq as cas and advance it, a server
\* acknowledges at most one while it keeps the item (no lost update).
CasUpdatesExclusive ==
  \A t \in Mutables : \A a, b \in casAcks[t] : a[1] = b[1] => a = b

\* A put is refused for its token only if the token is not the requester's or
\* was handed out more than RotateInterval ago.
FreshTokenNotRefused ==
  \A tok \in reply.refused \cap issued : now - tok.at > RotateInterval

\* Each use of the tokens by handle_request is a step of the Tokens component,
\* so FreshTokenAccepted holds of the server.
ImplementsTokens == TokensSpec

=============================================================================
