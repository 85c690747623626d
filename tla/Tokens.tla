------------------------------- MODULE Tokens -------------------------------
(***************************************************************************)
(* The write tokens of a node in server mode                               *)
(* (src/src/rpc/server/tokens.rs), and the lazy rotation of their secret   *)
(* at the start of Server::handle_request (src/src/rpc/server.rs).         *)
(*                                                                         *)
(* A secret is random and never drawn twice: it is the number of rotations *)
(* so far.  A token is determined by the requester's IP and the secret, as *)
(* internal_generate_token computes it (collisions of the 32-bit checksum  *)
(* are left out); the model also notes when it was handed out.             *)
(***************************************************************************)
EXTENDS Naturals

CONSTANTS
  Ips,             \* requesters
  RotateInterval,  \* TOKEN_ROTATE_INTERVAL: five minutes, in steps of the clock
  MaxTime          \* bound: where the clock stops

ASSUME TokensAssumption == RotateInterval \in Nat \ {0} /\ MaxTime \in Nat

VARIABLES
  now,          \* the clock
  prevSecret,   \* prev_secret
  currSecret,   \* curr_secret
  lastUpdated,  \* last_updated
  issued        \* history: the tokens handed out, and when

tokenVars == <<now, prevSecret, currSecret, lastUpdated, issued>>

Tokens == [ip : Ips, secret : Nat, at : Nat]

\* Tokens::new draws two secrets.
TokensInit ==
  /\ now = 0 /\ lastUpdated = 0
  /\ prevSecret = 0 /\ currSecret = 1
  /\ issued = {}

\* Tokens::should_update
ShouldUpdate == now - lastUpdated > RotateInterval

\* mutant: the current secret is not kept as the previous one
RotateIfDueForgetting ==
  IF ShouldUpdate
  THEN /\ prevSecret' = currSecret + 1
       /\ currSecret' = currSecret + 2
       /\ lastUpdated' = now
  ELSE UNCHANGED <<prevSecret, currSecret, lastUpdated>>

\* Tokens::rotate, called by handle_request when the secret is too old.
RotateIfDue ==
  IF ShouldUpdate
  THEN /\ prevSecret' = currSecret
       /\ currSecret' = currSecret + 1
       /\ lastUpdated' = now
  ELSE UNCHANGED <<prevSecret, currSecret, lastUpdated>>

\* Tokens::generate_token, after the rotation.
GenerateToken(ip) ==
  issued' = issued \cup {[ip |-> ip, secret |-> currSecret', at |-> now]}

\* mutant: tokens of the previous secret are refused
ValidateCurrentOnly(ip, tok) == tok.ip = ip /\ tok.secret = currSecret'

\* Tokens::validate, after the rotation.
Validate(ip, tok) == tok.ip = ip /\ tok.secret \in {prevSecret', currSecret'}

\* A request that is answered with a token (get_peers, get).
HandOut(ip) == RotateIfDue /\ GenerateToken(ip) /\ UNCHANGED now

\* Any other request the filter lets through.
NoToken == RotateIfDue /\ UNCHANGED <<now, issued>>

Advance ==
  /\ now < MaxTime
  /\ now' = now + 1
  /\ UNCHANGED <<prevSecret, currSecret, lastUpdated, issued>>

TokensNext == (\E ip \in Ips : HandOut(ip)) \/ NoToken \/ Advance

TokensSpec == TokensInit /\ [][TokensNext]_tokenVars

-----------------------------------------------------------------------------

\* Secrets and times are numbers, and every token names the IP it was made for.
TokensTypeOK ==
  /\ now \in Nat /\ lastUpdated \in Nat
  /\ prevSecret \in Nat /\ currSecret \in Nat
  /\ issued \subseteq Tokens

\* Would handle_request, called now, accept the token?  It rotates first.
WouldAccept(tok) ==
  tok.secret \in IF ShouldUpdate THEN {currSecret} ELSE {prevSecret, currSecret}

\* A token is good for at least RotateInterval from the moment it was handed
\* out, whenever the secret is rotated in between: a put that uses the nodes of
\* a lookup at most that old (Node::valid_token) is not refused for its token.
FreshTokenAccepted ==
  \A tok \in issued : now - tok.at <= RotateInterval => WouldAccept(tok)

=============================================================================
