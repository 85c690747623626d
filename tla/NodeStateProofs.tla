-------------------------- MODULE NodeStateProofs --------------------------
(***************************************************************************)
(* What a node may say about its own reachability, for any addresses, ids  *)
(* and checksum: it is reachable only at an address it was pinged from     *)
(* since it learnt it, its id is then valid for that address, and it does  *)
(* not serve before.                                                       *)
(*                                                                         *)
(* ConfirmedIdIsSecure rests on a fact about ids: Id::from_ipv4 yields an  *)
(* id that Id::is_valid_for_ip accepts.  It is arithmetic on bits, and     *)
(* comes first.                                                            *)
(*                                                                         *)
(* Then the statistics.  Total is recursive over sets and chooses which    *)
(* entry comes first: IsSum is what it computes whatever it chooses, shown *)
(* by least counterexample (LeastNat).  StatisticsMatchCache needs to know *)
(* that a target is cached once, or replacing it would leave an entry in   *)
(* the sums: CacheInv adds that, and the cache's capacity.                 *)
(***************************************************************************)
EXTENDS NodeState, Integers, FiniteSetTheorems, SequenceTheorems, NaturalsInduction,
        WellFoundedInduction, TLAPS

\* Replacing the low bits of a number by others leaves its high bits alone.
LEMMA LowBitsReplaced ==
  ASSUME NEW m \in Nat \ {0}, NEW x \in Nat, NEW y \in Nat
  PROVE  ((x - (x % m)) + (y % m)) % m = y % m
  <1>1. PICK q \in Nat : x = m * q + (x % m)
    <2>1. x = m * (x \div m) + (x % m) /\ x \div m \in Nat
      OBVIOUS
    <2>2. QED
      BY <2>1
  <1>2. y % m \in 0..(m - 1)
    OBVIOUS
  <1>3. ASSUME NEW r \in 0..(m - 1) PROVE (m * q + r) % m = r
    OBVIOUS
  <1>4. (x - (x % m)) + (y % m) = m * q + (y % m)
    BY <1>1
  <1>5. QED
    BY <1>2, <1>3, <1>4

\* id_prefix_ipv4 returns bytes.
LEMMA PrefixType ==
  ASSUME NEW ip \in Ips, NEW r \in Byte
  PROVE  id_prefix_ipv4(ip, r) \in [1..3 -> Byte]
  <1>1. LowBits(r) \in 0..(2^RandomBits - 1)
    BY NodeIdsAssumption DEF LowBits, Byte
  <1>2. ip.masked \in MaskedIps
    BY DEF Ips
  <1>3. <<ip.masked, LowBits(r)>> \in MaskedIps \X (0..(2^RandomBits - 1))
    BY <1>1, <1>2
  <1>4. QED
    BY <1>3, NodeIdsAssumption DEF id_prefix_ipv4

\* BEP 42 round trip: an id drawn for an IP is valid for it, whatever the
\* random bytes and whatever the checksum.
THEOREM FreshIdIsValid ==
  ASSUME NEW bytes \in Ids, NEW ip \in Ips, NEW r \in Byte
  PROVE  is_valid_for_ip(from_ipv4_and_r(bytes, ip, r), ip)
  <1> DEFINE prefix == id_prefix_ipv4(ip, r)
             id1 == from_ipv4_and_r(bytes, ip, r)
             third == HighBits(prefix[3]) + LowBits(bytes[3])
  <1>1. prefix \in [1..3 -> Byte]
    BY PrefixType
  <1>2. IdBytes \in Nat /\ IdBytes > 3
    BY NodeIdsAssumption
  <1>3. id1[1] = prefix[1] /\ id1[2] = prefix[2] /\ id1[3] = third /\ id1[IdBytes] = r
    BY <1>2 DEF from_ipv4_and_r, Ids
  <1>4. HighBits(third) = HighBits(prefix[3])
    <2>1. prefix[3] \in Nat /\ bytes[3] \in Nat /\ 2^RandomBits \in Nat \ {0}
      BY <1>1, <1>2, NodeIdsAssumption DEF Ids, Byte
    <2>2. third % 2^RandomBits = LowBits(bytes[3])
      BY <2>1, LowBitsReplaced DEF HighBits, LowBits
    <2>3. LowBits(bytes[3]) \in Nat /\ LowBits(prefix[3]) \in Nat
      BY <2>1 DEF LowBits
    <2>4. HighBits(prefix[3]) \in Int
      BY <2>1, <2>3 DEF HighBits
    <2>5. QED
      BY <2>2, <2>3, <2>4 DEF HighBits, LowBits
  <1>5. first_21_bits(id1) = first_21_bits(prefix)
    BY <1>3, <1>4 DEF first_21_bits
  <1>6. QED
    BY <1>3, <1>5 DEF is_valid_for_ip

-----------------------------------------------------------------------------

\* ReachableWasConfirmed and ConfirmedIdIsSecure are inductive together with the
\* types of what they speak about.
AddressInv ==
  /\ firewalled \in BOOLEAN /\ server_mode \in BOOLEAN
  /\ public_address \subseteq Addresses
  /\ ReachableWasConfirmed
  /\ ConfirmedIdIsSecure

\* A node starts firewalled, with no address.
LEMMA AddressInit == Init => AddressInv
  BY DEF Init, AddressInv, ReachableWasConfirmed, ConfirmedIdIsSecure

\* The end of a lookup: a vote for another address starts from firewalled.
LEMMA FinishKeeps ==
  ASSUME AddressInv, NEW q \in lookups, FinishLookup(q) PROVE AddressInv'
  <1>1. id' = id /\ server_mode' = server_mode
    BY DEF FinishLookup
  <1>2. CASE UNCHANGED addressVars
    BY <1>1, <1>2 DEF addressVars, AddressInv, ReachableWasConfirmed, ConfirmedIdIsSecure
  <1>3. ASSUME NEW best \in Addresses, UpdateAddress(best) PROVE AddressInv'
    BY <1>1, <1>3 DEF UpdateAddress, AddressInv, ReachableWasConfirmed, ConfirmedIdIsSecure
  <1>4. QED
    BY <1>2, <1>3 DEF FinishLookup, UpdateAddressVotes, BestAddresses

\* A ping from the public address confirms it, and the id becomes valid for it.
LEMMA PingKeeps ==
  ASSUME AddressInv, NEW from \in Addresses, ReceivePing(from) PROVE AddressInv'
  <1>1. public_address' = public_address /\ server_mode' = server_mode /\ pinged' = pinged
    BY DEF ReceivePing
  <1>2. reached' = reached \cup ({from} \cap public_address)
    BY DEF ReceivePing
  <1>3. CASE public_address = {from}
    <2>1. firewalled' = FALSE /\ SecureId(from.ip)
      BY <1>3 DEF ReceivePing, IsOurAddress
    <2>2. from.ip \in Ips
      <3>1. Addresses \subseteq [ip : Ips, port : Nat]
        BY NodeStateAssumption
      <3>2. QED
        BY <3>1
    <2>3. is_valid_for_ip(id', from.ip)
      <3>1. CASE is_valid_for_ip(id, from.ip)
        BY <2>1, <3>1 DEF SecureId
      <3>2. CASE ~ is_valid_for_ip(id, from.ip)
        <4>1. PICK x \in RandomIds \X RandomBytes : id' = from_ipv4_and_r(x[1], from.ip, x[2])
          BY <2>1, <3>2 DEF SecureId, FreshIds
        <4>2. x[1] \in Ids /\ x[2] \in Byte
          BY NodeStateAssumption
        <4>3. QED
          BY <2>2, <4>1, <4>2, FreshIdIsValid
      <3>3. QED
        BY <3>1, <3>2
    <2>4. ReachableWasConfirmed'
      BY <1>1, <1>2, <1>3, <2>1 DEF ReachableWasConfirmed
    <2>5. ConfirmedIdIsSecure'
      BY <1>1, <1>3, <2>3 DEF ConfirmedIdIsSecure
    <2>6. QED
      BY <1>1, <2>1, <2>4, <2>5 DEF AddressInv
  <1>4. CASE public_address # {from}
    <2>1. firewalled' = firewalled /\ id' = id
      BY <1>4 DEF ReceivePing, IsOurAddress
    <2>2. QED
      BY <1>1, <1>2, <2>1 DEF AddressInv, ReachableWasConfirmed, ConfirmedIdIsSecure
  <1>5. QED
    BY <1>3, <1>4

\* Calls and upkeep leave the address and the id alone.
LEMMA OthersKeep ==
  ASSUME AddressInv,
         \/ \E t \in Targets : CallPut(t) \/ \E find \in BOOLEAN : CallGet(t, find)
         \/ Maintain
         \/ UNCHANGED vars
  PROVE  AddressInv'
  <1>1. id' = id /\ UNCHANGED addressVars
    BY DEF CallPut, CallGet, Maintain, vars
  <1>2. server_mode' \in BOOLEAN
    BY DEF CallPut, CallGet, Maintain, SwitchedToServer, vars, AddressInv
  <1>3. QED
    BY <1>1, <1>2 DEF addressVars, AddressInv, ReachableWasConfirmed, ConfirmedIdIsSecure

\* Every step keeps the invariant.
LEMMA AddressStep == AddressInv /\ [Next]_vars => AddressInv'
  <1> SUFFICES ASSUME AddressInv, [Next]_vars PROVE AddressInv'
    OBVIOUS
  <1>1. QED
    BY FinishKeeps, PingKeeps, OthersKeep DEF Next

\* Only upkeep turns a node into a server, and only when it is reachable.
LEMMA ServesStep ==
  AddressInv /\ [Next]_vars =>
    [server_mode' /\ ~ server_mode => public_address # {} /\ public_address \subseteq reached]_vars
  <1> SUFFICES ASSUME AddressInv, Next, server_mode' # server_mode
               PROVE  public_address # {} /\ public_address \subseteq reached
    BY DEF vars
  <1>1. Maintain
    BY DEF Next, CallPut, CallGet, FinishLookup, ReceivePing
  <1>2. ~ firewalled
    BY <1>1 DEF Maintain, SwitchedToServer, AddressInv
  <1>3. QED
    BY <1>2 DEF AddressInv, ReachableWasConfirmed

\* The invariant of the address, the firewall check and the id.
THEOREM AddressCorrect == Spec => []AddressInv
  <1>1. QED
    BY AddressInit, AddressStep, PTL DEF Spec

\* A node that says it is reachable was pinged from its address since it learnt it.
THEOREM ReachabilityConfirmed == Spec => []ReachableWasConfirmed
  <1>1. AddressInv => ReachableWasConfirmed
    BY DEF AddressInv
  <1>2. QED
    BY <1>1, AddressCorrect, PTL

\* Once the address is confirmed the id is valid for it.
THEOREM ConfirmedIdSecure == Spec => []ConfirmedIdIsSecure
  <1>1. AddressInv => ConfirmedIdIsSecure
    BY DEF AddressInv
  <1>2. QED
    BY <1>1, AddressCorrect, PTL

\* In adaptive mode a node serves only once it was reachable.
THEOREM ServesOnceReachable == Spec => ServesOnlyOnceReachable
  <1>1. QED
    BY AddressCorrect, ServesStep, PTL DEF Spec, ServesOnlyOnceReachable

-----------------------------------------------------------------------------
(* Sums over the entries of the cache *)

\* A set of numbers has a least one: what induction over data rests on here.
LEMMA LeastNat ==
  ASSUME NEW T \in SUBSET Nat, T # {}
  PROVE  \E n \in T : \A m \in T : n <= m
  <1>1. IsWellFoundedOn(OpToRel(<, Nat), Nat)
    BY NatLessThanWellFounded
  <1>2. PICK n \in T : \A m \in T : ~ (<<m, n>> \in OpToRel(<, Nat))
    BY <1>1, WFMin
  <1>3. \A m \in T : ~ (m < n)
    BY <1>2 DEF OpToRel
  <1>4. QED
    BY <1>3

\* A set with one member less is smaller.
LEMMA OneLess ==
  ASSUME NEW S, IsFiniteSet(S), NEW x \in S
  PROVE  /\ IsFiniteSet(S \ {x}) /\ Cardinality(S) \in Nat /\ Cardinality(S \ {x}) \in Nat
         /\ Cardinality(S \ {x}) = Cardinality(S) - 1
  <1>1. IsFiniteSet(S \ {x}) /\ Cardinality(S \ {x}) = Cardinality(S) - 1
    BY FS_RemoveElement
  <1>2. QED
    BY <1>1, FS_CardinalityType

\* The sums of the weights w over the subsets of E: members may be taken out in
\* any order.
IsSum(g, E, w) ==
  /\ g \in [SUBSET E -> Nat] /\ g[{}] = 0
  /\ \A S \in SUBSET E : \A x \in S : g[S] = w[x] + g[S \ {x}]

\* One more member: the sums over the sets with it follow from those without.
LEMMA SumWithOneMore ==
  ASSUME NEW E, NEW x \in E, NEW w \in [E -> Nat], NEW g, IsSum(g, E \ {x}, w)
  PROVE  \E h : IsSum(h, E, w)
  <1> DEFINE h == [S \in SUBSET E |-> IF x \in S THEN w[x] + g[S \ {x}] ELSE g[S]]
  <1>1. /\ g \in [SUBSET (E \ {x}) -> Nat] /\ g[{}] = 0
        /\ \A S \in SUBSET (E \ {x}) : \A y \in S : g[S] = w[y] + g[S \ {y}]
    BY DEF IsSum
  <1>2. \A S \in SUBSET E : S \ {x} \in SUBSET (E \ {x})
    OBVIOUS
  <1>3. \A S \in SUBSET E : x \notin S => S \in SUBSET (E \ {x})
    OBVIOUS
  <1>4. \A S \in SUBSET E : h[S] \in Nat
    <2> TAKE S \in SUBSET E
    <2>1. g[S \ {x}] \in Nat /\ w[x] \in Nat
      BY <1>1, <1>2
    <2>2. x \notin S => g[S] \in Nat
      BY <1>1, <1>3
    <2>3. QED
      BY <2>1, <2>2
  <1>5. h \in [SUBSET E -> Nat]
    BY <1>4
  <1>6. h[{}] = 0
    BY <1>1
  <1>7. ASSUME NEW S \in SUBSET E, NEW y \in S PROVE h[S] = w[y] + h[S \ {y}]
    <2>0. S \ {y} \in SUBSET E
      OBVIOUS
    <2>1. CASE y = x
      <3>1. h[S] = w[x] + g[S \ {x}] /\ h[S \ {x}] = g[S \ {x}]
        BY <2>0, <2>1
      <3>2. QED
        BY <2>1, <3>1
    <2>2. CASE y # x /\ x \in S
      <3>1. h[S] = w[x] + g[S \ {x}]
        BY <2>2
      <3>2. h[S \ {y}] = w[x] + g[(S \ {y}) \ {x}]
        BY <2>0, <2>2
      <3>3. (S \ {y}) \ {x} = (S \ {x}) \ {y} /\ y \in S \ {x}
        BY <2>2
      <3>4. g[S \ {x}] = w[y] + g[(S \ {x}) \ {y}]
        BY <1>1, <1>2, <3>3
      <3>5. (S \ {x}) \ {y} \in SUBSET (E \ {x})
        OBVIOUS
      <3>6. g[(S \ {x}) \ {y}] \in Nat /\ w[x] \in Nat /\ w[y] \in Nat
        BY <1>1, <3>5
      <3> DEFINE a == g[(S \ {x}) \ {y}]
                 b == w[x]
                 c == w[y]
      <3>7. h[S] = b + (c + a) /\ h[S \ {y}] = b + a
        BY <3>1, <3>2, <3>3, <3>4
      <3> HIDE DEF a, b, c, h
      <3>8. a \in Nat /\ b \in Nat /\ c \in Nat
        BY <3>6 DEF a, b, c
      <3>9. h[S] = c + h[S \ {y}]
        BY <3>7, <3>8
      <3>10. QED
        BY <3>9 DEF c
    <2>3. CASE y # x /\ x \notin S
      <3>1. h[S] = g[S] /\ h[S \ {y}] = g[S \ {y}]
        BY <2>0, <2>3
      <3>2. QED
        BY <1>1, <1>3, <2>3, <3>1
    <2>4. QED
      BY <2>1, <2>2, <2>3
  <1> HIDE DEF h
  <1>8. IsSum(h, E, w)
    BY <1>5, <1>6, <1>7 DEF IsSum
  <1>9. QED
    BY <1>8

\* So there are sums over any finite set.
LEMMA SumExists ==
  ASSUME NEW E, IsFiniteSet(E), NEW w \in [E -> Nat]
  PROVE  \E g : IsSum(g, E, w)
  <1> DEFINE Bad == {n \in Nat : \E S \in SUBSET E :
                       Cardinality(S) = n /\ ~ \E g : IsSum(g, S, w)}
  <1> SUFFICES ASSUME ~ \E g : IsSum(g, E, w) PROVE FALSE
    OBVIOUS
  <1>1. Cardinality(E) \in Bad
    BY FS_CardinalityType
  <1>2. Bad \in SUBSET Nat /\ Bad # {}
    BY <1>1
  <1> HIDE DEF Bad
  <1>3. PICK n \in Bad : \A m \in Bad : n <= m
    BY <1>2, LeastNat
  <1>4. PICK S \in SUBSET E : Cardinality(S) = n /\ ~ \E g : IsSum(g, S, w)
    BY DEF Bad
  <1>5. IsFiniteSet(S)
    BY FS_Subset
  <1>6. CASE S = {}
    <2> DEFINE g == [T \in SUBSET S |-> 0]
    <2>1. IsSum(g, S, w)
      BY <1>6 DEF IsSum
    <2>2. QED
      BY <1>4, <2>1
  <1>7. CASE S # {}
    <2>1. PICK x \in S : TRUE
      BY <1>7
    <2>2. /\ Cardinality(S) \in Nat /\ Cardinality(S \ {x}) \in Nat
          /\ Cardinality(S \ {x}) = Cardinality(S) - 1
      BY <1>5, OneLess
    <2>3. ~ (Cardinality(S) <= Cardinality(S \ {x}))
      BY <2>2
    <2>4. Cardinality(S \ {x}) \notin Bad
      BY <1>3, <1>4, <2>3
    <2>5. PICK g : IsSum(g, S \ {x}, w)
      BY <2>2, <2>4 DEF Bad
    <2> DEFINE u == [y \in S |-> w[y]]
    <2>6. u \in [S -> Nat] /\ \A y \in S : u[y] = w[y]
      OBVIOUS
    <2> HIDE DEF u
    <2>7. IsSum(g, S \ {x}, u)
      <3>1. \A T \in SUBSET (S \ {x}) : \A y \in T : u[y] = w[y]
        BY <2>6
      <3>2. QED
        BY <2>5, <3>1 DEF IsSum
    <2>8. PICK h : IsSum(h, S, u)
      BY <2>6, <2>7, SumWithOneMore
    <2>9. IsSum(h, S, w)
      <3>1. \A T \in SUBSET S : \A y \in T : u[y] = w[y]
        BY <2>6
      <3>2. QED
        BY <2>8, <3>1 DEF IsSum
    <2>10. QED
      BY <1>4, <2>9
  <1>8. QED
    BY <1>6, <1>7

\* Entries whose field f is a number.
Weighed(E, f) == IsFiniteSet(E) /\ \A e \in E : e.val[f] \in Nat

\* Total computes the sum, whatever member it chooses first.
LEMMA TotalIsSum ==
  ASSUME NEW f, NEW E, Weighed(E, f), NEW g, IsSum(g, E, [e \in E |-> e.val[f]]),
         NEW T \in SUBSET E
  PROVE  Total(T, f) = g[T]
  <1> DEFINE Body(h) == [S \in SUBSET T |->
               IF S = {} THEN 0
               ELSE LET e == CHOOSE e \in S : TRUE IN e.val[f] + h[S \ {e}]]
             F == CHOOSE h : h = Body(h)
             r == [S \in SUBSET T |-> g[S]]
  <1>1. /\ g[{}] = 0
        /\ \A S \in SUBSET E : \A x \in S : g[S] = x.val[f] + g[S \ {x}]
    BY DEF IsSum
  <1>2. r = Body(r)
    <2>1. ASSUME NEW S \in SUBSET T PROVE r[S] = Body(r)[S]
      <3>1. CASE S = {}
        BY <1>1, <3>1
      <3>2. CASE S # {}
        <4> DEFINE e == CHOOSE e \in S : TRUE
        <4>1. e \in S
          BY <3>2
        <4>2. Body(r)[S] = e.val[f] + r[S \ {e}]
          BY <3>2
        <4> HIDE DEF e
        <4>3. S \ {e} \in SUBSET T /\ S \in SUBSET E
          OBVIOUS
        <4>4. r[S \ {e}] = g[S \ {e}] /\ r[S] = g[S]
          BY <4>3
        <4>5. g[S] = e.val[f] + g[S \ {e}]
          BY <1>1, <4>1, <4>3
        <4>6. QED
          BY <4>2, <4>4, <4>5
      <3>3. QED
        BY <3>1, <3>2
    <2>2. r = [S \in SUBSET T |-> r[S]] /\ Body(r) = [S \in SUBSET T |-> Body(r)[S]]
      OBVIOUS
    <2> HIDE DEF Body, r
    <2>3. QED
      BY <2>1, <2>2
  <1>3. F = Body(F)
    <2> HIDE DEF Body, r
    <2>1. QED
      BY <1>2
  <1>4. Total(T, f) = F[T]
    BY DEF Total
  <1> DEFINE Bad == {n \in Nat : \E S \in SUBSET T : Cardinality(S) = n /\ F[S] # g[S]}
  <1>5. IsFiniteSet(T)
    BY FS_Subset DEF Weighed
  <1>6. CASE F[T] = g[T]
    BY <1>4, <1>6
  <1>7. CASE F[T] # g[T]
    <2>1. Cardinality(T) \in Bad
      BY <1>5, <1>7, FS_CardinalityType
    <2>2. Bad \in SUBSET Nat /\ Bad # {}
      BY <2>1
    <2> HIDE DEF Bad, F
    <2>3. PICK n \in Bad : \A m \in Bad : n <= m
      BY <2>2, LeastNat
    <2>4. PICK S \in SUBSET T : Cardinality(S) = n /\ F[S] # g[S]
      BY DEF Bad
    <2>5. IsFiniteSet(S)
      BY <1>5, FS_Subset
    <2>6. F[S] = Body(F)[S]
      BY <1>3
    <2>7. CASE S = {}
      BY <1>1, <2>4, <2>6, <2>7
    <2>8. CASE S # {}
      <3> DEFINE e == CHOOSE e \in S : TRUE
      <3>1. e \in S
        BY <2>8
      <3>2. Body(F)[S] = e.val[f] + F[S \ {e}]
        BY <2>8
      <3> HIDE DEF e, Body
      <3>3. /\ Cardinality(S) \in Nat /\ Cardinality(S \ {e}) \in Nat
            /\ Cardinality(S \ {e}) = Cardinality(S) - 1
        BY <2>5, <3>1, OneLess
      <3>4. ~ (Cardinality(S) <= Cardinality(S \ {e}))
        BY <3>3
      <3>5. Cardinality(S \ {e}) \notin Bad
        BY <2>3, <2>4, <3>4
      <3>6. S \ {e} \in SUBSET T /\ S \in SUBSET E
        OBVIOUS
      <3>7. F[S \ {e}] = g[S \ {e}]
        BY <3>3, <3>5, <3>6 DEF Bad
      <3>8. g[S] = e.val[f] + g[S \ {e}]
        BY <1>1, <3>1, <3>6
      <3>9. QED
        BY <2>4, <2>6, <3>2, <3>7, <3>8
    <2>9. QED
      BY <2>7, <2>8
  <1>8. QED
    BY <1>6, <1>7

\* What Total adds up to: nothing, one entry, and a set from which an entry is
\* taken out.
LEMMA TotalIs ==
  ASSUME NEW f, NEW E, Weighed(E, f)
  PROVE  /\ Total({}, f) = 0 /\ Total(E, f) \in Nat
         /\ \A x \in E : /\ Total(E, f) = x.val[f] + Total(E \ {x}, f)
                         /\ Total({x}, f) = x.val[f]
                         /\ Total(E \ {x}, f) \in Nat
  <1> DEFINE w == [e \in E |-> e.val[f]]
  <1>1. w \in [E -> Nat] /\ IsFiniteSet(E)
    BY DEF Weighed
  <1>2. PICK g : IsSum(g, E, w)
    <2> HIDE DEF w
    <2>1. QED
      BY <1>1, SumExists
  <1>3. \A T \in SUBSET E : Total(T, f) = g[T]
    BY <1>2, TotalIsSum
  <1>4. /\ g \in [SUBSET E -> Nat] /\ g[{}] = 0
        /\ \A S \in SUBSET E : \A x \in S : g[S] = x.val[f] + g[S \ {x}]
    BY <1>2 DEF IsSum
  <1>5. Total({}, f) = 0 /\ Total(E, f) \in Nat
    BY <1>3, <1>4
  <1>6. ASSUME NEW x \in E
        PROVE  /\ Total(E, f) = x.val[f] + Total(E \ {x}, f)
               /\ Total({x}, f) = x.val[f]
               /\ Total(E \ {x}, f) \in Nat
    <2>1. E \in SUBSET E /\ E \ {x} \in SUBSET E /\ {x} \in SUBSET E /\ {x} \ {x} = {}
      OBVIOUS
    <2>2. g[E] = x.val[f] + g[E \ {x}] /\ g[{x}] = x.val[f] + g[{}]
      BY <1>4, <2>1
    <2>3. x.val[f] \in Nat
      BY DEF Weighed
    <2>4. QED
      BY <1>3, <1>4, <2>1, <2>2, <2>3
  <1>7. QED
    BY <1>5, <1>6

-----------------------------------------------------------------------------
(* The cache of lookups *)

\* Each target has one entry.
UniqueKeys(c) == \A i, j \in DOMAIN c : c[i].key = c[j].key => i = j

Content(c) == {c[i] : i \in DOMAIN c}

\* LruCache::pop_lru takes the last entry out.
LEMMA PopIs ==
  ASSUME NEW S, NEW c \in Seq(S), UniqueKeys(c), Len(c) > 0
  PROVE  LET p == SubSeq(c, 1, Len(c) - 1)
         IN  /\ p \in Seq(S) /\ UniqueKeys(p) /\ Len(p) = Len(c) - 1
             /\ Content(p) = Content(c) \ {c[Len(c)]} /\ c[Len(c)] \in Content(c)
  <1> DEFINE p == SubSeq(c, 1, Len(c) - 1)
  <1>0. Len(c) \in Nat /\ DOMAIN c = 1 .. Len(c)
    OBVIOUS
  <1>1. \A j \in 1 .. Len(c) - 1 : c[j] \in S
    BY <1>0
  <1>2. p \in Seq(S) /\ Len(p) = Len(c) - 1 /\ \A j \in 1 .. Len(c) - 1 : p[j] = c[j]
    BY <1>0, <1>1, SubSeqProperties
  <1> HIDE DEF p
  <1>3. PICK n \in Nat : n = Len(c) /\ n > 0 /\ DOMAIN c = 1 .. n
    BY <1>0
  <1>4. DOMAIN p = 1 .. n - 1 /\ \A j \in 1 .. n - 1 : p[j] = c[j] /\ j \in DOMAIN c /\ j # n
    BY <1>2, <1>3
  <1>5. \A j \in DOMAIN c : j = n \/ j \in DOMAIN p
    BY <1>3, <1>4
  <1>6. n \in DOMAIN c
    BY <1>3
  <1>7. UniqueKeys(p)
    BY <1>4 DEF UniqueKeys
  <1>8. \A j \in DOMAIN p : c[j] # c[n]
    BY <1>4, <1>6 DEF UniqueKeys
  <1>9. Content(p) = Content(c) \ {c[n]} /\ c[n] \in Content(c)
    BY <1>4, <1>5, <1>6, <1>8 DEF Content
  <1>10. QED
    BY <1>2, <1>3, <1>7, <1>9 DEF p

\* Drop takes the entry of its key out.
LEMMA DropIs ==
  ASSUME NEW S, NEW c \in Seq(S), UniqueKeys(c), NEW i \in DOMAIN c
  PROVE  LET d == Drop(c, c[i].key)
         IN  /\ d \in Seq(S) /\ UniqueKeys(d) /\ Len(d) = Len(c) - 1
             /\ Content(d) = Content(c) \ {c[i]}
             /\ c[i].key \notin Keys(d)
  <1> DEFINE d == Drop(c, c[i].key)
             a == SubSeq(c, 1, i - 1)
             b == SubSeq(c, i + 1, Len(c))
  <1>1. (CHOOSE j \in DOMAIN c : c[j].key = c[i].key) = i
    BY DEF UniqueKeys
  <1>2. i \in 1 .. Len(c) /\ Len(c) \in Nat /\ DOMAIN c = 1 .. Len(c)
    OBVIOUS
  <1>3. (\A j \in 1 .. i - 1 : c[j] \in S) /\ (\A j \in i + 1 .. Len(c) : c[j] \in S)
    BY <1>2
  <1>4. a \in Seq(S) /\ Len(a) = i - 1 /\ \A j \in 1 .. i - 1 : a[j] = c[j]
    BY <1>2, <1>3, SubSeqProperties
  <1>5. b \in Seq(S) /\ Len(b) = Len(c) - i /\ \A j \in 1 .. Len(c) - i : b[j] = c[i + j]
    BY <1>2, <1>3, SubSeqProperties
  <1>6. d = a \o b
    BY <1>1 DEF Drop
  <1> HIDE DEF a, b, d
  <1>8. PICK n \in Nat : n = Len(c) /\ DOMAIN c = 1 .. n /\ i \in 1 .. n
    BY <1>2
  <1>s. a \in Seq(S) /\ b \in Seq(S)
    BY <1>4, <1>5
  <1>c. /\ d \in Seq(S) /\ Len(d) = Len(a) + Len(b)
        /\ \A j \in 1 .. Len(a) + Len(b) : d[j] = IF j <= Len(a) THEN a[j] ELSE b[j - Len(a)]
    <2>1. /\ a \o b \in Seq(S) /\ Len(a \o b) = Len(a) + Len(b)
          /\ \A j \in 1 .. Len(a) + Len(b) :
               (a \o b)[j] = IF j <= Len(a) THEN a[j] ELSE b[j - Len(a)]
      BY <1>s, ConcatProperties, Zenon
    <2>2. QED
      BY <1>6, <2>1, Zenon
  <1>k. Len(a) = i - 1 /\ Len(b) = n - i
    BY <1>4, <1>5, <1>8, Zenon
  <1>l. Len(a) = i - 1 /\ Len(b) = n - i /\ Len(a) + Len(b) = n - 1
    <2>1. (i - 1) + (n - i) = n - 1
      BY <1>8
    <2>2. QED
      BY <1>k, <2>1, Zenon
  <1>7. /\ d \in Seq(S) /\ Len(d) = n - 1
        /\ \A j \in 1 .. n - 1 : d[j] = IF j <= i - 1 THEN a[j] ELSE b[j - (i - 1)]
    BY <1>c, <1>l
  <1> DEFINE at(j) == IF j < i THEN j ELSE j + 1
  <1>9. ASSUME NEW j \in 1 .. n - 1 PROVE d[j] = c[at(j)] /\ at(j) \in 1 .. n /\ at(j) # i
    <2>1. at(j) \in 1 .. n /\ at(j) # i
      BY <1>8
    <2>2. CASE j < i
      <3>1. j \in 1 .. i - 1 /\ j <= i - 1 /\ at(j) = j
        BY <1>8, <2>2
      <3>2. QED
        BY <1>4, <1>7, <2>1, <3>1
    <2>3. CASE ~ (j < i)
      <3>1. j - (i - 1) \in 1 .. n - i /\ ~ (j <= i - 1) /\ at(j) = j + 1
            /\ i + (j - (i - 1)) = j + 1
        BY <1>8, <2>3
      <3>2. d[j] = b[j - (i - 1)]
        BY <1>7, <3>1
      <3>3. b[j - (i - 1)] = c[i + (j - (i - 1))]
        BY <1>5, <1>8, <3>1
      <3>4. QED
        BY <2>1, <3>1, <3>2, <3>3
    <2>4. QED
      BY <2>2, <2>3
  <1>10. DOMAIN d = 1 .. n - 1
    BY <1>7, <1>8
  <1>11. \A j, l \in 1 .. n - 1 : at(j) = at(l) => j = l
    BY <1>8
  <1>12. ASSUME NEW j \in 1 .. n, j # i PROVE \E l \in 1 .. n - 1 : at(l) = j
    <2>1. CASE j < i
      <3>1. j \in 1 .. n - 1 /\ at(j) = j
        BY <1>8, <2>1
      <3>2. QED
        BY <3>1
    <2>2. CASE ~ (j < i)
      <3>1. j - 1 \in 1 .. n - 1 /\ at(j - 1) = j
        BY <1>8, <1>12, <2>2
      <3>2. QED
        BY <3>1
    <2>3. QED
      BY <2>1, <2>2
  <1> HIDE DEF at
  <1>13. UniqueKeys(d)
    BY <1>8, <1>9, <1>10, <1>11 DEF UniqueKeys
  <1>14. \A j \in DOMAIN d : d[j].key # c[i].key
    BY <1>8, <1>9, <1>10 DEF UniqueKeys
  <1>15. Content(d) \subseteq Content(c) \ {c[i]}
    BY <1>8, <1>9, <1>10, <1>14 DEF Content
  <1>16. Content(c) \ {c[i]} \subseteq Content(d)
    <2> SUFFICES ASSUME NEW j \in DOMAIN c, c[j] # c[i] PROVE c[j] \in Content(d)
      BY DEF Content
    <2>1. j \in 1 .. n /\ j # i
      BY <1>8
    <2>2. PICK l \in 1 .. n - 1 : at(l) = j
      BY <1>12, <2>1
    <2>3. QED
      BY <1>9, <1>10, <2>2 DEF Content
  <1>17. QED
    BY <1>7, <1>8, <1>13, <1>14, <1>15, <1>16 DEF d, Keys

\* A new entry goes in front.
LEMMA PushIs ==
  ASSUME NEW S, NEW d \in Seq(S), UniqueKeys(d), NEW e \in S, e.key \notin Keys(d)
  PROVE  /\ <<e>> \o d \in Seq(S) /\ UniqueKeys(<<e>> \o d) /\ Len(<<e>> \o d) = Len(d) + 1
         /\ Content(<<e>> \o d) = Content(d) \cup {e}
  <1>0. Len(d) \in Nat /\ DOMAIN d = 1 .. Len(d)
    OBVIOUS
  <1>1. PICK n \in Nat : n = Len(d) /\ DOMAIN d = 1 .. n
    BY <1>0
  <1>2. <<e>> \in Seq(S) /\ Len(<<e>>) = 1 /\ <<e>>[1] = e
    OBVIOUS
  <1> DEFINE p == <<e>> \o d
  <1>3. /\ p \in Seq(S) /\ Len(p) = n + 1
        /\ \A j \in 1 .. n + 1 : p[j] = IF j <= 1 THEN e ELSE d[j - 1]
    BY <1>1, <1>2, ConcatProperties
  <1> HIDE DEF p
  <1>4. DOMAIN p = 1 .. n + 1
    BY <1>3
  <1>5. \A j \in 1 .. n + 1 : j = 1 \/ j - 1 \in 1 .. n
    OBVIOUS
  <1>6. \A j \in 1 .. n + 1 : (j = 1 /\ p[j] = e) \/ (j - 1 \in DOMAIN d /\ p[j] = d[j - 1])
    BY <1>1, <1>3, <1>5
  <1>7. \A j \in DOMAIN d : j + 1 \in DOMAIN p /\ p[j + 1] = d[j]
    BY <1>1, <1>3, <1>4
  <1>8. \A j \in DOMAIN d : d[j].key # e.key
    BY DEF Keys
  <1>9. UniqueKeys(p)
    <2> SUFFICES ASSUME NEW j \in 1 .. n + 1, NEW l \in 1 .. n + 1, p[j].key = p[l].key
                 PROVE  j = l
      BY <1>4 DEF UniqueKeys
    <2>1. CASE j - 1 \in DOMAIN d /\ l - 1 \in DOMAIN d /\ p[j] = d[j - 1] /\ p[l] = d[l - 1]
      <3>1. j - 1 = l - 1
        BY <2>1 DEF UniqueKeys
      <3>2. QED
        BY <3>1
    <2>2. QED
      BY <1>6, <1>8, <2>1
  <1>10. 1 \in DOMAIN p /\ p[1] = e
    BY <1>3, <1>4
  <1>11. Content(p) = Content(d) \cup {e}
    BY <1>4, <1>6, <1>7, <1>10 DEF Content
  <1>12. QED
    BY <1>1, <1>3, <1>9, <1>11 DEF p

\* Reading the cache changes the order of its entries only.
LEMMA LruGetIs ==
  ASSUME NEW S, NEW c \in Seq(S), UniqueKeys(c), NEW k,
         \A e \in S : e = [key |-> e.key, val |-> e.val]
  PROVE  LET g == LruGet(c, k)
         IN  /\ g \in Seq(S) /\ UniqueKeys(g) /\ Len(g) = Len(c)
             /\ Content(g) = Content(c)
  <1>1. CASE k \notin Keys(c)
    BY <1>1 DEF LruGet
  <1>2. CASE k \in Keys(c)
    <2>1. PICK i \in DOMAIN c : c[i].key = k
      BY <1>2 DEF Keys
    <2>2. \A e \in Content(c) : e.key = k => e = c[i]
      BY <2>1 DEF UniqueKeys, Content
    <2>a. c[i] \in Content(c)
      BY DEF Content
    <2>b. c[i] \in S
      OBVIOUS
    <2>3. c[i] \in Content(c) /\ c[i] \in S
      BY <2>a, <2>b
    <2>4. (CHOOSE e \in Content(c) : e.key = k) = c[i]
      BY <2>1, <2>2, <2>3
    <2>5. [key |-> k, val |-> At(c, k)] = c[i]
      BY <2>1, <2>3, <2>4 DEF At, Content
    <2> DEFINE d == Drop(c, k)
    <2>6. /\ d \in Seq(S) /\ UniqueKeys(d) /\ Len(d) = Len(c) - 1
          /\ Content(d) = Content(c) \ {c[i]} /\ k \notin Keys(d)
      BY <2>1, DropIs
    <2>7. LruGet(c, k) = <<c[i]>> \o d
      BY <1>2, <2>5 DEF LruGet
    <2> HIDE DEF d
    <2>8. /\ <<c[i]>> \o d \in Seq(S) /\ UniqueKeys(<<c[i]>> \o d)
          /\ Len(<<c[i]>> \o d) = Len(d) + 1 /\ Content(<<c[i]>> \o d) = Content(d) \cup {c[i]}
      BY <2>1, <2>3, <2>6, PushIs
    <2>9. Content(c) = (Content(c) \ {c[i]}) \cup {c[i]}
      BY <2>3
    <2>10. Len(c) \in Nat
      OBVIOUS
    <2>11. Content(<<c[i]>> \o d) = Content(c)
      BY <2>6, <2>8, <2>9
    <2>d. Len(d) = Len(c) - 1 /\ Len(<<c[i]>> \o d) = Len(d) + 1
      BY <2>6, <2>8
    <2>e. Len(<<c[i]>> \o d) = Len(c)
      BY <2>10, <2>d
    <2>12. QED
      BY <2>7, <2>8, <2>11, <2>e, Zenon
  <1>3. QED
    BY <1>1, <1>2

\* The entries of a cache, one for each position.
LEMMA ContentCounted ==
  ASSUME NEW S, NEW c \in Seq(S) PROVE IsFiniteSet(Content(c))
  <1>1. DOMAIN c = 1 .. Len(c) /\ Len(c) \in Nat
    OBVIOUS
  <1>2. IsFiniteSet(1 .. Len(c))
    BY <1>1, FS_Interval
  <1> DEFINE f == [i \in DOMAIN c |-> c[i]]
  <1>3. f \in Surjection(DOMAIN c, Content(c))
    BY DEF Surjection, Content
  <1> HIDE DEF f
  <1>4. QED
    BY <1>1, <1>2, <1>3, FS_Surjection

-----------------------------------------------------------------------------
(* The statistics *)

\* Ids that lookups may be about.
KnownIds == Targets \cup RandomIds \cup UNION {FreshIds(a.ip) : a \in Addresses}

CacheEntries ==
  [key : KnownIds,
   val : [find : BOOLEAN, size : Nat, responders : Nat, subnets : Nat]]

CacheInv ==
  /\ id \in KnownIds
  /\ lookups \subseteq [target : KnownIds, find : BOOLEAN]
  /\ cached \in Seq(CacheEntries) /\ UniqueKeys(cached) /\ Len(cached) <= CacheCap
  /\ retired \in Nat
  /\ StatisticsMatchCache

\* Entries have their fields.
LEMMA EntryFields ==
  ASSUME NEW S \in SUBSET CacheEntries, IsFiniteSet(S)
  PROVE  /\ \A e \in S : e = [key |-> e.key, val |-> e.val] /\ e.val.find \in BOOLEAN
         /\ \A f \in {"size", "responders", "subnets"} : Weighed(S, f)
  <1>1. \A e \in S : e = [key |-> e.key, val |-> e.val] /\ e.val.find \in BOOLEAN
    BY DEF CacheEntries
  <1>2. \A e \in S : e.val["size"] \in Nat /\ e.val["responders"] \in Nat /\ e.val["subnets"] \in Nat
    BY DEF CacheEntries
  <1>3. QED
    BY <1>1, <1>2 DEF Weighed

\* The entry that the end of a lookup makes.
EntryOf(q, r) ==
  [key |-> q.target,
   val |-> [find |-> q.find, size |-> r.size, responders |-> r.responders,
            subnets |-> r.subnets]]

LEMMA NewEntry ==
  ASSUME CacheInv, NEW q \in lookups, NEW r \in Results
  PROVE  /\ EntryOf(q, r) \in CacheEntries /\ EntryOf(q, r).key = q.target
         /\ q.target \in KnownIds
  <1>1. r \in [size : Nat, responders : Nat, subnets : Nat]
    BY NodeStateAssumption
  <1>2. q \in [target : KnownIds, find : BOOLEAN]
    BY DEF CacheInv
  <1>3. QED
    BY <1>1, <1>2 DEF EntryOf, CacheEntries

\* At most one entry.
AtMostOne(D) == D = {} \/ \E x : D = {x}

LEMMA FewFinite == ASSUME NEW D, AtMostOne(D) PROVE IsFiniteSet(D)
  <1>1. IsFiniteSet({}) /\ \A x : IsFiniteSet({x})
    BY FS_EmptySet, FS_Singleton
  <1>2. QED
    BY <1>1 DEF AtMostOne

\* Taking at most one entry out.
LEMMA SplitTotal ==
  ASSUME NEW f, NEW E, Weighed(E, f), NEW D \in SUBSET E, AtMostOne(D)
  PROVE  /\ Weighed(E \ D, f) /\ Weighed(D, f)
         /\ Total(E, f) \in Nat /\ Total(D, f) \in Nat /\ Total(E \ D, f) \in Nat
         /\ Total(E, f) = Total(D, f) + Total(E \ D, f)
  <1>1. Weighed(E \ D, f) /\ Weighed(D, f)
    <2>1. IsFiniteSet(E \ D) /\ IsFiniteSet(D)
      BY FS_Subset DEF Weighed
    <2>2. QED
      BY <2>1 DEF Weighed
  <1>2. Total({}, f) = 0 /\ Total(E, f) \in Nat /\ Total(D, f) \in Nat /\ Total(E \ D, f) \in Nat
    BY <1>1, TotalIs
  <1>3. CASE D = {}
    <2>1. E \ D = E
      BY <1>3
    <2>2. QED
      BY <1>1, <1>2, <1>3, <2>1
  <1>4. ASSUME NEW x, D = {x} PROVE Total(E, f) = Total(D, f) + Total(E \ D, f)
    <2>1. x \in E
      BY <1>4
    <2>2. QED
      BY <1>4, <2>1, TotalIs, ZenonT(60)
  <1>5. QED
    BY <1>1, <1>2, <1>3, <1>4 DEF AtMostOne

\* Of the entries E those in P are popped, those in R replaced, and N come in.
Exchange(E, P, R, N) ==
  /\ P \subseteq E /\ AtMostOne(P)
  /\ R \subseteq E \ P /\ AtMostOne(R)
  /\ AtMostOne(N) /\ N \cap ((E \ P) \ R) = {}

\* What is left of the sum.
LEMMA Balance ==
  ASSUME NEW f, NEW E, NEW P, NEW R, NEW N, Weighed(E, f), Weighed(N, f), Exchange(E, P, R, N)
  PROVE  /\ Total(E, f) \in Nat
         /\ Total(((E \ P) \ R) \cup N, f) = (Total(E, f) + Total(N, f)) - Total(P \cup R, f)
  <1> DEFINE A == E \ P
             B == A \ R
             C == B \cup N
             G == P \cup R
  <1>0. /\ P \in SUBSET E /\ AtMostOne(P) /\ R \in SUBSET (E \ P) /\ AtMostOne(R)
        /\ AtMostOne(N) /\ N \cap ((E \ P) \ R) = {}
    BY DEF Exchange
  <1>1. /\ Weighed(A, f)
        /\ Total(E, f) \in Nat /\ Total(P, f) \in Nat /\ Total(A, f) \in Nat
        /\ Total(E, f) = Total(P, f) + Total(A, f)
    BY <1>0, SplitTotal
  <1>2. /\ Weighed(B, f)
        /\ Total(R, f) \in Nat /\ Total(B, f) \in Nat
        /\ Total(A, f) = Total(R, f) + Total(B, f)
    BY <1>0, <1>1, SplitTotal
  <1>3. Weighed(C, f) /\ Weighed(G, f)
    <2>1. IsFiniteSet(B) /\ IsFiniteSet(N) /\ IsFiniteSet(G)
      <3>1. G \in SUBSET E
        BY <1>0
      <3> HIDE DEF A, B, G
      <3>2. QED
        BY <1>2, <3>1, FS_Subset DEF Weighed
    <2>2. IsFiniteSet(C)
      <3> HIDE DEF A, B, G
      <3>1. QED
        BY <2>1, FS_Union
    <2>3. QED
      BY <1>0, <2>1, <2>2 DEF Weighed
  <1>4. C \ N = B /\ N \in SUBSET C
    BY <1>0
  <1>5. /\ Total(N, f) \in Nat /\ Total(C, f) \in Nat
        /\ Total(C, f) = Total(N, f) + Total(B, f)
    <2> HIDE DEF B, C
    <2>1. QED
      BY <1>0, <1>3, <1>4, SplitTotal
  <1>6. G \ P = R /\ P \in SUBSET G
    BY <1>0
  <1>7. Total(G, f) = Total(P, f) + Total(R, f)
    <2> HIDE DEF G
    <2>1. QED
      BY <1>0, <1>3, <1>6, SplitTotal
  <1> DEFINE e == Total(E, f)
             p == Total(P, f)
             a == Total(A, f)
             r == Total(R, f)
             b == Total(B, f)
             n == Total(N, f)
             c == Total(C, f)
             g == Total(G, f)
  <1>8. /\ e \in Nat /\ p \in Nat /\ a \in Nat /\ r \in Nat /\ b \in Nat /\ n \in Nat /\ c \in Nat
        /\ e = p + a /\ a = r + b /\ c = n + b /\ g = p + r
    <2> HIDE DEF A, B, C, G
    <2>1. QED
      BY <1>1, <1>2, <1>5, <1>7
  <1> HIDE DEF e, p, a, r, b, n, c, g
  <1>9. e \in Nat /\ c = (e + n) - g
    BY <1>8
  <1>10. QED
    BY <1>9 DEF e, n, c, g

\* The entries that leave, counted with and without FindNode lookups.
LEMMA GoneCounted ==
  ASSUME NEW P, AtMostOne(P), NEW R, AtMostOne(R), P \cap R = {}
  PROVE  /\ Cardinality(P) \in Nat /\ Cardinality(R) \in Nat
         /\ Uncounted(P \cup R) \in Nat
         /\ Cardinality({e \in P \cup R : e.val.find}) \in Nat
         /\ Uncounted(P \cup R) + Cardinality({e \in P \cup R : e.val.find})
              = Cardinality(P) + Cardinality(R)
  <1> DEFINE G == P \cup R
             Y == {e \in G : e.val.find}
             Z == {e \in G : ~ e.val.find}
  <1>2. IsFiniteSet(P) /\ IsFiniteSet(R) /\ IsFiniteSet(G)
    BY FewFinite, FS_Union
  <1>3. Y \subseteq G /\ Z \subseteq G /\ Y \cup Z = G /\ Y \cap Z = {}
    OBVIOUS
  <1> HIDE DEF Y, Z
  <1>4. IsFiniteSet(Y) /\ IsFiniteSet(Z)
    BY <1>2, <1>3, FS_Subset
  <1>5. Cardinality(Y \cup Z) = Cardinality(Y) + Cardinality(Z) - Cardinality(Y \cap Z)
    BY <1>4, FS_Union
  <1>6. Cardinality(P \cup R) = Cardinality(P) + Cardinality(R) - Cardinality(P \cap R)
    BY <1>2, FS_Union
  <1>7. Cardinality({}) = 0
    BY FS_EmptySet
  <1>8. /\ Cardinality(Y) \in Nat /\ Cardinality(Z) \in Nat
        /\ Cardinality(P) \in Nat /\ Cardinality(R) \in Nat
    BY <1>2, <1>4, FS_CardinalityType
  <1>a. Cardinality(G) = Cardinality(Y) + Cardinality(Z) - 0
    BY <1>3, <1>5, <1>7, Zenon
  <1>b. Cardinality(G) = Cardinality(P) + Cardinality(R) - 0
    BY <1>6, <1>7, Zenon
  <1> HIDE DEF G
  <1>9. Cardinality(Z) + Cardinality(Y) = Cardinality(P) + Cardinality(R)
    BY <1>8, <1>a, <1>b
  <1>10. Uncounted(P \cup R) = Cardinality(Z)
    BY DEF Uncounted, Z, G
  <1>11. QED
    BY <1>8, <1>9, <1>10 DEF Y, G

\* A cache that is full makes room for one entry.
LEMMA RoomMade ==
  ASSUME CacheInv
  PROVE  /\ AfterPop \in Seq(CacheEntries) /\ UniqueKeys(AfterPop) /\ Len(AfterPop) < CacheCap
         /\ Popped \subseteq Content(cached) /\ AtMostOne(Popped)
         /\ Content(AfterPop) = Content(cached) \ Popped
         /\ Len(AfterPop) = Len(cached) - Cardinality(Popped)
  <1>1. CacheCap \in Nat /\ CacheCap > 0
    BY NodeStateAssumption
  <1>2. /\ cached \in Seq(CacheEntries) /\ UniqueKeys(cached)
        /\ Len(cached) \in Nat /\ Len(cached) <= CacheCap
    BY DEF CacheInv
  <1>3. CASE Len(cached) >= CacheCap
    <2> DEFINE p == SubSeq(cached, 1, Len(cached) - 1)
               last == cached[Len(cached)]
    <2>1. Len(cached) > 0
      BY <1>1, <1>2, <1>3
    <2>2. /\ p \in Seq(CacheEntries) /\ UniqueKeys(p) /\ Len(p) = Len(cached) - 1
          /\ Content(p) = Content(cached) \ {last} /\ last \in Content(cached)
      BY <1>2, <2>1, PopIs
    <2>3. AfterPop = p /\ Popped = {last}
      BY <1>3 DEF AfterPop, Popped
    <2> HIDE DEF p, last
    <2>4. Cardinality({last}) = 1
      BY FS_Singleton
    <2>5. Len(p) < CacheCap
      BY <1>1, <1>2, <2>2
    <2>6. QED
      BY <2>2, <2>3, <2>4, <2>5 DEF AtMostOne
  <1>4. CASE ~ (Len(cached) >= CacheCap)
    <2>1. AfterPop = cached /\ Popped = {}
      BY <1>4 DEF AfterPop, Popped
    <2>2. Cardinality({}) = 0
      BY FS_EmptySet
    <2>3. Len(cached) < CacheCap
      BY <1>1, <1>2, <1>4
    <2>4. QED
      BY <1>2, <2>1, <2>2, <2>3 DEF AtMostOne
  <1>5. QED
    BY <1>3, <1>4

\* The new entry of a target takes the place of its old one.
LEMMA EntryCached ==
  ASSUME CacheInv, NEW e \in CacheEntries
  PROVE  LET R == Replaced(e.key)
             c == LruPut(AfterPop, e.key, e.val, CacheCap)
         IN  /\ R \subseteq Content(AfterPop) /\ AtMostOne(R)
             /\ c \in Seq(CacheEntries) /\ UniqueKeys(c) /\ Len(c) <= CacheCap
             /\ Content(c) = (Content(AfterPop) \ R) \cup {e}
             /\ e \notin Content(AfterPop) \ R
             /\ Len(c) = (Len(AfterPop) - Cardinality(R)) + 1
  <1> DEFINE a == AfterPop
             R == Replaced(e.key)
             d == IF e.key \in Keys(a) THEN Drop(a, e.key) ELSE a
             c == LruPut(a, e.key, e.val, CacheCap)
  <1>1. a \in Seq(CacheEntries) /\ UniqueKeys(a) /\ Len(a) < CacheCap /\ Len(a) \in Nat
    BY RoomMade
  <1>2. CacheCap \in Nat
    BY NodeStateAssumption
  <1>3. [key |-> e.key, val |-> e.val] = e
    BY DEF CacheEntries
  <1>4. Len(a) # CacheCap
    BY <1>1, <1>2
  <1>5. c = <<e>> \o d
    BY <1>3, <1>4 DEF LruPut
  <1>6. R = {x \in Content(a) : x.key = e.key}
    BY DEF Replaced, Content
  <1> HIDE DEF a, R, c
  <1>7. /\ d \in Seq(CacheEntries) /\ UniqueKeys(d) /\ Len(d) = Len(a) - Cardinality(R)
        /\ Content(d) = Content(a) \ R /\ e.key \notin Keys(d) /\ AtMostOne(R)
    <2>1. CASE e.key \in Keys(a)
      <3>1. PICK i \in DOMAIN a : a[i].key = e.key
        BY <2>1 DEF Keys
      <3>2. R = {a[i]}
        BY <1>1, <1>6, <3>1 DEF UniqueKeys, Content
      <3>3. Cardinality({a[i]}) = 1
        BY FS_Singleton
      <3>4. d = Drop(a, a[i].key)
        BY <2>1, <3>1
      <3> HIDE DEF d
      <3>5. /\ d \in Seq(CacheEntries) /\ UniqueKeys(d) /\ Len(d) = Len(a) - 1
            /\ Content(d) = Content(a) \ {a[i]} /\ a[i].key \notin Keys(d)
        BY <1>1, <3>4, DropIs
      <3>6. QED
        BY <3>1, <3>2, <3>3, <3>5 DEF AtMostOne
    <2>2. CASE e.key \notin Keys(a)
      <3>1. R = {} /\ d = a
        BY <1>6, <2>2 DEF Keys, Content
      <3>2. Cardinality({}) = 0
        BY FS_EmptySet
      <3> HIDE DEF d
      <3>3. QED
        BY <1>1, <2>2, <3>1, <3>2 DEF AtMostOne
    <2>3. QED
      BY <2>1, <2>2
  <1> HIDE DEF d
  <1>8. /\ <<e>> \o d \in Seq(CacheEntries) /\ UniqueKeys(<<e>> \o d)
        /\ Len(<<e>> \o d) = Len(d) + 1 /\ Content(<<e>> \o d) = Content(d) \cup {e}
    BY <1>7, PushIs
  <1>9. Len(d) <= Len(a) /\ Len(d) \in Nat
    <2>1. Cardinality(R) \in Nat
      BY <1>7, FS_EmptySet, FS_Singleton, FS_CardinalityType DEF AtMostOne
    <2>2. Len(d) \in Nat
      BY <1>7
    <2>3. QED
      BY <1>1, <1>7, <2>1, <2>2
  <1>10. Len(c) = Len(d) + 1 /\ Len(c) <= CacheCap
    BY <1>1, <1>2, <1>5, <1>8, <1>9
  <1>11. e \notin Content(a) \ R
    BY <1>6
  <1>12. R \subseteq Content(a)
    BY <1>6
  <1>13. Len(c) = (Len(a) - Cardinality(R)) + 1
    BY <1>7, <1>10
  <1>14. QED
    BY <1>5, <1>7, <1>8, <1>10, <1>11, <1>12, <1>13, Zenon DEF a, R, c

\* The end of a lookup: what leaves the cache leaves the sums and the count.
LEMMA CachedKeeps ==
  ASSUME CacheInv, NEW q \in lookups, NEW found \in {{}} \cup {{r} : r \in Results},
         CacheLookup(q, found)
  PROVE  /\ cached' \in Seq(CacheEntries) /\ UniqueKeys(cached') /\ Len(cached') <= CacheCap
         /\ retired' \in Nat /\ StatisticsMatchCache'
  <1> DEFINE E == Content(cached)
             P == Popped
             R == IF found = {} THEN {} ELSE Replaced(q.target)
             N == {EntryOf(q, r) : r \in found}
             C == ((E \ P) \ R) \cup N
             G == P \cup R
  <1>1. Gone(q.target, found) = G
    BY DEF Gone
  <1>2. /\ cached' = (IF found = {} THEN AfterPop
                      ELSE LruPut(AfterPop, q.target, (CHOOSE e \in N : TRUE).val, CacheCap))
        /\ dht_size_estimates_sum' = (dht_size_estimates_sum + Total(N, "size")) - Total(G, "size")
        /\ responders_sum' = (responders_sum + Total(N, "responders")) - Total(G, "responders")
        /\ subnets_sum' = (subnets_sum + Total(N, "subnets")) - Total(G, "subnets")
        /\ responders_count' = (responders_count + Cardinality(found)) - Uncounted(G)
        /\ retired' = retired + Cardinality({e \in G : e.val.find})
    BY <1>1 DEF CacheLookup, EntryOf
  <1>3. /\ AfterPop \in Seq(CacheEntries) /\ UniqueKeys(AfterPop) /\ Len(AfterPop) < CacheCap
        /\ P \subseteq E /\ AtMostOne(P)
        /\ Content(AfterPop) = E \ P
        /\ Len(AfterPop) = Len(cached) - Cardinality(P)
    BY RoomMade
  <1>4. CacheCap \in Nat /\ Len(cached) \in Nat /\ Len(AfterPop) \in Nat /\ cached \in Seq(CacheEntries)
    BY <1>3, NodeStateAssumption DEF CacheInv
  <1>5. /\ R \subseteq E \ P /\ AtMostOne(R)
        /\ N \subseteq CacheEntries /\ AtMostOne(N) /\ N \cap ((E \ P) \ R) = {}
        /\ cached' \in Seq(CacheEntries) /\ UniqueKeys(cached') /\ Len(cached') <= CacheCap
        /\ Content(cached') = C
        /\ Len(cached') = (Len(AfterPop) - Cardinality(R)) + Cardinality(found)
        /\ Cardinality(found) \in Nat
    <2>1. CASE found = {}
      <3>1. N = {} /\ R = {} /\ C = E \ P /\ cached' = AfterPop
        BY <1>2, <2>1
      <3>2. Cardinality({}) = 0
        BY FS_EmptySet
      <3>3. Len(AfterPop) <= CacheCap /\ Len(AfterPop) = (Len(AfterPop) - 0) + 0
        BY <1>3, <1>4
      <3> HIDE DEF N, R, C, E, P
      <3>4. QED
        BY <1>3, <2>1, <3>1, <3>2, <3>3 DEF AtMostOne
    <2>2. CASE found # {}
      <3>1. PICK r \in Results : found = {r}
        BY <2>2
      <3> DEFINE e == EntryOf(q, r)
      <3>2. e \in CacheEntries /\ e.key = q.target
        BY NewEntry
      <3>3. N = {e}
        BY <3>1
      <3>4. R = Replaced(e.key)
        BY <2>2, <3>2
      <3>5. cached' = LruPut(AfterPop, e.key, e.val, CacheCap)
        BY <1>2, <2>2, <3>2, <3>3
      <3>6. Cardinality(found) = 1
        BY <3>1, FS_Singleton
      <3> HIDE DEF e, N, R, E, P
      <3>7. /\ R \subseteq Content(AfterPop) /\ AtMostOne(R)
            /\ cached' \in Seq(CacheEntries) /\ UniqueKeys(cached') /\ Len(cached') <= CacheCap
            /\ Content(cached') = (Content(AfterPop) \ R) \cup {e}
            /\ e \notin Content(AfterPop) \ R
            /\ Len(cached') = (Len(AfterPop) - Cardinality(R)) + 1
        BY <3>2, <3>4, <3>5, EntryCached, Zenon
      <3>8. AtMostOne(N) /\ N \cap ((E \ P) \ R) = {}
        BY <1>3, <3>3, <3>7 DEF AtMostOne
      <3>9. QED
        BY <1>3, <3>2, <3>3, <3>6, <3>7, <3>8
    <2>3. QED
      BY <2>1, <2>2
  <1>6. IsFiniteSet(E) /\ E \subseteq CacheEntries
    BY <1>4, ContentCounted DEF Content
  <1>7. IsFiniteSet(N)
    BY <1>5, FewFinite
  <1> HIDE DEF E, P, R, N, C, G
  <1>w. \A f \in {"size", "responders", "subnets"} : Weighed(E, f) /\ Weighed(N, f)
    BY <1>5, <1>6, <1>7, EntryFields
  <1>8. ASSUME NEW f, Weighed(E, f), Weighed(N, f)
        PROVE  Total(E, f) \in Nat /\ Total(C, f) = (Total(E, f) + Total(N, f)) - Total(G, f)
               /\ Total(N, f) \in Nat /\ Total(G, f) \in Nat
    <2>1. Weighed(E, f) /\ Weighed(N, f)
      BY <1>8
    <2>2. Total(E, f) \in Nat /\ Total(C, f) = (Total(E, f) + Total(N, f)) - Total(G, f)
      <3>1. Exchange(E, P, R, N)
        BY <1>3, <1>5 DEF Exchange
      <3>2. /\ Total(E, f) \in Nat
            /\ Total(((E \ P) \ R) \cup N, f) = (Total(E, f) + Total(N, f)) - Total(P \cup R, f)
        BY <2>1, <3>1, Balance
      <3>3. QED
        BY <3>2, Zenon DEF C, G
    <2>3. IsFiniteSet(G) /\ G \subseteq E
      BY <1>3, <1>5, <1>6, FS_Subset DEF G
    <2>4. Weighed(G, f)
      BY <2>1, <2>3 DEF Weighed
    <2>5. QED
      BY <2>1, <2>2, <2>4, TotalIs
  <1>9. P \cap R = {}
    BY <1>5
  <1>10. /\ Cardinality(P) \in Nat /\ Cardinality(R) \in Nat /\ Uncounted(G) \in Nat
         /\ Cardinality({e \in G : e.val.find}) \in Nat
         /\ Uncounted(G) + Cardinality({e \in G : e.val.find}) = Cardinality(P) + Cardinality(R)
    BY <1>3, <1>5, <1>9, GoneCounted DEF G
  <1>t. /\ Total(E, "size") \in Nat /\ Total(N, "size") \in Nat /\ Total(G, "size") \in Nat
        /\ Total(C, "size") = (Total(E, "size") + Total(N, "size")) - Total(G, "size")
    BY <1>8, <1>w
  <1>u. /\ Total(E, "responders") \in Nat /\ Total(N, "responders") \in Nat
        /\ Total(G, "responders") \in Nat
        /\ Total(C, "responders") =
             (Total(E, "responders") + Total(N, "responders")) - Total(G, "responders")
    BY <1>8, <1>w
  <1>v. /\ Total(E, "subnets") \in Nat /\ Total(N, "subnets") \in Nat
        /\ Total(G, "subnets") \in Nat
        /\ Total(C, "subnets") = (Total(E, "subnets") + Total(N, "subnets")) - Total(G, "subnets")
    BY <1>8, <1>w
  <1>11. SumsMatchCache'
    <2>1. /\ dht_size_estimates_sum = Total(E, "size")
          /\ responders_sum = ColdStartSize + Total(E, "responders")
          /\ subnets_sum = ColdStartSubnets + Total(E, "subnets")
      BY DEF CacheInv, StatisticsMatchCache, SumsMatchCache, E, Content
    <2>2. ColdStartSize \in Nat /\ ColdStartSubnets \in Nat
      BY NodeStateAssumption
    <2>3. dht_size_estimates_sum' = Total(C, "size")
      BY <1>2, <1>t, <2>1
    <2>4. responders_sum' = ColdStartSize + Total(C, "responders")
      BY <1>2, <1>u, <2>1, <2>2
    <2>5. subnets_sum' = ColdStartSubnets + Total(C, "subnets")
      BY <1>2, <1>v, <2>1, <2>2
    <2>6. C = {cached'[i] : i \in DOMAIN cached'}
      BY <1>5 DEF Content
    <2>7. QED
      BY <2>3, <2>4, <2>5, <2>6 DEF SumsMatchCache
  <1>12. CountDriftsByFindNodes' /\ retired' \in Nat
    <2> DEFINE y == Cardinality({e \in G : e.val.find})
               z == Uncounted(G)
               p == Cardinality(P)
               r == Cardinality(R)
               n == Cardinality(found)
    <2>1. responders_count = Len(cached) + retired /\ retired \in Nat
      BY DEF CacheInv, StatisticsMatchCache, CountDriftsByFindNodes
    <2>2. responders_count' = (responders_count + n) - z /\ retired' = retired + y
      BY <1>2
    <2>3. y \in Nat /\ z \in Nat /\ p \in Nat /\ r \in Nat /\ n \in Nat /\ z + y = p + r
      BY <1>5, <1>10
    <2>4. Len(cached') = ((Len(cached) - p) - r) + n
      BY <1>3, <1>5
    <2> HIDE DEF y, z, p, r, n
    <2>5. responders_count' = Len(cached') + retired' /\ retired' \in Nat
      BY <1>4, <2>1, <2>2, <2>3, <2>4
    <2>6. QED
      BY <2>5 DEF CountDriftsByFindNodes
  <1>13. QED
    BY <1>5, <1>11, <1>12 DEF StatisticsMatchCache

\* A new lookup, or none: the cache is at most read.
LEMMA GetKeeps ==
  ASSUME CacheInv, NEW t \in KnownIds, UNCHANGED statVars, id' \in KnownIds,
         \/ \E find \in BOOLEAN : Get(t, find)
         \/ cached' = LruGet(cached, t) /\ UNCHANGED lookups
         \/ NotGet
  PROVE  CacheInv'
  <1>1. lookups' \subseteq [target : KnownIds, find : BOOLEAN]
    BY DEF CacheInv, Get, NotGet
  <1>2. cached' = cached \/ cached' = LruGet(cached, t)
    BY DEF Get, NotGet
  <1>3. cached \in Seq(CacheEntries) /\ UniqueKeys(cached)
    BY DEF CacheInv
  <1>4. \A e \in CacheEntries : e = [key |-> e.key, val |-> e.val]
    BY DEF CacheEntries
  <1> DEFINE g == LruGet(cached, t)
  <1>5. g \in Seq(CacheEntries) /\ UniqueKeys(g) /\ Len(g) = Len(cached) /\ Content(g) = Content(cached)
    BY <1>3, <1>4, LruGetIs, Zenon
  <1> HIDE DEF g
  <1>6. /\ cached' \in Seq(CacheEntries) /\ UniqueKeys(cached') /\ Len(cached') = Len(cached)
        /\ Content(cached') = Content(cached)
    BY <1>2, <1>3, <1>5 DEF g
  <1>7. SumsMatchCache'
    BY <1>6 DEF CacheInv, StatisticsMatchCache, SumsMatchCache, Content, statVars
  <1>8. CountDriftsByFindNodes' /\ retired' \in Nat /\ Len(cached') <= CacheCap
    BY <1>6 DEF CacheInv, StatisticsMatchCache, CountDriftsByFindNodes, statVars
  <1>9. QED
    BY <1>1, <1>6, <1>7, <1>8 DEF CacheInv, StatisticsMatchCache

\* Every step keeps the statistics.
LEMMA CacheStep == CacheInv /\ [Next]_vars => CacheInv'
  <1> SUFFICES ASSUME CacheInv, [Next]_vars PROVE CacheInv'
    OBVIOUS
  <1>0. id \in KnownIds /\ Targets \subseteq KnownIds
    BY DEF CacheInv, KnownIds
  <1>1. ASSUME NEW t \in Targets, CallPut(t) PROVE CacheInv'
    <2>1. UNCHANGED <<id, statVars>>
      BY <1>1 DEF CallPut
    <2>2. \/ \E find \in BOOLEAN : Get(t, find)
          \/ cached' = LruGet(cached, t) /\ UNCHANGED lookups
      BY <1>1 DEF CallPut
    <2>3. QED
      BY <1>0, <2>1, <2>2, GetKeeps
  <1>2. ASSUME NEW t \in Targets, NEW find \in BOOLEAN, CallGet(t, find) PROVE CacheInv'
    <2>1. UNCHANGED <<id, statVars>> /\ Get(t, find)
      BY <1>2 DEF CallGet
    <2>2. QED
      BY <1>0, <2>1, GetKeeps
  <1>3. ASSUME NEW q \in lookups, FinishLookup(q) PROVE CacheInv'
    <2>1. PICK found \in {{}} \cup {{r} : r \in Results} : CacheLookup(q, found)
      BY <1>3 DEF FinishLookup
    <2>2. /\ cached' \in Seq(CacheEntries) /\ UniqueKeys(cached') /\ Len(cached') <= CacheCap
          /\ retired' \in Nat /\ StatisticsMatchCache'
      BY <2>1, CachedKeeps
    <2>3. id' = id /\ lookups' \subseteq lookups
      BY <1>3 DEF FinishLookup
    <2>4. lookups' \subseteq [target : KnownIds, find : BOOLEAN]
      BY <2>3 DEF CacheInv
    <2>5. QED
      BY <1>0, <2>2, <2>3, <2>4 DEF CacheInv
  <1>4. CASE Maintain
    <2>1. UNCHANGED <<id, statVars>> /\ (Get(id, TRUE) \/ NotGet)
      BY <1>4 DEF Maintain
    <2>2. QED
      BY <1>0, <2>1, GetKeeps
  <1>5. ASSUME NEW a \in Addresses, ReceivePing(a) PROVE CacheInv'
    <2>1. UNCHANGED statVars
      BY <1>5 DEF ReceivePing
    <2>2. CASE id' = id /\ NotGet
      BY <1>0, <2>1, <2>2, GetKeeps
    <2>3. ASSUME NEW new_id \in FreshIds(a.ip), id' = new_id, Get(new_id, TRUE) PROVE CacheInv'
      <3>1. new_id \in KnownIds
        BY DEF KnownIds
      <3>2. QED
        BY <2>1, <2>3, <3>1, GetKeeps
    <2>4. QED
      BY <1>5, <2>2, <2>3 DEF ReceivePing, SecureId
  <1>6. CASE UNCHANGED vars
    <2>1. UNCHANGED <<id, statVars>> /\ NotGet
      BY <1>6 DEF vars, statVars, cacheVars, NotGet
    <2>2. QED
      BY <1>0, <2>1, GetKeeps
  <1>7. QED
    BY <1>1, <1>2, <1>3, <1>4, <1>5, <1>6 DEF Next

\* The statistics of an empty cache are those of a cold start.
LEMMA CacheInit == Init => CacheInv
  <1> SUFFICES ASSUME Init PROVE CacheInv
    OBVIOUS
  <1>1. cached = <<>> /\ <<>> \in Seq(CacheEntries) /\ Len(<<>>) = 0 /\ UniqueKeys(<<>>)
    BY DEF Init, UniqueKeys
  <1>2. Content(<<>>) = {}
    BY DEF Content
  <1>3. \A f : Total({}, f) = 0
    <2> TAKE f
    <2>1. Weighed({}, f)
      BY FS_EmptySet DEF Weighed
    <2>2. QED
      BY <2>1, TotalIs
  <1>4. ColdStartSize \in Nat /\ ColdStartSubnets \in Nat /\ CacheCap \in Nat
    BY NodeStateAssumption
  <1>5. SumsMatchCache
    BY <1>1, <1>2, <1>3, <1>4, SMTT(60) DEF SumsMatchCache, Content, Init
  <1>6. CountDriftsByFindNodes
    BY <1>1 DEF CountDriftsByFindNodes, Init
  <1>7. id \in KnownIds /\ lookups = {} /\ retired = 0
    BY DEF Init, KnownIds
  <1>8. QED
    BY <1>1, <1>4, <1>5, <1>6, <1>7 DEF CacheInv, StatisticsMatchCache

\* The sums and the count that the estimates of the network's size are made of
\* belong to what is cached, after any sequence of lookups.
THEOREM StatisticsBelongToCache == Spec => []StatisticsMatchCache
  <1>1. CacheInv => StatisticsMatchCache
    BY DEF CacheInv
  <1>2. QED
    BY <1>1, CacheInit, CacheStep, PTL DEF Spec

=============================================================================
