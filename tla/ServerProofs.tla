---------------------------- MODULE ServerProofs ----------------------------
(***************************************************************************)
(* What a node in server mode keeps of its promises.                       *)
(*                                                                         *)
(* First the tokens by themselves.  FreshTokenAccepted is not inductive:   *)
(* it does not say how old a token of the previous secret may be when that *)
(* secret is forgotten.  TokenAges does: tokens of the current secret were *)
(* handed out after the last rotation, tokens of the previous secret       *)
(* before it, and all others more than RotateInterval before it.           *)
(*                                                                         *)
(* Then the LRU cache: what reading and writing do to its keys, values and *)
(* order (LruGetKeeps, LruPutKeeps, EvictedAfterCap), and the refinement   *)
(* of the Tokens component, which gives the server its properties.         *)
(*                                                                         *)
(* Last the stores: AcknowledgedItemKept is not inductive, since it does   *)
(* not say which items are next to be evicted; Recency does, by relating   *)
(* the order of the cache to the history of uses.                          *)
(***************************************************************************)
EXTENDS Server, FiniteSetTheorems, SequenceTheorems, TLAPS

-----------------------------------------------------------------------------
(* Write tokens *)

\* Where each secret's tokens stand in time, by the rotations of handle_request.
TokenAges ==
  /\ prevSecret < currSecret
  /\ lastUpdated <= now
  /\ \A tok \in issued :
       /\ tok.at <= now
       /\ tok.secret <= currSecret
       /\ tok.secret # currSecret => tok.at <= lastUpdated
       /\ tok.secret \notin {prevSecret, currSecret} => tok.at + RotateInterval < lastUpdated

TokenInv == TokensTypeOK /\ TokenAges

\* TokenAges says enough: it implies that fresh tokens are accepted.
LEMMA AgesImplyAccepted == TokenInv => FreshTokenAccepted
  BY TokensAssumption
  DEF TokenInv, TokensTypeOK, TokenAges, FreshTokenAccepted, WouldAccept, ShouldUpdate, Tokens

\* The server starts with two secrets and no token handed out.
LEMMA TokenInvInit == TokensInit => TokenInv
  BY DEF TokensInit, TokenInv, TokensTypeOK, TokenAges, Tokens

\* Each request, with the rotation it may begin with, keeps TokenInv.
LEMMA TokenInvStep == TokenInv /\ [TokensNext]_tokenVars => TokenInv'
  <1> SUFFICES ASSUME TokenInv, [TokensNext]_tokenVars PROVE TokenInv'
    OBVIOUS
  <1> USE TokensAssumption DEF TokenInv, TokensTypeOK, TokenAges, Tokens
  <1>1. ASSUME NEW ip \in Ips, HandOut(ip) PROVE TokenInv'
    <2>1. CASE ShouldUpdate
      BY <1>1, <2>1 DEF HandOut, RotateIfDue, GenerateToken, ShouldUpdate
    <2>2. CASE ~ ShouldUpdate
      BY <1>1, <2>2 DEF HandOut, RotateIfDue, GenerateToken
    <2>3. QED
      BY <2>1, <2>2
  <1>2. CASE NoToken
    <2>1. CASE ShouldUpdate
      BY <1>2, <2>1 DEF NoToken, RotateIfDue, ShouldUpdate
    <2>2. CASE ~ ShouldUpdate
      BY <1>2, <2>2 DEF NoToken, RotateIfDue
    <2>3. QED
      BY <2>1, <2>2
  <1>3. CASE Advance
    BY <1>3 DEF Advance
  <1>4. CASE UNCHANGED tokenVars
    BY <1>4 DEF tokenVars
  <1>5. QED
    BY <1>1, <1>2, <1>3, <1>4 DEF TokensNext

\* The variables of Tokens keep their types.
THEOREM TokensTypeCorrect == TokensSpec => []TokensTypeOK
  <1>1. TokenInv => TokensTypeOK
    BY DEF TokenInv
  <1>2. QED
    BY <1>1, TokenInvInit, TokenInvStep, PTL DEF TokensSpec

\* For every rotation interval and every sequence of requests, a token is
\* accepted during the RotateInterval after Tokens::generate_token made it.
THEOREM FreshTokensAccepted == TokensSpec => []FreshTokenAccepted
  <1>1. QED
    BY AgesImplyAccepted, TokenInvInit, TokenInvStep, PTL DEF TokensSpec

-----------------------------------------------------------------------------
(* The LRU cache *)

\* A cache whose keys are in K and whose values are in V.
Entries(K, V) == [key : K, val : V]

\* Each key has one entry.
UniqueKeys(c) == \A i, j \in DOMAIN c : c[i].key = c[j].key => i = j

\* The keys that were used more recently than t.
Ahead(c, t) ==
  {c[j].key : j \in {j \in DOMAIN c : \E i \in DOMAIN c : c[i].key = t /\ j < i}}

\* At reads the entry of the key.
LEMMA AtIs ==
  ASSUME NEW K, NEW V, NEW c \in Seq(Entries(K, V)), UniqueKeys(c), NEW i \in DOMAIN c
  PROVE  /\ c[i].key \in Keys(c) /\ c[i].key \in K
         /\ At(c, c[i].key) = c[i].val
         /\ At(c, c[i].key) \in V
  <1> DEFINE E == {c[j] : j \in DOMAIN c}
  <1>1. c[i] \in E /\ c[i] \in Entries(K, V)
    OBVIOUS
  <1>2. \A e \in E : e.key = c[i].key => e = c[i]
    BY DEF UniqueKeys
  <1>3. (CHOOSE e \in E : e.key = c[i].key) = c[i]
    BY <1>1, <1>2
  <1>4. QED
    BY <1>1, <1>3 DEF At, Keys, Entries

\* Drop takes out the entry of the key and keeps the order of the others.
LEMMA DropIs ==
  ASSUME NEW K, NEW V, NEW c \in Seq(Entries(K, V)), UniqueKeys(c), NEW i \in DOMAIN c
  PROVE  /\ Drop(c, c[i].key) \in Seq(Entries(K, V))
         /\ Len(Drop(c, c[i].key)) = Len(c) - 1
         /\ \A j \in 1 .. Len(c) - 1 :
              Drop(c, c[i].key)[j] = IF j < i THEN c[j] ELSE c[j + 1]
  <1>1. (CHOOSE j \in DOMAIN c : c[j].key = c[i].key) = i
    BY DEF UniqueKeys
  <1>2. i \in 1 .. Len(c) /\ Len(c) \in Nat
    OBVIOUS
  <1>3. \A j \in 1 .. i - 1 : c[j] \in Entries(K, V)
    BY <1>2
  <1>4. \A j \in i + 1 .. Len(c) : c[j] \in Entries(K, V)
    BY <1>2
  <1> DEFINE a == SubSeq(c, 1, i - 1)
             b == SubSeq(c, i + 1, Len(c))
  <1>5. /\ a \in Seq(Entries(K, V)) /\ Len(a) = i - 1
        /\ \A j \in 1 .. i - 1 : a[j] = c[j]
    BY <1>2, <1>3, SubSeqProperties
  <1>6. /\ b \in Seq(Entries(K, V)) /\ Len(b) = Len(c) - i
        /\ \A j \in 1 .. Len(c) - i : b[j] = c[i + j]
    BY <1>2, <1>4, SubSeqProperties
  <1>7. Drop(c, c[i].key) = a \o b
    BY <1>1 DEF Drop
  <1> HIDE DEF a, b
  <1>8. \A j \in 1 .. Len(c) - 1 :
          (a \o b)[j] = IF j <= i - 1 THEN a[j] ELSE b[j - (i - 1)]
    BY <1>2, <1>5, <1>6, ConcatProperties, SMTT(60)
  <1>9. QED
    BY <1>2, <1>5, <1>6, <1>7, <1>8, ConcatProperties, SMTT(60)

\* LruGet of a key that is there moves its entry to the front.
LEMMA LruGetIs ==
  ASSUME NEW K, NEW V, NEW c \in Seq(Entries(K, V)), UniqueKeys(c), NEW i \in DOMAIN c
  PROVE  /\ LruGet(c, c[i].key) \in Seq(Entries(K, V))
         /\ Len(LruGet(c, c[i].key)) = Len(c)
         /\ \A j \in 1 .. Len(c) :
              LruGet(c, c[i].key)[j] =
                IF j = 1 THEN c[i] ELSE IF j <= i THEN c[j - 1] ELSE c[j]
  <1> DEFINE e == [key |-> c[i].key, val |-> At(c, c[i].key)]
             d == Drop(c, c[i].key)
  <1>1. e = c[i] /\ e \in Entries(K, V)
    <2>0. c[i] \in Entries(K, V)
      OBVIOUS
    <2>1. c[i] \in [key : K, val : V]
      BY <2>0 DEF Entries
    <2>2. At(c, c[i].key) = c[i].val
      BY AtIs
    <2>3. QED
      BY <2>1, <2>2 DEF Entries
  <1>2. LruGet(c, c[i].key) = <<e>> \o d
    BY AtIs DEF LruGet
  <1>3. /\ d \in Seq(Entries(K, V)) /\ Len(d) = Len(c) - 1
        /\ \A j \in 1 .. Len(c) - 1 : d[j] = IF j < i THEN c[j] ELSE c[j + 1]
    BY DropIs
  <1>4. i \in 1 .. Len(c) /\ Len(c) \in Nat
    OBVIOUS
  <1> HIDE DEF e, d
  <1>5. <<e>> \in Seq(Entries(K, V)) /\ Len(<<e>>) = 1
    BY <1>1
  <1>6. /\ <<e>> \o d \in Seq(Entries(K, V)) /\ Len(<<e>> \o d) = Len(c)
        /\ \A j \in 1 .. Len(c) : (<<e>> \o d)[j] = IF j <= 1 THEN e ELSE d[j - 1]
    BY <1>3, <1>4, <1>5, ConcatProperties
  <1>7. QED
    BY <1>1, <1>2, <1>3, <1>4, <1>6

\* Reading a key from a cache keeps its keys and values; the key that was read
\* is ahead of all others, whose order stays.
LEMMA LruGetKeeps ==
  ASSUME NEW K, NEW V, NEW c \in Seq(Entries(K, V)), UniqueKeys(c), NEW k
  PROVE  LET g == LruGet(c, k)
         IN  /\ g \in Seq(Entries(K, V)) /\ Len(g) = Len(c)
             /\ UniqueKeys(g) /\ Keys(g) = Keys(c)
             /\ \A t \in Keys(c) : At(g, t) = At(c, t)
             /\ \A t \in Keys(c) \ {k} : Ahead(g, t) \subseteq Ahead(c, t) \cup {k}
             /\ k \in Keys(c) => Ahead(g, k) = {}
  <1> DEFINE g == LruGet(c, k)
  <1> SUFFICES ASSUME k \in Keys(c)
               PROVE  /\ g \in Seq(Entries(K, V)) /\ Len(g) = Len(c)
                      /\ UniqueKeys(g) /\ Keys(g) = Keys(c)
                      /\ \A t \in Keys(c) : At(g, t) = At(c, t)
                      /\ \A t \in Keys(c) \ {k} : Ahead(g, t) \subseteq Ahead(c, t) \cup {k}
                      /\ Ahead(g, k) = {}
    BY DEF LruGet
  <1>1. PICK i \in DOMAIN c : c[i].key = k
    BY DEF Keys
  <1>2. /\ g \in Seq(Entries(K, V)) /\ Len(g) = Len(c)
        /\ \A j \in 1 .. Len(c) :
             g[j] = IF j = 1 THEN c[i] ELSE IF j <= i THEN c[j - 1] ELSE c[j]
    BY <1>1, LruGetIs
  <1> HIDE DEF g
  <1>3. /\ DOMAIN c = 1 .. Len(c) /\ DOMAIN g = 1 .. Len(c)
        /\ Len(c) \in Nat /\ i \in 1 .. Len(c)
    BY <1>1, <1>2
  <1> DEFINE from(j) == IF j = 1 THEN i ELSE IF j <= i THEN j - 1 ELSE j
  <1>4. UniqueKeys(g)
    <2>1. \A j \in DOMAIN g : from(j) \in DOMAIN c /\ g[j] = c[from(j)]
      BY <1>2, <1>3
    <2>2. \A j, l \in DOMAIN g : from(j) = from(l) => j = l
      BY <1>3
    <2> HIDE DEF from
    <2>3. QED
      BY <2>1, <2>2 DEF UniqueKeys
  <1>5. Keys(g) = Keys(c)
    <2>1. \A j \in DOMAIN g : from(j) \in DOMAIN c /\ g[j] = c[from(j)]
      BY <1>2, <1>3
    <2>2. \A l \in DOMAIN c : \E j \in DOMAIN g : g[j] = c[l]
      <3> TAKE l \in DOMAIN c
      <3>1. CASE l = i
        BY <1>2, <1>3, <3>1
      <3>2. CASE l < i
        <4>1. l + 1 \in DOMAIN g /\ g[l + 1] = c[l]
          BY <1>2, <1>3, <3>2
        <4>2. QED
          BY <4>1
      <3>3. CASE l > i
        BY <1>2, <1>3, <3>3
      <3>4. QED
        BY <1>3, <3>1, <3>2, <3>3
    <2>3. QED
      BY <2>1, <2>2, SMTT(60) DEF Keys
  <1>6. \A t \in Keys(c) : At(g, t) = At(c, t)
    <2> TAKE t \in Keys(c)
    <2>1. PICK j \in DOMAIN g : g[j].key = t
      BY <1>5 DEF Keys
    <2>2. PICK l \in DOMAIN c : g[j] = c[l]
      BY <1>2, <1>3
    <2>3. At(g, t) = g[j].val
      BY <1>2, <1>4, <2>1, AtIs
    <2>4. At(c, t) = c[l].val
      BY <2>1, <2>2, AtIs
    <2>5. QED
      BY <2>2, <2>3, <2>4
  <1>7. \A t \in Keys(c) \ {k} : Ahead(g, t) \subseteq Ahead(c, t) \cup {k}
    <2> SUFFICES ASSUME NEW t \in Keys(c) \ {k}, NEW j \in DOMAIN g, NEW m \in DOMAIN g,
                        g[m].key = t, j < m
                 PROVE  g[j].key \in Ahead(c, t) \cup {k}
      BY DEF Ahead
    <2>1. CASE j = 1
      BY <1>1, <1>2, <1>3, <2>1
    <2>2. CASE j > 1
      <3>1. PICK x \in DOMAIN c, y \in DOMAIN c : g[j] = c[x] /\ g[m] = c[y] /\ x < y
        <4>1. CASE m <= i
          <5>1. g[j] = c[j - 1] /\ g[m] = c[m - 1] /\ j - 1 \in DOMAIN c /\ m - 1 \in DOMAIN c
            BY <1>2, <1>3, <2>2, <4>1
          <5>2. QED
            BY <1>3, <5>1
        <4>2. CASE m > i
          <5>1. g[m] = c[m]
            BY <1>2, <1>3, <4>2
          <5>2. \/ j <= i /\ g[j] = c[j - 1] /\ j - 1 \in DOMAIN c
                \/ g[j] = c[j]
            BY <1>2, <1>3, <2>2
          <5>3. QED
            BY <1>3, <5>1, <5>2
        <4>3. QED
          BY <1>3, <4>1, <4>2
      <3>2. QED
        BY <3>1 DEF Ahead
    <2>3. QED
      BY <1>3, <2>1, <2>2
  <1>8. Ahead(g, k) = {}
    <2>1. g[1].key = k /\ 1 \in DOMAIN g
      BY <1>1, <1>2, <1>3
    <2>2. \A m \in DOMAIN g : g[m].key = k => m = 1
      BY <1>4, <2>1 DEF UniqueKeys
    <2>3. \A j, m \in DOMAIN g : g[m].key = k => ~ (j < m)
      BY <1>3, <2>2
    <2>4. QED
      BY <2>3 DEF Ahead
  <1>9. QED
    BY <1>2, <1>4, <1>5, <1>6, <1>7, <1>8 DEF g

\* Behind the entry of k, the cache p has the other entries of c in their order,
\* all of them but for one at position cap when k is new.
Behind(c, k, cap, p) ==
  \E from \in [2 .. Len(p) -> DOMAIN c] :
    /\ \A j \in 2 .. Len(p) : p[j] = c[from[j]] /\ p[j].key # k
    /\ \A j, l \in 2 .. Len(p) : j < l <=> from[j] < from[l]
    /\ \A l \in DOMAIN c :
         \/ c[l].key = k
         \/ \E j \in 2 .. Len(p) : from[j] = l
         \/ l = cap /\ k \notin Keys(c)

\* LruPut puts its entry in front; behind it come the other entries of the
\* cache in their order, without the last one if the cache was full.
LEMMA LruPutIs ==
  ASSUME NEW K, NEW V, NEW c \in Seq(Entries(K, V)), UniqueKeys(c),
         NEW k \in K, NEW v \in V, NEW cap \in Nat, 0 < cap, Len(c) <= cap
  PROVE  LET p == LruPut(c, k, v, cap)
         IN  /\ p \in Seq(Entries(K, V)) /\ Len(p) \in 1 .. cap
             /\ p[1] = [key |-> k, val |-> v]
             /\ Behind(c, k, cap, p)
  <1> DEFINE e == [key |-> k, val |-> v]
             kept == IF k \in Keys(c) THEN Drop(c, k)
                     ELSE IF Len(c) = cap THEN SubSeq(c, 1, cap - 1) ELSE c
             p == LruPut(c, k, v, cap)
  <1>1. p = <<e>> \o kept
    BY DEF LruPut
  <1> HIDE DEF p
  <1> SUFFICES /\ p \in Seq(Entries(K, V)) /\ Len(p) \in 1 .. cap
               /\ p[1] = [key |-> k, val |-> v]
               /\ Behind(c, k, cap, p)
    BY DEF p
  <1>2. Len(c) \in Nat /\ DOMAIN c = 1 .. Len(c)
    OBVIOUS
  <1>n. PICK n \in Nat : n = Len(c)
    BY <1>2
  <1>m. n <= cap /\ DOMAIN c = 1 .. n
    BY <1>2, <1>n
  <1>3. e \in Entries(K, V) /\ <<e>> \in Seq(Entries(K, V)) /\ Len(<<e>>) = 1 /\ <<e>>[1] = e
    BY DEF Entries
  <1>4. ASSUME kept \in Seq(Entries(K, V))
        PROVE  /\ p \in Seq(Entries(K, V)) /\ Len(p) = Len(kept) + 1
               /\ p[1] = e /\ \A j \in 2 .. Len(p) : p[j] = kept[j - 1]
    <2> HIDE DEF e, kept
    <2>1. Len(kept) \in Nat
      BY <1>4
    <2>2. QED
      BY <1>1, <1>3, <1>4, <2>1, ConcatProperties
  <1>5. CASE k \in Keys(c)
    <2>1. PICK i \in DOMAIN c : c[i].key = k
      BY <1>5 DEF Keys
    <2>2. kept = Drop(c, c[i].key)
      BY <1>5, <2>1
    <2> HIDE DEF kept
    <2>3. /\ kept \in Seq(Entries(K, V)) /\ Len(kept) = n - 1
          /\ \A j \in 1 .. n - 1 : kept[j] = IF j < i THEN c[j] ELSE c[j + 1]
      <3>1. /\ Drop(c, c[i].key) \in Seq(Entries(K, V))
            /\ Len(Drop(c, c[i].key)) = Len(c) - 1
            /\ \A j \in 1 .. Len(c) - 1 :
                 Drop(c, c[i].key)[j] = IF j < i THEN c[j] ELSE c[j + 1]
        <4>1. c \in Seq(Entries(K, V)) /\ UniqueKeys(c) /\ i \in DOMAIN c
          OBVIOUS
        <4>2. QED
          BY ONLY <4>1, DropIs
      <3>2. QED
        BY <1>n, <2>2, <3>1
    <2> HIDE DEF kept, e
    <2>0. i \in 1 .. n
      BY <1>m, <2>1
    <2>a. /\ p \in Seq(Entries(K, V)) /\ Len(p) = n /\ p[1] = e
          /\ \A j \in 2 .. n : p[j] = kept[j - 1]
      BY <1>4, <2>3
    <2>4. /\ p \in Seq(Entries(K, V)) /\ Len(p) = n /\ p[1] = e
          /\ \A j \in 2 .. n : p[j] = c[IF j <= i THEN j - 1 ELSE j]
      BY <2>0, <2>3, <2>a
    <2> DEFINE from == [j \in 2 .. Len(p) |-> IF j <= i THEN j - 1 ELSE j]
    <2>5. from \in [2 .. Len(p) -> DOMAIN c]
      BY <1>m, <2>0, <2>4
    <2>6. \A j \in 2 .. Len(p) : from[j] \in DOMAIN c /\ from[j] # i /\ p[j] = c[from[j]]
      BY <1>m, <2>0, <2>4
    <2>7. \A j \in 2 .. Len(p) : p[j].key # k
      <3> HIDE DEF from
      <3> QED
        BY <2>1, <2>6 DEF UniqueKeys
    <2>8. \A j, l \in 2 .. Len(p) : j < l <=> from[j] < from[l]
      BY <1>m, <2>0, <2>4
    <2>9. \A l \in DOMAIN c : l = i \/ \E j \in 2 .. Len(p) : from[j] = l
      <3> SUFFICES ASSUME NEW l \in DOMAIN c, l # i
                   PROVE  \E j \in 2 .. Len(p) : from[j] = l
        OBVIOUS
      <3>1. CASE l < i
        <4>1. l + 1 \in 2 .. Len(p) /\ from[l + 1] = l
          BY <1>m, <2>0, <2>4, <3>1
        <4>2. QED
          BY <4>1
      <3>2. CASE l > i
        <4>1. l \in 2 .. Len(p) /\ from[l] = l
          BY <1>m, <2>0, <2>4, <3>2
        <4>2. QED
          BY <4>1
      <3>3. QED
        BY <1>m, <2>0, <3>1, <3>2
    <2> HIDE DEF from
    <2>10. Len(p) \in 1 .. cap
      BY <1>m, <2>0, <2>4
    <2>11. QED
      BY <2>1, <2>4, <2>5, <2>6, <2>7, <2>8, <2>9, <2>10, ZenonT(60) DEF e, Behind
  <1>6. CASE k \notin Keys(c)
    <2>1. /\ kept \in Seq(Entries(K, V))
          /\ Len(kept) = IF n = cap THEN cap - 1 ELSE n
          /\ \A j \in 1 .. Len(kept) : kept[j] = c[j]
      <3>1. CASE n = cap
        <4>1. kept = SubSeq(c, 1, cap - 1)
          BY <1>6, <1>n, <3>1
        <4>2. \A j \in 1 .. cap - 1 : c[j] \in Entries(K, V)
          BY <1>m, <3>1
        <4>3. /\ SubSeq(c, 1, cap - 1) \in Seq(Entries(K, V))
              /\ Len(SubSeq(c, 1, cap - 1)) = cap - 1
              /\ \A j \in 1 .. cap - 1 : SubSeq(c, 1, cap - 1)[j] = c[j]
          BY <4>2, SubSeqProperties
        <4> HIDE DEF kept
        <4>4. QED
          BY <3>1, <4>1, <4>3
      <3>2. CASE n # cap
        BY <1>6, <1>n, <3>2
      <3>3. QED
        BY <3>1, <3>2
    <2> HIDE DEF kept, e
    <2>k. PICK h \in Nat : h = Len(kept)
      BY <2>1
    <2>0. h <= n /\ h < cap /\ (n # cap => h = n) /\ (n = cap => h = cap - 1)
      BY <1>m, <2>1, <2>k
    <2>2. /\ p \in Seq(Entries(K, V)) /\ Len(p) = h + 1 /\ p[1] = e
          /\ \A j \in 2 .. h + 1 : p[j] = c[j - 1]
      BY <1>4, <2>1, <2>k
    <2> DEFINE from == [j \in 2 .. Len(p) |-> j - 1]
    <2>3. from \in [2 .. Len(p) -> DOMAIN c]
      BY <1>m, <2>0, <2>2
    <2>4. \A j \in 2 .. Len(p) : from[j] \in DOMAIN c /\ p[j] = c[from[j]]
      BY <2>2, <2>3
    <2>5. \A j \in 2 .. Len(p) : p[j].key # k
      BY <1>6, <2>4 DEF Keys
    <2>6. \A j, l \in 2 .. Len(p) : j < l <=> from[j] < from[l]
      BY <2>0, <2>2
    <2>7. \A l \in DOMAIN c : l = cap \/ \E j \in 2 .. Len(p) : from[j] = l
      <3> SUFFICES ASSUME NEW l \in DOMAIN c, l # cap
                   PROVE  \E j \in 2 .. Len(p) : from[j] = l
        OBVIOUS
      <3>1. l + 1 \in 2 .. Len(p) /\ from[l + 1] = l
        BY <1>m, <2>0, <2>2
      <3>2. QED
        BY <3>1
    <2> HIDE DEF from
    <2>8. Len(p) \in 1 .. cap
      BY <2>0, <2>2
    <2>9. QED
      BY <1>6, <2>2, <2>3, <2>4, <2>5, <2>6, <2>7, <2>8, ZenonT(60) DEF e, Behind
  <1>7. QED
    BY <1>5, <1>6

\* Writing a key puts it ahead of all others, keeps the values and the order of
\* the keys that stay, and evicts at most the last key of a full cache.
LEMMA LruPutKeeps ==
  ASSUME NEW K, NEW V, NEW c \in Seq(Entries(K, V)), UniqueKeys(c),
         NEW k \in K, NEW v \in V, NEW cap \in Nat, 0 < cap, Len(c) <= cap
  PROVE  LET p == LruPut(c, k, v, cap)
         IN  /\ p \in Seq(Entries(K, V)) /\ Len(p) <= cap /\ UniqueKeys(p)
             /\ k \in Keys(p) /\ At(p, k) = v /\ Ahead(p, k) = {}
             /\ \A t \in Keys(p) \ {k} :
                  /\ t \in Keys(c) /\ At(p, t) = At(c, t)
                  /\ Ahead(p, t) \subseteq Ahead(c, t) \cup {k}
             /\ \A t \in Keys(c) \ Keys(p) :
                  Len(c) = cap /\ k \notin Keys(c) /\ t = c[cap].key
  <1> DEFINE p == LruPut(c, k, v, cap)
  <1>0. /\ p \in Seq(Entries(K, V)) /\ Len(p) \in 1 .. cap
        /\ p[1] = [key |-> k, val |-> v]
        /\ Behind(c, k, cap, p)
    BY LruPutIs
  <1> HIDE DEF p
  <1>1. /\ p \in Seq(Entries(K, V)) /\ Len(p) \in 1 .. cap
        /\ p[1] = [key |-> k, val |-> v]
    BY <1>0
  <1>2. PICK from \in [2 .. Len(p) -> DOMAIN c] :
          /\ \A j \in 2 .. Len(p) : p[j] = c[from[j]] /\ p[j].key # k
          /\ \A j, l \in 2 .. Len(p) : j < l <=> from[j] < from[l]
          /\ \A l \in DOMAIN c :
               \/ c[l].key = k
               \/ \E j \in 2 .. Len(p) : from[j] = l
               \/ l = cap /\ k \notin Keys(c)
    BY <1>0 DEF Behind
  <1>3. /\ Len(c) \in Nat /\ DOMAIN c = 1 .. Len(c) /\ DOMAIN p = 1 .. Len(p)
        /\ 1 \in DOMAIN p /\ \A j \in DOMAIN p : j = 1 \/ j \in 2 .. Len(p)
    BY <1>1
  <1>4. \A j \in 2 .. Len(p) : from[j] \in 1 .. Len(c)
    BY <1>2, <1>3
  <1>5. \A j, l \in 2 .. Len(p) : from[j] = from[l] => j = l
    BY <1>2, <1>3, <1>4
  <1>6. UniqueKeys(p)
    <2> SUFFICES ASSUME NEW j \in DOMAIN p, NEW l \in DOMAIN p, p[j].key = p[l].key
                 PROVE  j = l
      BY DEF UniqueKeys
    <2>1. CASE j = 1 \/ l = 1
      BY <1>1, <1>2, <1>3, <2>1
    <2>2. CASE j # 1 /\ l # 1
      <3>1. j \in 2 .. Len(p) /\ l \in 2 .. Len(p)
        BY <1>3, <2>2
      <3>2. c[from[j]].key = c[from[l]].key
        BY <1>2, <3>1
      <3>3. from[j] = from[l]
        BY <1>3, <1>4, <3>1, <3>2 DEF UniqueKeys
      <3>4. QED
        BY <1>5, <3>1, <3>3
    <2>3. QED
      BY <2>1, <2>2
  <1>7. k \in Keys(p) /\ At(p, k) = v
    <2>1. p[1].key = k /\ p[1].val = v
      BY <1>1
    <2>2. QED
      BY <1>1, <1>3, <1>6, <2>1, AtIs
  <1>8. Ahead(p, k) = {}
    <2>1. \A m \in DOMAIN p : p[m].key = k => m = 1
      BY <1>2, <1>3
    <2>2. \A j, m \in DOMAIN p : p[m].key = k => ~ (j < m)
      BY <1>3, <2>1
    <2>3. QED
      BY <2>2 DEF Ahead
  <1>9. ASSUME NEW t \in Keys(p) \ {k}
        PROVE  /\ t \in Keys(c) /\ At(p, t) = At(c, t)
               /\ Ahead(p, t) \subseteq Ahead(c, t) \cup {k}
    <2>1. PICK m \in DOMAIN p : p[m].key = t
      BY <1>9 DEF Keys
    <2>2. m \in 2 .. Len(p) /\ p[m] = c[from[m]] /\ from[m] \in DOMAIN c
      BY <1>1, <1>2, <1>3, <1>9, <2>1
    <2>3. t \in Keys(c)
      BY <2>1, <2>2 DEF Keys
    <2>4. At(p, t) = p[m].val
      BY <1>1, <1>6, <2>1, AtIs
    <2>5. At(c, t) = c[from[m]].val
      BY <2>1, <2>2, AtIs
    <2>6. ASSUME NEW j \in DOMAIN p, NEW n \in DOMAIN p, p[n].key = t, j < n
          PROVE  p[j].key \in Ahead(c, t) \cup {k}
      <3>1. n = m
        BY <1>6, <2>1, <2>6 DEF UniqueKeys
      <3>2. CASE j = 1
        BY <1>1, <3>2
      <3>3. CASE j # 1
        <4>1. j \in 2 .. Len(p)
          BY <1>3, <3>3
        <4>2. p[j] = c[from[j]] /\ from[j] \in DOMAIN c /\ from[j] < from[m]
          BY <1>2, <2>2, <2>6, <3>1, <4>1
        <4>3. c[from[m]].key = t
          BY <2>1, <2>2
        <4>4. QED
          BY <2>2, <4>2, <4>3 DEF Ahead
      <3>4. QED
        BY <3>2, <3>3
    <2>7. Ahead(p, t) \subseteq Ahead(c, t) \cup {k}
      BY <2>6 DEF Ahead
    <2>8. QED
      BY <2>2, <2>3, <2>4, <2>5, <2>7
  <1>10. ASSUME NEW t \in Keys(c) \ Keys(p)
         PROVE  Len(c) = cap /\ k \notin Keys(c) /\ t = c[cap].key
    <2>1. PICK l \in DOMAIN c : c[l].key = t
      BY DEF Keys
    <2>2. c[l].key # k
      BY <1>7, <1>10, <2>1
    <2>3. \A j \in 2 .. Len(p) : from[j] # l
      <3> SUFFICES ASSUME NEW j \in 2 .. Len(p), from[j] = l PROVE FALSE
        OBVIOUS
      <3>1. p[j].key = t /\ j \in DOMAIN p
        BY <1>2, <1>3, <2>1
      <3>2. QED
        BY <1>10, <3>1 DEF Keys
    <2>4. l = cap /\ k \notin Keys(c)
      BY <1>2, <2>2, <2>3
    <2>5. l <= Len(c) /\ c[cap].key = t
      BY <1>3, <2>1, <2>4
    <2>6. Len(c) = cap
      <3>1. cap <= Len(c) /\ Len(c) \in Nat
        BY <1>3, <2>4, <2>5
      <3>2. QED
        BY <3>1
    <2>7. QED
      BY <2>4, <2>5, <2>6
  <1>11. QED
    BY <1>1, <1>6, <1>7, <1>8, <1>9, <1>10 DEF p

\* A key leaves a cache of cap entries only when cap other keys, the one that
\* is written included, have been used after it.
LEMMA EvictedAfterCap ==
  ASSUME NEW K, NEW V, NEW c \in Seq(Entries(K, V)), UniqueKeys(c),
         NEW k \in K, NEW v \in V, NEW cap \in Nat, 0 < cap, Len(c) <= cap,
         NEW t \in Keys(c) \ Keys(LruPut(c, k, v, cap)),
         NEW S, IsFiniteSet(S), Ahead(c, t) \cup {k} \subseteq S
  PROVE  Cardinality(S) >= cap
  <1>1. Len(c) = cap /\ k \notin Keys(c) /\ t = c[cap].key
    BY LruPutKeeps
  <1> DEFINE f == [j \in 1 .. cap |-> IF j = cap THEN k ELSE c[j].key]
  <1>2. DOMAIN c = 1 .. cap
    BY <1>1
  <1>3. \A j \in 1 .. cap - 1 : c[j].key \in S
    BY <1>1, <1>2 DEF Ahead
  <1>4. f \in [1 .. cap -> S]
    BY <1>3
  <1>5. \A i, j \in 1 .. cap : f[i] = f[j] => i = j
    BY <1>1, <1>2 DEF UniqueKeys, Keys
  <1>6. f \in Injection(1 .. cap, S)
    BY <1>4, <1>5 DEF Injection, IsInjective
  <1> HIDE DEF f
  <1>7. Cardinality(1 .. cap) <= Cardinality(S)
    BY <1>6, FS_Injection
  <1>8. Cardinality(1 .. cap) = cap
    BY FS_Interval
  <1>9. Cardinality(S) \in Nat
    BY FS_CardinalityType
  <1>10. QED
    BY <1>7, <1>8, <1>9

-----------------------------------------------------------------------------
(* The requests of handle_request as steps of the Tokens component. *)

\* Each action of the server uses the tokens the way Tokens allows, or not at all.
LEMMA RequestsAreTokenSteps == [Next]_vars => [TokensNext]_tokenVars
  <1> SUFFICES ASSUME [Next]_vars PROVE [TokensNext]_tokenVars
    OBVIOUS
  <1>1. ASSUME Begin, UNCHANGED issued PROVE TokensNext
    BY <1>1 DEF Begin, TokensNext, NoToken
  <1>2. ASSUME NEW ip \in Ips, Begin, GenerateToken(ip) PROVE TokensNext
    BY <1>2 DEF Begin, TokensNext, HandOut
  <1>3. CASE Filtered
    BY <1>3 DEF Filtered
  <1>4. CASE HandlePlain
    BY <1>1, <1>4 DEF HandlePlain
  <1>5. ASSUME NEW ip \in Ips, NEW h \in InfoHashes, HandleGetPeers(ip, h) PROVE TokensNext
    BY <1>2, <1>5 DEF HandleGetPeers
  <1>6. ASSUME NEW ip \in Ips, NEW t, NEW seq, HandleGetValue(ip, t, seq) PROVE TokensNext
    BY <1>2, <1>6 DEF HandleGetValue
  <1>7. ASSUME NEW ip \in Ips, NEW tok, NEW h, NEW id, NEW port,
               HandleAnnouncePeer(ip, tok, h, id, port)
        PROVE  TokensNext
    BY <1>1, <1>7 DEF HandleAnnouncePeer
  <1>8. ASSUME NEW ip \in Ips, NEW tok, NEW t, NEW flaws, HandlePutImmutable(ip, tok, t, flaws)
        PROVE  TokensNext
    BY <1>1, <1>8 DEF HandlePutImmutable
  <1>9. ASSUME NEW ip \in Ips, NEW tok, NEW t, NEW item, NEW cas, NEW flaws,
               HandlePutMutable(ip, tok, t, item, cas, flaws)
        PROVE  TokensNext
    BY <1>1, <1>9 DEF HandlePutMutable
  <1>10. CASE Tick
    BY <1>10 DEF Tick, TokensNext
  <1>11. CASE UNCHANGED vars
    BY <1>11 DEF vars
  <1>12. QED
    BY <1>3, <1>4, <1>5, <1>6, <1>7, <1>8, <1>9, <1>10, <1>11 DEF Next

\* Server::handle_request implements the Tokens component.
THEOREM ServerImplementsTokens == Spec => ImplementsTokens
  <1>1. Init => TokensInit
    BY DEF Init
  <1>2. QED
    BY <1>1, RequestsAreTokenSteps, PTL DEF Spec, ImplementsTokens, TokensSpec

\* So a server that also stores values accepts every token for RotateInterval.
THEOREM ServerAcceptsFreshTokens == Spec => []FreshTokenAccepted
  <1>1. QED
    BY ServerImplementsTokens, FreshTokensAccepted, PTL DEF ImplementsTokens

\* A request that refuses a token of the requester's own does so because it is old.
LEMMA RefusalsKeep ==
  ASSUME TokenInv, FreshTokenNotRefused, [Next]_vars
  PROVE  FreshTokenNotRefused'
  <1> USE TokensAssumption
  <1>1. ASSUME NEW ip, NEW tok, Begin, UNCHANGED issued, ~ Validate(ip, tok),
               reply' = BadToken(ip, tok)
        PROVE  FreshTokenNotRefused'
    <2> SUFFICES ASSUME NEW u \in (reply.refused \cap issued)'
                 PROVE  (now - u.at > RotateInterval)'
      BY DEF FreshTokenNotRefused
    <2>1. u = tok /\ tok \in issued /\ tok.ip = ip /\ now' = now
      BY <1>1 DEF BadToken, Begin
    <2>2. tok.secret \notin {prevSecret', currSecret'}
      BY <1>1, <2>1 DEF Validate
    <2>3. ~ WouldAccept(tok)
      BY <1>1, <2>2 DEF WouldAccept, Begin, RotateIfDue
    <2>4. ~ (now - tok.at <= RotateInterval)
      BY <2>1, <2>3, AgesImplyAccepted DEF FreshTokenAccepted
    <2>5. now \in Nat /\ tok.at \in Nat /\ RotateInterval \in Nat
      BY <2>1 DEF TokenInv, TokensTypeOK, Tokens
    <2>6. QED
      BY <2>1, <2>4, <2>5
  <1>2. ASSUME reply'.refused = {} PROVE FreshTokenNotRefused'
    BY <1>2 DEF FreshTokenNotRefused
  <1>3. CASE Filtered
    BY <1>2, <1>3 DEF Filtered, Reply
  <1>4. CASE HandlePlain
    BY <1>2, <1>4 DEF HandlePlain, Ack, Reply
  <1>5. ASSUME NEW ip \in Ips, NEW h \in InfoHashes, HandleGetPeers(ip, h)
        PROVE  FreshTokenNotRefused'
    BY <1>2, <1>5 DEF HandleGetPeers, Reply
  <1>6. ASSUME NEW ip \in Ips, NEW t, NEW seq, HandleGetValue(ip, t, seq)
        PROVE  FreshTokenNotRefused'
    BY <1>2, <1>6 DEF HandleGetValue, GetMutable, Reply
  <1>7. ASSUME NEW ip \in Ips, NEW tok, NEW h, NEW id, NEW port,
               HandleAnnouncePeer(ip, tok, h, id, port)
        PROVE  FreshTokenNotRefused'
    <2>1. CASE ~ Validate(ip, tok)
      BY <1>1, <1>7, <2>1 DEF HandleAnnouncePeer, Refuse
    <2>2. CASE Validate(ip, tok)
      BY <1>2, <1>7, <2>2 DEF HandleAnnouncePeer, Ack, Reply
    <2>3. QED
      BY <2>1, <2>2
  <1>8. ASSUME NEW ip \in Ips, NEW tok, NEW t, NEW flaws, HandlePutImmutable(ip, tok, t, flaws)
        PROVE  FreshTokenNotRefused'
    <2>1. CASE ~ Validate(ip, tok)
      BY <1>1, <1>8, <2>1 DEF HandlePutImmutable, Refuse
    <2>2. CASE Validate(ip, tok)
      BY <1>2, <1>8, <2>2 DEF HandlePutImmutable, Refuse, Error, Ack, Reply
    <2>3. QED
      BY <2>1, <2>2
  <1>9. ASSUME NEW ip \in Ips, NEW tok, NEW t, NEW item, NEW cas, NEW flaws,
               HandlePutMutable(ip, tok, t, item, cas, flaws)
        PROVE  FreshTokenNotRefused'
    <2>1. CASE ~ Validate(ip, tok)
      BY <1>1, <1>9, <2>1 DEF HandlePutMutable, Refuse
    <2>2. CASE Validate(ip, tok)
      <3>1. (\E code : reply' = Error(code)) \/ reply' = Ack
        BY <1>9, <2>2 DEF HandlePutMutable, Refuse, UseAndRefuse, StoreMutable
      <3>2. QED
        BY <1>2, <3>1 DEF Error, Ack, Reply
    <2>3. QED
      BY <2>1, <2>2
  <1>10. CASE Tick
    <2>1. reply' = reply /\ issued' = issued /\ now' = now + 1
      BY <1>10 DEF Tick, Advance
    <2>2. ASSUME NEW u \in reply.refused \cap issued PROVE now' - u.at > RotateInterval
      <3>1. now \in Nat /\ u.at \in Nat /\ RotateInterval \in Nat
        BY DEF TokenInv, TokensTypeOK, Tokens
      <3>2. now - u.at > RotateInterval
        BY DEF FreshTokenNotRefused
      <3>3. QED
        BY <2>1, <3>1, <3>2
    <2>3. QED
      BY <2>1, <2>2 DEF FreshTokenNotRefused
  <1>11. CASE UNCHANGED vars
    BY <1>11 DEF vars, tokenVars, FreshTokenNotRefused
  <1>12. QED
    BY <1>3, <1>4, <1>5, <1>6, <1>7, <1>8, <1>9, <1>10, <1>11 DEF Next

\* A put whose token the server handed out to that requester at most
\* RotateInterval ago is never answered with a bad token error.
THEOREM FreshTokensNotRefused == Spec => []FreshTokenNotRefused
  <1>1. Init => TokenInv /\ FreshTokenNotRefused
    BY TokenInvInit DEF Init, FreshTokenNotRefused, Reply
  <1>2. TokenInv /\ FreshTokenNotRefused /\ [Next]_vars => (TokenInv /\ FreshTokenNotRefused)'
    BY TokenInvStep, RequestsAreTokenSteps, RefusalsKeep
  <1>3. QED
    BY <1>1, <1>2, PTL DEF Spec

-----------------------------------------------------------------------------
(* The stores. *)

\* The caches of at most cap entries, one for each key.
Caches(K, V, cap) == {c \in Seq(Entries(K, V)) : UniqueKeys(c) /\ Len(c) <= cap}

\* No store outgrows its capacity or has two entries for one key, whatever is
\* requested: the LRU of info hashes and each one's LRU of peers (PeersStore),
\* the immutable values and the mutable items.
StoresBounded ==
  /\ peers \in Caches(InfoHashes, Caches(PeerIds, {"implied", "explicit"}, MaxPeers), MaxInfoHashes)
  /\ immutable \in Caches(Immutables, {"v"}, MaxImmutable)
  /\ mutable \in Caches(Mutables, Items, MaxMutable)

\* The histories, and their relation to the store of mutable items: what is ahead
\* of an item was used after it, so an item that was evicted had MaxMutable
\* others used after it; the seq of an item never falls behind what was promised.
Recency ==
  /\ touched \in [Mutables -> SUBSET Mutables]
  /\ \A t \in Mutables : IsFiniteSet(touched[t])
  /\ \A t \in Keys(mutable) : Ahead(mutable, t) \subseteq touched[t]

EvictedInTurn ==
  \A t \in Mutables : best[t] # {} /\ t \notin Keys(mutable) =>
    Cardinality(touched[t]) >= MaxMutable

NewestKept ==
  /\ best \in [Mutables -> SUBSET Seqs]
  /\ \A t \in Keys(mutable) : \A b \in best[t] : At(mutable, t).seq >= b

CasChain ==
  /\ casAcks \in [Mutables -> SUBSET (Seqs \X Items)]
  /\ \A t \in Keys(mutable) : \A a \in casAcks[t] :
       a[1] < a[2].seq /\ a[2].seq <= At(mutable, t).seq
  /\ CasUpdatesExclusive

MutableInv ==
  /\ mutable \in Caches(Mutables, Items, MaxMutable)
  /\ Recency /\ EvictedInTurn /\ NewestKept /\ CasChain

\* Reading a cache keeps its bound, its keys and its values.
LEMMA CacheGet ==
  ASSUME NEW K, NEW V, NEW cap \in Nat, NEW c \in Caches(K, V, cap), NEW k
  PROVE  /\ LruGet(c, k) \in Caches(K, V, cap)
         /\ Keys(LruGet(c, k)) = Keys(c) /\ Keys(c) \subseteq K
         /\ \A t \in Keys(c) : At(c, t) \in V /\ At(LruGet(c, k), t) = At(c, t)
         /\ \A t \in Keys(c) \ {k} : Ahead(LruGet(c, k), t) \subseteq Ahead(c, t) \cup {k}
         /\ k \in Keys(c) => Ahead(LruGet(c, k), k) = {}
  <1>1. c \in Seq(Entries(K, V)) /\ UniqueKeys(c) /\ Len(c) <= cap
    BY DEF Caches
  <1>2. \A i \in DOMAIN c : c[i].key \in K /\ At(c, c[i].key) \in V
    BY <1>1, AtIs
  <1>3. Keys(c) \subseteq K /\ \A t \in Keys(c) : At(c, t) \in V
    BY <1>2 DEF Keys
  <1> DEFINE g == LruGet(c, k)
  <1>4. /\ g \in Seq(Entries(K, V)) /\ Len(g) = Len(c)
        /\ UniqueKeys(g) /\ Keys(g) = Keys(c)
        /\ \A t \in Keys(c) : At(g, t) = At(c, t)
        /\ \A t \in Keys(c) \ {k} : Ahead(g, t) \subseteq Ahead(c, t) \cup {k}
        /\ k \in Keys(c) => Ahead(g, k) = {}
    BY <1>1, LruGetKeeps
  <1> HIDE DEF g
  <1>5. g \in Caches(K, V, cap)
    BY <1>1, <1>4 DEF Caches
  <1>6. QED
    BY <1>3, <1>4, <1>5 DEF g

\* Writing a cache keeps its bound.
LEMMA CachePut ==
  ASSUME NEW K, NEW V, NEW cap \in Nat, 0 < cap, NEW c \in Caches(K, V, cap),
         NEW k \in K, NEW v \in V
  PROVE  LruPut(c, k, v, cap) \in Caches(K, V, cap)
  <1>1. c \in Seq(Entries(K, V)) /\ UniqueKeys(c) /\ Len(c) <= cap
    BY DEF Caches
  <1> DEFINE p == LruPut(c, k, v, cap)
  <1>2. p \in Seq(Entries(K, V)) /\ UniqueKeys(p) /\ Len(p) <= cap
    BY <1>1, LruPutKeeps
  <1> HIDE DEF p
  <1>3. p \in Caches(K, V, cap)
    BY <1>2 DEF Caches
  <1>4. QED
    BY <1>3 DEF p

\* The capacities are positive.
LEMMA Capacities ==
  /\ MaxMutable \in Nat /\ 0 < MaxMutable
  /\ MaxImmutable \in Nat /\ 0 < MaxImmutable
  /\ MaxPeers \in Nat /\ 0 < MaxPeers
  /\ MaxInfoHashes \in Nat /\ 0 < MaxInfoHashes
  BY ServerAssumption

\* Using target t, which is counted against all other targets, keeps the
\* counts finite and never lowers another's.
LEMMA TouchKeeps ==
  ASSUME Recency, NEW t \in Mutables, Touch(t)
  PROVE  /\ touched' \in [Mutables -> SUBSET Mutables]
         /\ touched'[t] = {} /\ \A u \in Mutables \ {t} : touched'[u] = touched[u] \cup {t}
         /\ \A u \in Mutables : IsFiniteSet(touched'[u])
         /\ \A u \in Mutables \ {t} : Cardinality(touched'[u]) \in Nat
              /\ Cardinality(touched[u]) \in Nat
              /\ Cardinality(touched'[u]) >= Cardinality(touched[u])
  <1>1. /\ touched' \in [Mutables -> SUBSET Mutables]
        /\ touched'[t] = {} /\ \A u \in Mutables \ {t} : touched'[u] = touched[u] \cup {t}
    BY DEF Recency, Touch
  <1>2. ASSUME NEW u \in Mutables \ {t}
        PROVE  /\ IsFiniteSet(touched'[u]) /\ Cardinality(touched'[u]) \in Nat
               /\ Cardinality(touched[u]) \in Nat
               /\ Cardinality(touched'[u]) >= Cardinality(touched[u])
    <2>1. IsFiniteSet(touched[u])
      BY DEF Recency
    <2>2. IsFiniteSet(touched'[u])
      BY <1>1, <2>1, FS_AddElement
    <2>3. touched[u] \in SUBSET touched'[u]
      BY <1>1
    <2>4. Cardinality(touched[u]) <= Cardinality(touched'[u])
      BY <2>2, <2>3, FS_Subset
    <2>5. Cardinality(touched[u]) \in Nat /\ Cardinality(touched'[u]) \in Nat
      BY <2>1, <2>2, FS_CardinalityType
    <2>6. QED
      BY <2>2, <2>4, <2>5
  <1>3. IsFiniteSet(touched'[t])
    BY <1>1, FS_EmptySet
  <1>4. QED
    BY <1>1, <1>2, <1>3

\* Reading a mutable item, for an answer or for a put that is then refused,
\* keeps MutableInv.
LEMMA UseKeeps ==
  ASSUME MutableInv, NEW t, mutable' = LruGet(mutable, t),
         IF t \in Keys(mutable) THEN Touch(t) ELSE UNCHANGED touched,
         UNCHANGED <<best, casAcks>>
  PROVE  MutableInv'
  <1>0. mutable \in Caches(Mutables, Items, MaxMutable)
    BY DEF MutableInv
  <1>1. /\ mutable' \in Caches(Mutables, Items, MaxMutable)
        /\ Keys(mutable') = Keys(mutable) /\ Keys(mutable) \subseteq Mutables
        /\ \A u \in Keys(mutable) : At(mutable', u) = At(mutable, u)
        /\ \A u \in Keys(mutable) \ {t} : Ahead(mutable', u) \subseteq Ahead(mutable, u) \cup {t}
        /\ t \in Keys(mutable) => Ahead(mutable', t) = {}
    BY <1>0, Capacities, CacheGet
  <1>2. NewestKept' /\ CasChain'
    BY <1>1 DEF MutableInv, NewestKept, CasChain, CasUpdatesExclusive
  <1>3. CASE t \notin Keys(mutable)
    <2>1. mutable' = mutable /\ touched' = touched
      BY <1>3 DEF LruGet
    <2>2. QED
      BY <1>2, <2>1 DEF MutableInv, Recency, EvictedInTurn
  <1>4. CASE t \in Keys(mutable)
    <2>1. t \in Mutables /\ Touch(t) /\ Recency
      BY <1>1, <1>4 DEF MutableInv
    <2>2. /\ touched' \in [Mutables -> SUBSET Mutables]
          /\ touched'[t] = {} /\ \A u \in Mutables \ {t} : touched'[u] = touched[u] \cup {t}
          /\ \A u \in Mutables : IsFiniteSet(touched'[u])
          /\ \A u \in Mutables \ {t} : Cardinality(touched'[u]) \in Nat
               /\ Cardinality(touched[u]) \in Nat
               /\ Cardinality(touched'[u]) >= Cardinality(touched[u])
      BY <2>1, TouchKeeps
    <2>3. Recency'
      BY <1>1, <1>4, <2>1, <2>2 DEF Recency
    <2>4. EvictedInTurn'
      BY <1>1, <1>4, <2>2, Capacities DEF MutableInv, EvictedInTurn
    <2>5. QED
      BY <1>1, <1>2, <2>3, <2>4 DEF MutableInv
  <1>5. QED
    BY <1>3, <1>4

\* Storing a mutable item that does not conflict keeps MutableInv: the item it
\* may push out had MaxMutable others used after it, and the seq and the cas
\* were compared with what is stored.
LEMMA StoreKeeps ==
  ASSUME MutableInv, NEW t \in Mutables, NEW item \in Items, NEW cas \in CasValues,
         Conflict(t, item.seq, cas) = 0, StoreMutable(t, item, cas)
  PROVE  MutableInv'
  <1> DEFINE g == LruGet(mutable, t)
             C == Caches(Mutables, Items, MaxMutable)
  <1>0. mutable \in C
    BY DEF MutableInv
  <1>1. /\ g \in C
        /\ Keys(g) = Keys(mutable) /\ Keys(mutable) \subseteq Mutables
        /\ \A u \in Keys(mutable) : At(mutable, u) \in Items /\ At(g, u) = At(mutable, u)
        /\ \A u \in Keys(mutable) \ {t} : Ahead(g, u) \subseteq Ahead(mutable, u) \cup {t}
    BY <1>0, Capacities, CacheGet
  <1>2. mutable' = LruPut(g, t, item, MaxMutable)
    BY DEF StoreMutable
  <1> HIDE DEF g
  <1>3. mutable' \in C
    BY <1>1, <1>2, Capacities, CachePut
  <1>4. g \in Seq(Entries(Mutables, Items)) /\ UniqueKeys(g) /\ Len(g) <= MaxMutable
    BY <1>1 DEF Caches
  <1>5. /\ t \in Keys(mutable') /\ At(mutable', t) = item /\ Ahead(mutable', t) = {}
        /\ \A u \in Keys(mutable') \ {t} :
             /\ u \in Keys(g) /\ At(mutable', u) = At(g, u)
             /\ Ahead(mutable', u) \subseteq Ahead(g, u) \cup {t}
    BY <1>2, <1>4, Capacities, LruPutKeeps
  <1> HIDE DEF C
  <1>6. \A u \in Keys(mutable') \ {t} :
          /\ u \in Keys(mutable) /\ At(mutable', u) = At(mutable, u)
          /\ Ahead(mutable', u) \subseteq Ahead(mutable, u) \cup {t}
    BY <1>1, <1>5
  <1>7. Touch(t) /\ Recency /\ Remember(t, item, cas)
    BY DEF StoreMutable, MutableInv
  <1>8. /\ touched' \in [Mutables -> SUBSET Mutables]
        /\ touched'[t] = {} /\ \A u \in Mutables \ {t} : touched'[u] = touched[u] \cup {t}
        /\ \A u \in Mutables : IsFiniteSet(touched'[u])
        /\ \A u \in Mutables \ {t} : Cardinality(touched'[u]) \in Nat
             /\ Cardinality(touched[u]) \in Nat
             /\ Cardinality(touched'[u]) >= Cardinality(touched[u])
    BY <1>7, TouchKeeps
  <1>9. Recency'
    <2>1. \A u \in Keys(mutable') : Ahead(mutable', u) \subseteq touched'[u]
      BY <1>1, <1>5, <1>6, <1>7, <1>8 DEF Recency
    <2>2. QED
      BY <1>8, <2>1 DEF Recency
  <1>10. ASSUME NEW u \in Keys(mutable) \ Keys(mutable')
         PROVE  Cardinality(touched'[u]) >= MaxMutable
    <2>1. u # t /\ u \in Mutables /\ u \in Keys(g) \ Keys(LruPut(g, t, item, MaxMutable))
      BY <1>1, <1>2, <1>5
    <2>2. Ahead(g, u) \cup {t} \subseteq touched'[u]
      BY <1>1, <1>7, <1>8, <2>1 DEF Recency
    <2>3. QED
      BY <1>4, <1>8, <2>1, <2>2, Capacities, EvictedAfterCap
  <1>11. EvictedInTurn'
    <2> SUFFICES ASSUME NEW u \in Mutables, best'[u] # {}, u \notin Keys(mutable')
                 PROVE  Cardinality(touched'[u]) >= MaxMutable
      BY DEF EvictedInTurn
    <2>1. u # t /\ best'[u] = best[u]
      BY <1>5, <1>7 DEF Remember, MutableInv, NewestKept
    <2>2. CASE u \in Keys(mutable)
      BY <1>10, <2>2
    <2>3. CASE u \notin Keys(mutable)
      <3>1. Cardinality(touched[u]) >= MaxMutable
        BY <2>1, <2>3 DEF MutableInv, EvictedInTurn
      <3>2. /\ Cardinality(touched'[u]) \in Nat /\ Cardinality(touched[u]) \in Nat
            /\ Cardinality(touched'[u]) >= Cardinality(touched[u])
        BY <1>8, <2>1
      <3>3. QED
        BY <3>1, <3>2, Capacities
    <2>4. QED
      BY <2>2, <2>3
  <1>12. item.seq \in Nat /\ item.seq \in Seqs /\ Seqs \subseteq Nat
    BY ServerAssumption DEF Items
  <1>13. t \in Keys(mutable) =>
           /\ At(mutable, t).seq \in Nat /\ At(mutable, t).seq <= item.seq
           /\ \A c \in cas : c = At(mutable, t).seq
    <2> SUFFICES ASSUME t \in Keys(mutable)
                 PROVE  /\ At(mutable, t).seq \in Nat /\ At(mutable, t).seq <= item.seq
                        /\ \A c \in cas : c = At(mutable, t).seq
      OBVIOUS
    <2>1. At(mutable, t).seq \in Nat
      BY <1>1, <1>12 DEF Items
    <2>2. ~ CasMismatch(t, cas) /\ ~ (item.seq < At(mutable, t).seq)
      BY DEF Conflict
    <2>3. QED
      BY <1>12, <2>1, <2>2 DEF CasMismatch
  <1>14. NewestKept'
    <2>1. best \in [Mutables -> SUBSET Seqs]
      BY DEF MutableInv, NewestKept
    <2>2. best'[t] = {item.seq}
      <3>1. t \in Keys(mutable) => \A b \in best[t] : b \in Nat /\ ~ (b > item.seq)
        <4> SUFFICES ASSUME t \in Keys(mutable), NEW b \in best[t]
                     PROVE  b \in Nat /\ ~ (b > item.seq)
          OBVIOUS
        <4>1. b \in Nat
          BY <1>12, <2>1
        <4>2. At(mutable, t).seq >= b
          BY DEF MutableInv, NewestKept
        <4>3. QED
          BY <1>12, <1>13, <4>1, <4>2
      <3>2. QED
        BY <1>7, <2>1, <3>1 DEF Remember
    <2>3. best' \in [Mutables -> SUBSET Seqs] /\ \A u \in Mutables \ {t} : best'[u] = best[u]
      BY <1>7, <1>12, <2>1 DEF Remember
    <2>4. ASSUME NEW u \in Keys(mutable'), NEW b \in best'[u]
          PROVE  At(mutable', u).seq >= b
      <3>1. CASE u = t
        <4>1. b = item.seq /\ At(mutable', u) = item
          BY <1>5, <2>2, <2>4, <3>1
        <4>2. QED
          BY <1>12, <4>1
      <3>2. CASE u # t
        BY <1>1, <1>6, <2>3, <2>4, <3>2 DEF MutableInv, NewestKept
      <3>3. QED
        BY <3>1, <3>2
    <2>5. QED
      BY <2>3, <2>4 DEF NewestKept
  <1>15. CasChain'
    <2> DEFINE new == {<<c, item>> : c \in {d \in cas : d < item.seq}}
    <2>1. /\ casAcks \in [Mutables -> SUBSET (Seqs \X Items)]
          /\ CasUpdatesExclusive
          /\ \A u \in Keys(mutable) : \A a \in casAcks[u] :
               a[1] < a[2].seq /\ a[2].seq <= At(mutable, u).seq
      BY DEF MutableInv, CasChain
    <2>2. /\ casAcks'[t] = IF t \notin Keys(mutable) THEN {} ELSE casAcks[t] \cup new
          /\ casAcks' = [casAcks EXCEPT ![t] = casAcks'[t]]
      BY <1>7, <2>1 DEF Remember
    <2>3. cas \subseteq Seqs /\ new \subseteq Seqs \X Items
      BY DEF CasValues
    <2>4. casAcks' \in [Mutables -> SUBSET (Seqs \X Items)]
          /\ \A u \in Mutables \ {t} : casAcks'[u] = casAcks[u]
      <3>1. casAcks'[t] \in SUBSET (Seqs \X Items)
        BY <2>1, <2>2, <2>3
      <3> HIDE DEF new
      <3>2. QED
        BY <2>1, <2>2, <3>1
    <2>5. \A a \in new : a[1] \in cas /\ a[1] < item.seq /\ a[2] = item
      OBVIOUS
    <2> HIDE DEF new
    <2>6. ASSUME NEW a \in casAcks'[t]
          PROVE  a[1] < a[2].seq /\ a[2].seq <= item.seq
      <3>1. t \in Keys(mutable) /\ (a \in casAcks[t] \/ a \in new)
        BY <2>2, <2>6
      <3>2. CASE a \in casAcks[t]
        <4>1. a[1] < a[2].seq /\ a[2].seq <= At(mutable, t).seq
          BY <2>1, <3>1, <3>2
        <4>2. a[2].seq \in Nat
          <5>1. a \in Seqs \X Items
            BY <2>1, <3>2
          <5>2. QED
            BY <1>12, <5>1 DEF Items
        <4>3. QED
          BY <1>12, <1>13, <3>1, <4>1, <4>2
      <3>3. CASE a \in new
        <4>1. a[1] < item.seq /\ a[2] = item
          BY <2>5, <3>3
        <4>2. QED
          BY <1>12, <4>1
      <3>4. QED
        BY <3>1, <3>2, <3>3
    <2>7. ASSUME NEW u \in Keys(mutable'), NEW a \in casAcks'[u]
          PROVE  a[1] < a[2].seq /\ a[2].seq <= At(mutable', u).seq
      <3>1. CASE u = t
        BY <1>5, <2>6, <2>7, <3>1
      <3>2. CASE u # t
        BY <1>1, <1>6, <2>1, <2>4, <2>7, <3>2
      <3>3. QED
        BY <3>1, <3>2
    <2>8. ASSUME NEW a \in casAcks'[t], NEW b \in casAcks'[t], a[1] = b[1]
          PROVE  a = b
      <3>1. t \in Keys(mutable) /\ {a, b} \subseteq casAcks[t] \cup new
        BY <2>2, <2>8
      <3>2. ASSUME NEW x \in casAcks[t], NEW y \in new PROVE x[1] # y[1]
        <4>1. x[1] < x[2].seq /\ x[2].seq <= At(mutable, t).seq
          BY <2>1, <3>1, <3>2
        <4>2. y[1] = At(mutable, t).seq
          BY <1>13, <2>5, <3>1, <3>2
        <4>3. x[1] \in Nat /\ x[2].seq \in Nat /\ y[1] \in Nat
          <5>1. x \in Seqs \X Items
            BY <2>1, <3>2
          <5>2. x[1] \in Nat /\ x[2].seq \in Nat
            BY <1>12, <5>1 DEF Items
          <5>3. QED
            BY <1>13, <3>1, <4>2, <5>2
        <4>4. QED
          BY <4>1, <4>2, <4>3
      <3>3. ASSUME NEW x \in new, NEW y \in new PROVE x = y
        BY <1>13, <2>5, <3>1, <3>3 DEF new
      <3>4. CASE a \in casAcks[t] /\ b \in casAcks[t]
        BY <2>1, <2>8, <3>4 DEF CasUpdatesExclusive
      <3>5. QED
        BY <2>8, <3>1, <3>2, <3>3, <3>4
    <2>9. CasUpdatesExclusive'
      BY <2>1, <2>4, <2>8 DEF CasUpdatesExclusive
    <2>10. QED
      BY <2>4, <2>7, <2>9 DEF CasChain
  <1>16. QED
    BY <1>3, <1>9, <1>11, <1>14, <1>15 DEF MutableInv, C

\* Every request keeps MutableInv.
LEMMA MutableInvStep == MutableInv /\ [Next]_vars => MutableInv'
  <1> SUFFICES ASSUME MutableInv, [Next]_vars PROVE MutableInv'
    OBVIOUS
  <1>0. ASSUME UNCHANGED <<mutable, touched, best, casAcks>> PROVE MutableInv'
    BY <1>0 DEF MutableInv, Recency, EvictedInTurn, NewestKept, CasChain, CasUpdatesExclusive
  <1>1. CASE Filtered
    BY <1>0, <1>1 DEF Filtered, storeVars
  <1>2. CASE HandlePlain
    BY <1>0, <1>2 DEF HandlePlain, storeVars
  <1>3. ASSUME NEW ip \in Ips, NEW h \in InfoHashes, HandleGetPeers(ip, h) PROVE MutableInv'
    BY <1>0, <1>3 DEF HandleGetPeers
  <1>4. ASSUME NEW ip \in Ips, NEW t, NEW seq, HandleGetValue(ip, t, seq) PROVE MutableInv'
    <2>1. CASE UNCHANGED <<mutable, touched>>
      BY <1>0, <1>4, <2>1 DEF HandleGetValue
    <2>2. CASE GetMutable(t, seq)
      BY <1>4, <2>2, UseKeeps DEF HandleGetValue, GetMutable
    <2>3. QED
      BY <1>4, <2>1, <2>2 DEF HandleGetValue
  <1>5. ASSUME NEW ip \in Ips, NEW tok, NEW h, NEW id, NEW port,
               HandleAnnouncePeer(ip, tok, h, id, port)
        PROVE  MutableInv'
    BY <1>0, <1>5 DEF HandleAnnouncePeer, Refuse, storeVars
  <1>6. ASSUME NEW ip \in Ips, NEW tok, NEW t, NEW flaws, HandlePutImmutable(ip, tok, t, flaws)
        PROVE  MutableInv'
    BY <1>0, <1>6 DEF HandlePutImmutable, Refuse, storeVars
  <1>7. ASSUME NEW ip \in Ips, NEW tok, NEW t \in Mutables, NEW item \in Items,
               NEW cas \in CasValues, NEW flaws,
               HandlePutMutable(ip, tok, t, item, cas, flaws)
        PROVE  MutableInv'
    <2>1. ASSUME NEW error, Refuse(error) PROVE MutableInv'
      BY <1>0, <2>1 DEF Refuse, storeVars
    <2>2. ASSUME NEW code, UseAndRefuse(t, code) PROVE MutableInv'
      BY <2>2, UseKeeps DEF UseAndRefuse
    <2>3. CASE Conflict(t, item.seq, cas) = 0 /\ StoreMutable(t, item, cas)
      BY <2>3, StoreKeeps
    <2>4. QED
      BY <1>7, <2>1, <2>2, <2>3 DEF HandlePutMutable
  <1>8. CASE Tick
    BY <1>0, <1>8 DEF Tick, storeVars
  <1>9. CASE UNCHANGED vars
    BY <1>0, <1>9 DEF vars, storeVars
  <1>10. QED
    BY <1>1, <1>2, <1>3, <1>4, <1>5, <1>6, <1>7, <1>8, <1>9 DEF Next

\* A server starts with empty stores and has promised nothing.
LEMMA StoresInit == Init => MutableInv /\ StoresBounded
  <1> SUFFICES ASSUME Init PROVE MutableInv /\ StoresBounded
    OBVIOUS
  <1>1. ASSUME NEW K, NEW V, NEW cap \in Nat PROVE <<>> \in Caches(K, V, cap)
    BY DEF Caches, UniqueKeys
  <1>2. StoresBounded
    BY <1>1, Capacities DEF Init, StoresBounded
  <1>3. Keys(mutable) = {}
    BY DEF Init, Keys
  <1>4. Recency
    BY <1>3, FS_EmptySet DEF Init, Recency
  <1>5. EvictedInTurn /\ NewestKept /\ CasChain
    BY <1>3 DEF Init, EvictedInTurn, NewestKept, CasChain, CasUpdatesExclusive
  <1>6. QED
    BY <1>2, <1>4, <1>5 DEF StoresBounded, MutableInv

\* An item that Server::handle_request acknowledged can be read back until
\* MaxMutable other targets were used after it, for every capacity and every
\* sequence of requests.
THEOREM AcknowledgedItemsKept == Spec => []AcknowledgedItemKept
  <1>1. MutableInv => AcknowledgedItemKept
    <2> SUFFICES ASSUME MutableInv, NEW t \in Mutables, best[t] # {},
                        Cardinality(touched[t]) < MaxMutable
                 PROVE  t \in Keys(mutable) /\ \A b \in best[t] : At(mutable, t).seq >= b
      BY DEF AcknowledgedItemKept
    <2>1. Cardinality(touched[t]) \in Nat
      BY FS_CardinalityType DEF MutableInv, Recency
    <2>2. t \in Keys(mutable)
      BY <2>1, Capacities DEF MutableInv, EvictedInTurn
    <2>3. QED
      BY <2>2 DEF MutableInv, NewestKept
  <1>2. QED
    BY <1>1, StoresInit, MutableInvStep, PTL DEF Spec

\* No lost update: of the puts that name the same seq as cas, one is acknowledged.
THEOREM CasUpdatesAreExclusive == Spec => []CasUpdatesExclusive
  <1>1. MutableInv => CasUpdatesExclusive
    BY DEF MutableInv, CasChain
  <1>2. QED
    BY <1>1, StoresInit, MutableInvStep, PTL DEF Spec

\* Every request keeps the stores of peers and of immutable values in bounds.
LEMMA StoresBoundedStep == StoresBounded /\ MutableInv' /\ [Next]_vars => StoresBounded'
  <1> DEFINE Ports == {"implied", "explicit"}
             P == Caches(PeerIds, Ports, MaxPeers)
  <1> SUFFICES ASSUME StoresBounded, MutableInv', [Next]_vars
               PROVE  /\ peers' \in Caches(InfoHashes, P, MaxInfoHashes)
                      /\ immutable' \in Caches(Immutables, {"v"}, MaxImmutable)
    BY DEF StoresBounded, MutableInv
  <1>0. /\ peers \in Caches(InfoHashes, P, MaxInfoHashes)
        /\ immutable \in Caches(Immutables, {"v"}, MaxImmutable)
    BY DEF StoresBounded
  <1> HIDE DEF P
  <1> DEFINE Goal == /\ peers' \in Caches(InfoHashes, P, MaxInfoHashes)
                     /\ immutable' \in Caches(Immutables, {"v"}, MaxImmutable)
  <1>1. ASSUME UNCHANGED <<peers, immutable>> PROVE Goal
    BY <1>0, <1>1
  <1>2. CASE Filtered
    BY <1>1, <1>2 DEF Filtered, storeVars
  <1>3. CASE HandlePlain
    BY <1>1, <1>3 DEF HandlePlain, storeVars
  <1>4. ASSUME NEW ip \in Ips, NEW h \in InfoHashes, HandleGetPeers(ip, h) PROVE Goal
    BY <1>0, <1>4, Capacities, CacheGet DEF HandleGetPeers
  <1>5. ASSUME NEW ip \in Ips, NEW t, NEW seq, HandleGetValue(ip, t, seq) PROVE Goal
    BY <1>0, <1>5, Capacities, CacheGet DEF HandleGetValue
  <1>6. ASSUME NEW ip \in Ips, NEW tok, NEW h \in InfoHashes, NEW id \in PeerIds,
               NEW port \in Ports, HandleAnnouncePeer(ip, tok, h, id, port)
        PROVE  Goal
    <2>1. CASE UNCHANGED <<peers, immutable>>
      BY <1>1, <2>1
    <2>2. CASE peers' = AddPeer(h, id, port) /\ UNCHANGED immutable
      <3> DEFINE of == IF h \in Keys(peers) THEN At(peers, h) ELSE <<>>
      <3>1. <<>> \in Caches(PeerIds, Ports, MaxPeers)
        BY Capacities DEF Caches, UniqueKeys
      <3>2. \A t \in Keys(peers) : At(peers, t) \in P
        BY <1>0, Capacities, CacheGet
      <3>3. of \in Caches(PeerIds, Ports, MaxPeers)
        BY <3>1, <3>2 DEF P
      <3> HIDE DEF of
      <3>4. LruPut(of, id, port, MaxPeers) \in P
        BY <1>6, <3>3, Capacities, CachePut DEF P
      <3>5. peers' = LruPut(peers, h, LruPut(of, id, port, MaxPeers), MaxInfoHashes)
        BY <2>2 DEF AddPeer, of
      <3>6. QED
        BY <1>0, <2>2, <3>4, <3>5, Capacities, CachePut
    <2>3. QED
      BY <1>6, <2>1, <2>2 DEF HandleAnnouncePeer, Refuse, storeVars
  <1>7. ASSUME NEW ip \in Ips, NEW tok, NEW t \in Immutables, NEW flaws,
               HandlePutImmutable(ip, tok, t, flaws)
        PROVE  Goal
    <2>1. CASE UNCHANGED <<peers, immutable>>
      BY <1>1, <2>1
    <2>2. CASE immutable' = LruPut(immutable, t, "v", MaxImmutable) /\ UNCHANGED peers
      BY <1>0, <2>2, Capacities, CachePut
    <2>3. QED
      BY <1>7, <2>1, <2>2 DEF HandlePutImmutable, Refuse, storeVars
  <1>8. ASSUME NEW ip \in Ips, NEW tok, NEW t, NEW item, NEW cas, NEW flaws,
               HandlePutMutable(ip, tok, t, item, cas, flaws)
        PROVE  Goal
    BY <1>1, <1>8 DEF HandlePutMutable, Refuse, UseAndRefuse, StoreMutable, storeVars
  <1>9. CASE Tick
    BY <1>1, <1>9 DEF Tick, storeVars
  <1>10. CASE UNCHANGED vars
    BY <1>1, <1>10 DEF vars, storeVars
  <1>11. QED
    BY <1>2, <1>3, <1>4, <1>5, <1>6, <1>7, <1>8, <1>9, <1>10 DEF Next

\* The stores of a server stay within their capacities and hold each key once.
THEOREM StoresStayBounded == Spec => []StoresBounded
  <1>1. QED
    BY StoresInit, MutableInvStep, StoresBoundedStep, PTL DEF Spec
=============================================================================
