------------------------- MODULE RoutingTableProofs -------------------------
(***************************************************************************)
(* The routing table stays well formed, holds no dead node for long, loses *)
(* a node only for cause, and shows all it has to whoever reads it.        *)
(*                                                                         *)
(* Buckets are sequences: Picks says that one sequence has the elements of *)
(* another at some positions, in their order, which is what Vec::remove    *)
(* and Vec::retain do.  Retained is a recursive function; what it computes *)
(* is proved by least counterexample (LeastNat).  WellFormed needs to know *)
(* that no node was seen in the future, NothingLingers that none was stale *)
(* at the last upkeep: TableInv adds both.                                 *)
(*                                                                         *)
(* The iterator's cursor only goes forward, so what it yields from each    *)
(* cursor is defined (IteratorDefined), and from the last bucket down it   *)
(* is every node that is left, once (IteratedOnce).  closest() inserts     *)
(* these nodes one by one, and each insertion keeps the list in order      *)
(* (AddClosestGood).                                                       *)
(***************************************************************************)
EXTENDS RoutingTable, Integers, FiniteSetTheorems, SequenceTheorems, NaturalsInduction, TLAPS

\* A set of numbers has a least one: what induction over data rests on here.
LEMMA LeastNat ==
  ASSUME NEW T \in SUBSET Nat, T # {}
  PROVE  \E n \in T : \A m \in T : n <= m
  <1>1. IsWellFoundedOn(OpToRel(<, Nat), Nat)
    BY NatLessThanWellFounded
  <1>2. PICK n \in T : \A m \in T : ~ (<<m, n>> \in OpToRel(<, Nat))
    BY <1>1, WFMin
  <1>3. \A m \in T : ~ (m < n)
    BY <1>2 DEF OpToRel
  <1>4. QED
    BY <1>3

\* The sequence t has the elements of s at the positions in I, in their order.
Picks(t, s, I) ==
  \E from \in [1 .. Len(t) -> I] :
    /\ \A j \in 1 .. Len(t) : t[j] = s[from[j]]
    /\ \A j, l \in 1 .. Len(t) : j < l => from[j] < from[l]
    /\ \A i \in I : \E j \in 1 .. Len(t) : from[j] = i

\* One more position picks one more element.
LEMMA PicksAppend ==
  ASSUME NEW S, NEW s \in Seq(S), NEW t \in Seq(S), NEW n \in 1 .. Len(s),
         NEW I, I \subseteq 1 .. n - 1, Picks(t, s, I)
  PROVE  Append(t, s[n]) \in Seq(S) /\ Picks(Append(t, s[n]), s, I \cup {n})
  <1>1. PICK from \in [1 .. Len(t) -> I] :
          /\ \A j \in 1 .. Len(t) : t[j] = s[from[j]]
          /\ \A j, l \in 1 .. Len(t) : j < l => from[j] < from[l]
          /\ \A i \in I : \E j \in 1 .. Len(t) : from[j] = i
    BY DEF Picks
  <1>2. PICK m \in Nat : m = Len(t)
    OBVIOUS
  <1> DEFINE u == Append(t, s[n])
             to == [j \in 1 .. m + 1 |-> IF j = m + 1 THEN n ELSE from[j]]
  <1>3. n \in Nat /\ s[n] \in S
    OBVIOUS
  <1>4. /\ u \in Seq(S) /\ Len(u) = m + 1 /\ u[m + 1] = s[n]
        /\ \A j \in 1 .. m : u[j] = t[j]
    BY <1>2, <1>3
  <1> HIDE DEF u
  <1>5. to \in [1 .. Len(u) -> I \cup {n}]
    BY <1>2, <1>4
  <1>6. \A j \in 1 .. Len(u) : u[j] = s[to[j]]
    BY <1>1, <1>2, <1>4
  <1>7. \A j \in 1 .. m : from[j] \in Nat /\ from[j] < n
    <2> TAKE j \in 1 .. m
    <2>1. from[j] \in 1 .. n - 1
      BY <1>2
    <2>2. QED
      BY <1>3, <2>1
  <1>8. \A j, l \in 1 .. Len(u) : j < l => to[j] < to[l]
    BY <1>1, <1>2, <1>4, <1>7
  <1>9. \A i \in I \cup {n} : \E j \in 1 .. Len(u) : to[j] = i
    <2> TAKE i \in I \cup {n}
    <2>1. CASE i = n
      <3>1. m + 1 \in 1 .. Len(u) /\ to[m + 1] = i
        BY <1>4, <2>1
      <3>2. QED
        BY <3>1
    <2>2. CASE i \in I
      <3>1. PICK j \in 1 .. m : from[j] = i
        BY <1>1, <1>2, <2>2
      <3>2. j \in 1 .. Len(u) /\ to[j] = i
        BY <1>4, <3>1
      <3>3. QED
        BY <3>2
    <2>3. QED
      BY <2>1, <2>2
  <1> HIDE DEF to
  <1>10. QED
    BY <1>4, <1>5, <1>6, <1>8, <1>9 DEF Picks, u

\* Vec::retain keeps exactly the nodes it is told to, in their order.
LEMMA RetainedPicks ==
  ASSUME NEW S, NEW s \in Seq(S), NEW kept \in SUBSET DOMAIN s
  PROVE  Retained(s, kept) \in Seq(S) /\ Picks(Retained(s, kept), s, kept)
  <1> DEFINE Next1(f, n) == IF n \in kept THEN Append(f[n - 1], s[n]) ELSE f[n - 1]
             Good(f, m) == /\ f \in [0 .. m -> Seq(S)] /\ f[0] = <<>>
                           /\ \A n \in 1 .. m : f[n] = Next1(f, n)
                           /\ \A n \in 0 .. m : Picks(f[n], s, kept \cap 1 .. n)
  <1>0. Len(s) \in Nat /\ DOMAIN s = 1 .. Len(s)
    OBVIOUS
  <1>1. \A m \in 0 .. Len(s) : \E f : Good(f, m)
    <2> DEFINE Bad == {m \in 0 .. Len(s) : ~ \E f : Good(f, m)}
    <2> SUFFICES ASSUME Bad # {} PROVE FALSE
      OBVIOUS
    <2>0. Bad \in SUBSET Nat
      BY <1>0
    <2> HIDE DEF Bad, Good
    <2>1. PICK m \in Bad : \A l \in Bad : m <= l
      BY <2>0, LeastNat
    <2>2. m \in 0 .. Len(s) /\ ~ \E f : Good(f, m)
      BY DEF Bad
    <2>3. CASE m = 0
      <3> DEFINE f == [n \in 0 .. 0 |-> <<>>]
      <3>1. Picks(<<>>, s, {})
        <4> DEFINE none == [j \in 1 .. 0 |-> 0]
        <4>1. none \in [1 .. Len(<<>>) -> {}] /\ 1 .. Len(<<>>) = {}
          OBVIOUS
        <4> HIDE DEF none
        <4>2. QED
          BY <4>1 DEF Picks
      <3>2. kept \cap 1 .. 0 = {}
        OBVIOUS
      <3>3. Good(f, 0)
        BY <3>1, <3>2 DEF Good
      <3>4. QED
        BY <2>2, <2>3, <3>3
    <2>4. CASE m # 0
      <3>0. m \in Nat /\ m >= 1 /\ m \in DOMAIN s /\ m - 1 \in 0 .. Len(s)
        BY <1>0, <2>2, <2>4
      <3>1. m - 1 \notin Bad
        <4>1. ~ (m <= m - 1)
          BY <3>0
        <4>2. QED
          BY <2>1, <4>1
      <3>2. PICK f : Good(f, m - 1)
        BY <3>0, <3>1 DEF Bad
      <3> DEFINE x == Next1(f, m)
                 g == [n \in 0 .. m |-> IF n = m THEN x ELSE f[n]]
      <3>3. x \in Seq(S) /\ Picks(x, s, kept \cap 1 .. m)
        <4>1. f[m - 1] \in Seq(S) /\ Picks(f[m - 1], s, kept \cap 1 .. m - 1)
          BY <3>0, <3>2 DEF Good
        <4>2. CASE m \in kept
          <5>1. kept \cap 1 .. m = (kept \cap 1 .. m - 1) \cup {m}
            BY <3>0, <4>2
          <5>2. kept \cap 1 .. m - 1 \subseteq 1 .. m - 1 /\ m \in 1 .. Len(s)
            BY <1>0, <3>0
          <5>3. /\ Append(f[m - 1], s[m]) \in Seq(S)
                /\ Picks(Append(f[m - 1], s[m]), s, (kept \cap 1 .. m - 1) \cup {m})
            BY <4>1, <5>2, PicksAppend
          <5>4. QED
            BY <4>2, <5>1, <5>3
        <4>3. CASE m \notin kept
          <5>1. kept \cap 1 .. m = kept \cap 1 .. m - 1
            BY <3>0, <4>3
          <5>2. QED
            BY <4>1, <4>3, <5>1
        <4>4. QED
          BY <4>2, <4>3
      <3>4. g \in [0 .. m -> Seq(S)] /\ g[0] = <<>>
        BY <3>0, <3>2, <3>3 DEF Good
      <3>5. ASSUME NEW n \in 1 .. m PROVE g[n] = Next1(g, n)
        <4>1. g[n - 1] = f[n - 1] /\ n - 1 \in 0 .. m - 1
          BY <3>0
        <4>2. CASE n = m
          BY <3>0, <4>1, <4>2
        <4>3. CASE n # m
          <5>1. n \in 1 .. m - 1 /\ g[n] = f[n]
            BY <3>0, <4>3
          <5>2. QED
            BY <3>2, <4>1, <5>1 DEF Good
        <4>4. QED
          BY <4>2, <4>3
      <3>6. ASSUME NEW n \in 0 .. m PROVE Picks(g[n], s, kept \cap 1 .. n)
        <4>1. CASE n = m
          BY <3>3, <4>1
        <4>2. CASE n # m
          <5>1. n \in 0 .. m - 1 /\ g[n] = f[n]
            BY <3>0, <4>2
          <5>2. QED
            BY <3>2, <5>1 DEF Good
        <4>3. QED
          BY <4>1, <4>2
      <3> HIDE DEF g
      <3>7. Good(g, m)
        BY <3>4, <3>5, <3>6 DEF Good
      <3>8. QED
        BY <2>2, <3>7
    <2>5. QED
      BY <2>3, <2>4
  <1>2. PICK f : Good(f, Len(s))
    <2> HIDE DEF Good
    <2>1. Len(s) \in 0 .. Len(s)
      BY <1>0
    <2>2. QED
      BY <1>1, <2>1
  <1> DEFINE Body(h) == [n \in 0 .. Len(s) |->
               IF n = 0 THEN <<>>
               ELSE IF n \in kept THEN Append(h[n - 1], s[n]) ELSE h[n - 1]]
             F == CHOOSE h : h = Body(h)
  <1>3. f = Body(f)
    <2>1. ASSUME NEW n \in 0 .. Len(s) PROVE f[n] = Body(f)[n]
      <3>1. CASE n = 0
        BY <1>2, <3>1
      <3>2. CASE n # 0
        <4>1. n \in 1 .. Len(s)
          BY <1>0, <3>2
        <4>2. f[n] = Next1(f, n)
          BY <1>2, <4>1
        <4>3. QED
          BY <3>2, <4>2
      <3>3. QED
        BY <3>1, <3>2
    <2>2. f = [n \in 0 .. Len(s) |-> f[n]]
      BY <1>2
    <2>3. Body(f) = [n \in 0 .. Len(s) |-> Body(f)[n]]
      OBVIOUS
    <2> HIDE DEF Body
    <2>4. QED
      BY <2>1, <2>2, <2>3
  <1>4. F = Body(F)
    BY <1>3
  <1>5. \A n \in 0 .. Len(s) : F[n] = f[n]
    <2> DEFINE Bad == {n \in 0 .. Len(s) : F[n] # f[n]}
    <2> SUFFICES ASSUME Bad # {} PROVE FALSE
      OBVIOUS
    <2>0. Bad \in SUBSET Nat
      BY <1>0
    <2> HIDE DEF F, Bad, Good
    <2>1. PICK n \in Bad : \A l \in Bad : n <= l
      BY <2>0, LeastNat
    <2>2. n \in 0 .. Len(s) /\ F[n] # f[n]
      BY DEF Bad
    <2>3. F[n] = Body(F)[n] /\ f[n] = Body(f)[n]
      BY <1>3, <1>4
    <2>4. CASE n = 0
      BY <2>2, <2>3, <2>4
    <2>5. CASE n # 0
      <3>1. n - 1 \in 0 .. Len(s) /\ ~ (n <= n - 1)
        BY <1>0, <2>2, <2>5
      <3>2. F[n - 1] = f[n - 1]
        BY <2>1, <3>1 DEF Bad
      <3>3. QED
        BY <2>2, <2>3, <2>5, <3>2
    <2>6. QED
      BY <2>4, <2>5
  <1>6. Retained(s, kept) = F[Len(s)]
    BY DEF Retained
  <1>7. kept \cap 1 .. Len(s) = kept
    BY <1>0
  <1>8. Retained(s, kept) = f[Len(s)]
    BY <1>0, <1>5, <1>6
  <1>9. QED
    BY <1>0, <1>2, <1>7, <1>8

\* Vec::remove keeps the order of the others.
LEMMA RemovedPicks ==
  ASSUME NEW S, NEW s \in Seq(S), NEW i \in DOMAIN s
  PROVE  /\ Removed(s, i) \in Seq(S) /\ Len(Removed(s, i)) = Len(s) - 1
         /\ Picks(Removed(s, i), s, DOMAIN s \ {i})
  <1>1. PICK n \in Nat : n = Len(s)
    OBVIOUS
  <1>2. DOMAIN s = 1 .. n /\ i \in 1 .. n
    BY <1>1
  <1>3. \A j \in 1 .. n : s[j] \in S
    BY <1>2
  <1> DEFINE a == SubSeq(s, 1, i - 1)
             b == SubSeq(s, i + 1, n)
             t == Removed(s, i)
  <1>4. a \in Seq(S) /\ Len(a) = i - 1 /\ \A j \in 1 .. i - 1 : a[j] = s[j]
    BY <1>2, <1>3, SubSeqProperties
  <1>5. b \in Seq(S) /\ Len(b) = n - i /\ \A j \in 1 .. n - i : b[j] = s[i + j]
    BY <1>2, <1>3, SubSeqProperties
  <1>6. t = a \o b
    BY <1>1 DEF Removed
  <1> HIDE DEF a, b, t
  <1>7. /\ t \in Seq(S) /\ Len(t) = n - 1
        /\ \A j \in 1 .. n - 1 : t[j] = IF j <= i - 1 THEN a[j] ELSE b[j - (i - 1)]
    <2>1. /\ a \o b \in Seq(S) /\ Len(a \o b) = Len(a) + Len(b)
          /\ \A j \in 1 .. Len(a) + Len(b) :
               (a \o b)[j] = IF j <= Len(a) THEN a[j] ELSE b[j - Len(a)]
      BY <1>4, <1>5, ConcatProperties, Zenon
    <2>2. (i - 1) + (n - i) = n - 1
      BY <1>2
    <2>3. Len(a) = i - 1 /\ Len(a) + Len(b) = n - 1
      BY <1>4, <1>5, <2>2, Zenon
    <2>4. QED
      BY <1>6, <2>1, <2>3, Zenon
  <1> DEFINE from == [j \in 1 .. n - 1 |-> IF j < i THEN j ELSE j + 1]
  <1>8. from \in [1 .. Len(t) -> DOMAIN s \ {i}]
    BY <1>2, <1>7
  <1>9. \A j \in 1 .. Len(t) : t[j] = s[from[j]]
    <2> TAKE j \in 1 .. Len(t)
    <2>1. CASE j < i
      BY <1>2, <1>4, <1>7, <2>1
    <2>2. CASE j >= i
      <3>1. j - (i - 1) \in 1 .. n - i /\ j \in 1 .. n - 1
        BY <1>2, <1>7, <2>2
      <3>2. t[j] = b[j - (i - 1)]
        BY <1>2, <1>7, <2>2, <3>1
      <3>3. b[j - (i - 1)] = s[j + 1]
        <4>1. b[j - (i - 1)] = s[i + (j - (i - 1))]
          BY <1>5, <3>1, Zenon
        <4>2. i + (j - (i - 1)) = j + 1
          BY <1>2, <3>1
        <4>3. QED
          BY <4>1, <4>2, Zenon
      <3>4. QED
        BY <1>2, <2>2, <3>1, <3>2, <3>3
    <2>3. QED
      BY <1>2, <1>7, <2>1, <2>2
  <1>10. \A j, l \in 1 .. Len(t) : j < l => from[j] < from[l]
    BY <1>2, <1>7
  <1>11. \A l \in DOMAIN s \ {i} : \E j \in 1 .. Len(t) : from[j] = l
    <2> TAKE l \in DOMAIN s \ {i}
    <2>1. CASE l < i
      <3>1. l \in 1 .. Len(t) /\ from[l] = l
        BY <1>2, <1>7, <2>1
      <3>2. QED
        BY <3>1
    <2>2. CASE l > i
      <3>1. l - 1 \in 1 .. Len(t) /\ from[l - 1] = l
        BY <1>2, <1>7, <2>2
      <3>2. QED
        BY <3>1
    <2>3. QED
      BY <1>2, <2>1, <2>2, SMTT(60)
  <1> HIDE DEF from
  <1>12. Picks(t, s, DOMAIN s \ {i})
    BY <1>8, <1>9, <1>10, <1>11 DEF Picks
  <1>13. QED
    BY <1>1, <1>7, <1>12 DEF t

-----------------------------------------------------------------------------
(* Buckets *)

\* What holds of a bucket b at any time: nodes of that distance, one per id, at
\* most BucketSizeK, and the least recently seen first.
GoodBucket(b, nodes) ==
  /\ nodes \in Seq(Entries)
  /\ Len(nodes) <= BucketSizeK
  /\ \A i \in DOMAIN nodes : Bucket[nodes[i].contact.id] = b
  /\ \A i, j \in DOMAIN nodes : nodes[i].contact.id = nodes[j].contact.id => i = j
  /\ \A i, j \in DOMAIN nodes : i < j => nodes[i].seen <= nodes[j].seen

\* Taking nodes out leaves a good bucket.
LEMMA PicksGood ==
  ASSUME NEW b, NEW s, GoodBucket(b, s), NEW t \in Seq(Entries), NEW I \in SUBSET DOMAIN s,
         Picks(t, s, I)
  PROVE  /\ GoodBucket(b, t)
         /\ \A j \in DOMAIN t : \E i \in I : t[j] = s[i]
         /\ \A i \in I : \E j \in DOMAIN t : t[j] = s[i]
  <1>1. PICK from \in [1 .. Len(t) -> I] :
          /\ \A j \in 1 .. Len(t) : t[j] = s[from[j]]
          /\ \A j, l \in 1 .. Len(t) : j < l => from[j] < from[l]
          /\ \A i \in I : \E j \in 1 .. Len(t) : from[j] = i
    BY DEF Picks
  <1>2. PICK m \in Nat, n \in Nat : m = Len(t) /\ n = Len(s)
    BY DEF GoodBucket
  <1>3. DOMAIN t = 1 .. m /\ DOMAIN s = 1 .. n
    BY <1>2 DEF GoodBucket
  <1>4. \A j \in 1 .. m : from[j] \in DOMAIN s /\ from[j] \in Nat /\ t[j] = s[from[j]]
    BY <1>1, <1>2, <1>3
  <1>5. \A j, l \in 1 .. m : from[j] = from[l] => j = l
    <2> SUFFICES ASSUME NEW j \in 1 .. m, NEW l \in 1 .. m, from[j] = from[l], j < l
                 PROVE  FALSE
      OBVIOUS
    <2>1. from[j] < from[l] /\ from[j] \in Nat
      BY <1>1, <1>2, <1>4
    <2>2. QED
      BY <2>1
  <1>6. m <= n
    <2>1. from \in [1 .. m -> 1 .. n]
      BY <1>2, <1>3, <1>4
    <2>2. from \in Injection(1 .. m, 1 .. n)
      BY <1>5, <2>1 DEF Injection, IsInjective
    <2>3. Cardinality(1 .. m) <= Cardinality(1 .. n)
      BY <2>2, FS_Injection, FS_Interval
    <2>4. Cardinality(1 .. m) = m /\ Cardinality(1 .. n) = n
      BY FS_Interval
    <2>5. QED
      BY <2>3, <2>4
  <1>7. Len(t) <= BucketSizeK
    <2>1. n <= BucketSizeK /\ BucketSizeK \in Nat
      BY <1>2, TimesAssumption DEF GoodBucket
    <2>2. QED
      BY <1>2, <1>6, <2>1
  <1>8. \A j \in DOMAIN t : Bucket[t[j].contact.id] = b
    BY <1>3, <1>4 DEF GoodBucket
  <1>9. \A j, l \in DOMAIN t : t[j].contact.id = t[l].contact.id => j = l
    BY <1>3, <1>4, <1>5 DEF GoodBucket
  <1>10. \A j, l \in DOMAIN t : j < l => t[j].seen <= t[l].seen
    <2> SUFFICES ASSUME NEW j \in 1 .. m, NEW l \in 1 .. m, j < l
                 PROVE  t[j].seen <= t[l].seen
      BY <1>3
    <2>1. from[j] < from[l]
      BY <1>1, <1>2
    <2>2. s[from[j]].seen <= s[from[l]].seen
      BY <1>4, <2>1 DEF GoodBucket
    <2>3. QED
      BY <1>4, <2>2
  <1>11. GoodBucket(b, t)
    BY <1>7, <1>8, <1>9, <1>10 DEF GoodBucket
  <1>12. \A j \in DOMAIN t : from[j] \in I /\ t[j] = s[from[j]]
    BY <1>1, <1>2, <1>3
  <1>13. \A i \in I : \E j \in DOMAIN t : from[j] = i
    BY <1>1, <1>2, <1>3
  <1>14. QED
    BY <1>11, <1>12, <1>13

\* Adding a node with a new id, seen last, at the end leaves a good bucket.
LEMMA AppendGood ==
  ASSUME NEW b, NEW s, GoodBucket(b, s), Len(s) < BucketSizeK, NEW e \in Entries,
         Bucket[e.contact.id] = b,
         \A i \in DOMAIN s : s[i].contact.id # e.contact.id /\ s[i].seen <= e.seen
  PROVE  /\ GoodBucket(b, Append(s, e))
         /\ Len(Append(s, e)) \in DOMAIN Append(s, e) /\ Append(s, e)[Len(Append(s, e))] = e
         /\ \A i \in DOMAIN s : i \in DOMAIN Append(s, e) /\ Append(s, e)[i] = s[i]
         /\ \A i \in DOMAIN Append(s, e) : Append(s, e)[i] = e \/ \E j \in DOMAIN s : Append(s, e)[i] = s[j]
  <1>1. PICK n \in Nat : n = Len(s)
    BY DEF GoodBucket
  <1> DEFINE t == Append(s, e)
  <1>2. /\ s \in Seq(Entries) /\ DOMAIN s = 1 .. n
        /\ t \in Seq(Entries) /\ Len(t) = n + 1 /\ DOMAIN t = 1 .. n + 1
        /\ t[n + 1] = e /\ \A i \in 1 .. n : t[i] = s[i]
    BY <1>1 DEF GoodBucket
  <1> HIDE DEF t
  <1>3. BucketSizeK \in Nat
    BY TimesAssumption
  <1>4. Len(t) <= BucketSizeK
    BY <1>1, <1>2, <1>3
  <1>5. \A i \in DOMAIN t : i \in 1 .. n \/ i = n + 1
    BY <1>2
  <1>6. \A i \in DOMAIN t : Bucket[t[i].contact.id] = b
    BY <1>2, <1>5 DEF GoodBucket
  <1>7. \A i, j \in DOMAIN t : t[i].contact.id = t[j].contact.id => i = j
    BY <1>2, <1>5 DEF GoodBucket
  <1>8. \A i, j \in DOMAIN t : i < j => t[i].seen <= t[j].seen
    <2> SUFFICES ASSUME NEW i \in DOMAIN t, NEW j \in DOMAIN t, i < j
                 PROVE  t[i].seen <= t[j].seen
      OBVIOUS
    <2>1. i \in 1 .. n
      BY <1>2
    <2>2. CASE j = n + 1
      BY <1>2, <2>1, <2>2
    <2>3. CASE j \in 1 .. n
      BY <1>2, <2>1, <2>3 DEF GoodBucket
    <2>4. QED
      BY <1>5, <2>2, <2>3
  <1>9. GoodBucket(b, t)
    BY <1>2, <1>4, <1>6, <1>7, <1>8 DEF GoodBucket
  <1>10. QED
    BY <1>2, <1>5, <1>9 DEF t

\* KBucket::add leaves a good bucket with nothing in it but the old nodes and the
\* new one; an old node that is gone was stale, or its id is the new node's and
\* the new node is secure, or no less secure and at the same IP.
LEMMA KBucketAddGood ==
  ASSUME NEW b, NEW s, GoodBucket(b, s), NEW e \in Entries, Bucket[e.contact.id] = b,
         \A i \in DOMAIN s : s[i].seen <= e.seen
  PROVE  LET t == KBucketAdd(s, e)
         IN  /\ GoodBucket(b, t)
             /\ \A j \in DOMAIN t : t[j] = e \/ \E i \in DOMAIN s : t[j] = s[i]
             /\ \A i \in DOMAIN s :
                  \/ \E j \in DOMAIN t : t[j] = s[i]
                  \/ IsStale(s[i])
                  \/ /\ s[i].contact.id = e.contact.id
                     /\ e.contact.secure \/ (~ s[i].contact.secure /\ s[i].contact.ip = e.contact.ip)
                     /\ \E j \in DOMAIN t : t[j] = e
  <1> DEFINE same == {i \in DOMAIN s : s[i].contact.id = e.contact.id}
             t == KBucketAdd(s, e)
             Goal == /\ GoodBucket(b, t)
                     /\ \A j \in DOMAIN t : t[j] = e \/ \E i \in DOMAIN s : t[j] = s[i]
                     /\ \A i \in DOMAIN s :
                          \/ \E j \in DOMAIN t : t[j] = s[i]
                          \/ IsStale(s[i])
                          \/ /\ s[i].contact.id = e.contact.id
                             /\ e.contact.secure \/ (~ s[i].contact.secure /\ s[i].contact.ip = e.contact.ip)
                             /\ \E j \in DOMAIN t : t[j] = e
  <1> SUFFICES Goal
    OBVIOUS
  <1>1. s \in Seq(Entries) /\ BucketSizeK \in Nat /\ BucketSizeK >= 1
    BY TimesAssumption DEF GoodBucket
  <1>2. ASSUME t = s PROVE Goal
    <2> HIDE DEF t
    <2> QED
      BY <1>2
  <1>3. ASSUME NEW i \in DOMAIN s, t = Append(Removed(s, i), e),
               same \subseteq {i},
               \/ IsStale(s[i])
               \/ /\ s[i].contact.id = e.contact.id
                  /\ e.contact.secure \/ (~ s[i].contact.secure /\ s[i].contact.ip = e.contact.ip)
        PROVE  Goal
    <2> DEFINE r == Removed(s, i)
    <2>1. r \in Seq(Entries) /\ Len(r) = Len(s) - 1 /\ Picks(r, s, DOMAIN s \ {i})
      BY <1>1, RemovedPicks
    <2> HIDE DEF r
    <2>2. DOMAIN s \ {i} \in SUBSET DOMAIN s
      OBVIOUS
    <2>3. /\ GoodBucket(b, r)
          /\ \A j \in DOMAIN r : \E l \in DOMAIN s \ {i} : r[j] = s[l]
          /\ \A l \in DOMAIN s \ {i} : \E j \in DOMAIN r : r[j] = s[l]
      BY <2>1, <2>2, PicksGood
    <2>4. Len(r) < BucketSizeK
      <3>1. Len(s) \in Nat /\ Len(s) <= BucketSizeK
        BY <1>1 DEF GoodBucket
      <3>2. QED
        BY <1>1, <2>1, <3>1
    <2>5. \A j \in DOMAIN r : r[j].contact.id # e.contact.id /\ r[j].seen <= e.seen
      BY <1>3, <2>3
    <2>6. /\ GoodBucket(b, Append(r, e))
          /\ Len(Append(r, e)) \in DOMAIN Append(r, e) /\ Append(r, e)[Len(Append(r, e))] = e
          /\ \A j \in DOMAIN r : j \in DOMAIN Append(r, e) /\ Append(r, e)[j] = r[j]
          /\ \A j \in DOMAIN Append(r, e) :
               Append(r, e)[j] = e \/ \E l \in DOMAIN r : Append(r, e)[j] = r[l]
      BY <2>3, <2>4, <2>5, AppendGood
    <2>7. t = Append(r, e)
      BY <1>3 DEF r
    <2> HIDE DEF t
    <2>8. /\ GoodBucket(b, t) /\ \E j \in DOMAIN t : t[j] = e
          /\ \A j \in DOMAIN r : \E l \in DOMAIN t : t[l] = r[j]
          /\ \A j \in DOMAIN t : t[j] = e \/ \E l \in DOMAIN r : t[j] = r[l]
      BY <2>6, <2>7
    <2>9. \A j \in DOMAIN t : t[j] = e \/ \E l \in DOMAIN s : t[j] = s[l]
      BY <2>3, <2>8
    <2>10. \A l \in DOMAIN s \ {i} : \E j \in DOMAIN t : t[j] = s[l]
      BY <2>3, <2>8
    <2>11. QED
      BY <1>3, <2>8, <2>9, <2>10
  <1>4. CASE same # {}
    <2> DEFINE i == CHOOSE i \in same : TRUE
    <2>1. i \in same
      BY <1>4
    <2>2. t = IF e.contact.secure \/ (~ s[i].contact.secure /\ s[i].contact.ip = e.contact.ip)
              THEN Append(Removed(s, i), e) ELSE s
      BY <1>4 DEF KBucketAdd
    <2> HIDE DEF i, t, Goal
    <2>3. i \in DOMAIN s /\ s[i].contact.id = e.contact.id /\ same \subseteq {i}
      BY <2>1 DEF GoodBucket
    <2>4. QED
      BY <1>2, <1>3, <2>2, <2>3
  <1>5. CASE same = {}
    <2>1. t = IF Len(s) < BucketSizeK THEN Append(s, e)
              ELSE IF IsStale(s[1]) THEN Append(Removed(s, 1), e) ELSE s
      BY <1>5 DEF KBucketAdd
    <2>2. CASE Len(s) < BucketSizeK
      <3>1. \A i \in DOMAIN s : s[i].contact.id # e.contact.id
        BY <1>5
      <3>2. /\ GoodBucket(b, Append(s, e))
            /\ \A i \in DOMAIN s : i \in DOMAIN Append(s, e) /\ Append(s, e)[i] = s[i]
            /\ \A i \in DOMAIN Append(s, e) :
                 Append(s, e)[i] = e \/ \E j \in DOMAIN s : Append(s, e)[i] = s[j]
        BY <2>2, <3>1, AppendGood
      <3>3. t = Append(s, e)
        BY <2>1, <2>2
      <3> HIDE DEF t
      <3>4. QED
        BY <3>2, <3>3
    <2>3. CASE ~ (Len(s) < BucketSizeK)
      <3>1. 1 \in DOMAIN s
        <4>1. Len(s) \in Nat /\ Len(s) >= 1
          BY <1>1, <2>3
        <4>2. QED
          BY <1>1, <4>1
      <3> HIDE DEF t, Goal
      <3>2. QED
        BY <1>2, <1>3, <1>5, <2>1, <2>3, <3>1
    <2>4. QED
      BY <2>2, <2>3
  <1>6. QED
    BY <1>4, <1>5

-----------------------------------------------------------------------------
(* The table *)

\* Times are numbers, and the clock is at most a PingInterval ahead of the last
\* upkeep, since the actor's ticks do what is due.
Clocks ==
  /\ now \in Nat /\ lastPing \in Nat /\ lastRefresh \in Nat
  /\ lastPing <= now /\ now <= lastPing + PingInterval

\* Each bucket is good; no node was seen in the future, and none was stale when
\* the table was last purged.
BucketsInv ==
  /\ table \in [Buckets -> Seq(Entries)]
  /\ \A b \in Buckets : GoodBucket(b, table[b])
  /\ \A b \in Buckets : \A i \in DOMAIN table[b] :
       table[b][i].seen <= now /\ lastPing <= table[b][i].seen + StaleTime

\* The inductive invariant of the table.
TableInv == Clocks /\ BucketsInv /\ PerIpLimit

\* A contact is in the table when some bucket has an entry for it.
LEMMA InTableIs ==
  \A c : c \in InTable <=> \E b \in Buckets : \E i \in DOMAIN table[b] : table[b][i].contact = c
  BY DEF InTable, ContactsIn

\* A node that is added is in no conflict with those of its IP.
LEMMA NewcomerInLimit ==
  ASSUME PerIpLimit, NEW c \in Contacts, ~ AlreadyExists(c, InTable),
         InTable' \subseteq InTable \cup {c}
  PROVE  PerIpLimit'
  BY DEF PerIpLimit, AlreadyExists

\* RoutingTable::add keeps the buckets, and takes in at most the new node.
LEMMA AddKeeps ==
  ASSUME TableInv, NEW c \in Contacts, LookupAnswered(c)
  PROVE  /\ TableInv'
         /\ \A d \in InTable \ InTable' :
              \/ \E b \in Buckets : \E i \in DOMAIN table[b] :
                   table[b][i].contact = d /\ IsStale(table[b][i])
              \/ \E x \in InTable' : x.id = d.id /\ x.secure
  <1> DEFINE e == [contact |-> c, seen |-> now]
             b == Bucket[c.id]
  <1>1. table' = Add(e) /\ UNCHANGED <<now, lastPing, lastRefresh>>
    BY DEF LookupAnswered
  <1>2. Clocks' /\ now \in Nat /\ lastPing \in Nat /\ lastPing <= now /\ StaleTime \in Nat
    BY <1>1, TimesAssumption DEF TableInv, Clocks
  <1>3. CASE b = 0 \/ AlreadyExists(c, InTable)
    <2>1. table' = table
      BY <1>1, <1>3 DEF Add
    <2>2. InTable' = InTable
      BY <2>1 DEF InTable
    <2>3. QED
      BY <1>1, <1>2, <2>1, <2>2 DEF TableInv, BucketsInv, PerIpLimit
  <1>4. CASE b # 0 /\ ~ AlreadyExists(c, InTable)
    <2>1. b \in Buckets /\ e \in Entries
      BY <1>2, <1>4 DEF Buckets, Ids, Entries
    <2> DEFINE t == KBucketAdd(table[b], e)
    <2>2. table' = [table EXCEPT ![b] = t]
      BY <1>1, <1>4 DEF Add
    <2>3. /\ table \in [Buckets -> Seq(Entries)] /\ GoodBucket(b, table[b])
          /\ \A i \in DOMAIN table[b] : table[b][i].seen <= now
      BY <2>1 DEF TableInv, BucketsInv
    <2>4. /\ GoodBucket(b, t)
          /\ \A j \in DOMAIN t : t[j] = e \/ \E i \in DOMAIN table[b] : t[j] = table[b][i]
          /\ \A i \in DOMAIN table[b] :
               \/ \E j \in DOMAIN t : t[j] = table[b][i]
               \/ IsStale(table[b][i])
               \/ /\ table[b][i].contact.id = c.id
                  /\ c.secure \/ (~ table[b][i].contact.secure /\ table[b][i].contact.ip = c.ip)
                  /\ \E j \in DOMAIN t : t[j] = e
      <3> DEFINE s == table[b]
                 u == KBucketAdd(s, e)
      <3>1. e.contact = c /\ e.seen = now /\ Bucket[e.contact.id] = b /\ t = u
        OBVIOUS
      <3>2. GoodBucket(b, s) /\ \A i \in DOMAIN s : s[i].seen <= e.seen
        BY <2>3
      <3> HIDE DEF e, b, t
      <3>3. /\ GoodBucket(b, u)
            /\ \A j \in DOMAIN u : u[j] = e \/ \E i \in DOMAIN s : u[j] = s[i]
            /\ \A i \in DOMAIN s :
                 \/ \E j \in DOMAIN u : u[j] = s[i]
                 \/ IsStale(s[i])
                 \/ /\ s[i].contact.id = e.contact.id
                    /\ e.contact.secure \/ (~ s[i].contact.secure /\ s[i].contact.ip = e.contact.ip)
                    /\ \E j \in DOMAIN u : u[j] = e
        <4> HIDE DEF s
        <4>1. QED
          BY <2>1, <3>1, <3>2, KBucketAddGood
      <3>4. QED
        BY <3>1, <3>3, Zenon
    <2> HIDE DEF t
    <2>5. /\ table' \in [Buckets -> Seq(Entries)] /\ table'[b] = t
          /\ \A a \in Buckets \ {b} : table'[a] = table[a]
      BY <2>1, <2>2, <2>3, <2>4 DEF GoodBucket
    <2>6. InTable' \subseteq InTable \cup {c}
      <3> SUFFICES ASSUME NEW a \in Buckets, NEW i \in DOMAIN table'[a]
                   PROVE  table'[a][i].contact \in InTable \cup {c}
        BY InTableIs DEF InTable, ContactsIn
      <3>1. CASE a = b
        <4>1. t[i] = e \/ \E j \in DOMAIN table[b] : t[i] = table[b][j]
          BY <2>4, <2>5, <3>1
        <4>2. QED
          BY <2>1, <2>5, <3>1, <4>1, InTableIs
      <3>2. CASE a # b
        BY <2>5, <3>2, InTableIs
      <3>3. QED
        BY <3>1, <3>2
    <2>7. PerIpLimit'
      BY <1>4, <2>6, NewcomerInLimit DEF TableInv
    <2>8. ASSUME NEW a \in Buckets PROVE GoodBucket(a, table'[a])
      BY <2>4, <2>5, <2>8 DEF TableInv, BucketsInv
    <2>9. ASSUME NEW a \in Buckets, NEW i \in DOMAIN table'[a]
          PROVE  table'[a][i].seen <= now' /\ lastPing' <= table'[a][i].seen + StaleTime
      <3>1. \/ \E j \in DOMAIN table[a] : table'[a][i] = table[a][j]
            \/ table'[a][i] = e
        BY <2>4, <2>5, <2>9
      <3>2. CASE table'[a][i] = e
        BY <1>1, <1>2, <3>2
      <3>3. CASE \E j \in DOMAIN table[a] : table'[a][i] = table[a][j]
        BY <1>1, <3>3 DEF TableInv, BucketsInv
      <3>4. QED
        BY <3>1, <3>2, <3>3
    <2>10. TableInv'
      BY <1>2, <2>5, <2>7, <2>8, <2>9 DEF TableInv, BucketsInv
    <2>11. ASSUME NEW d \in InTable, d \notin InTable'
           PROVE  \/ \E a \in Buckets : \E i \in DOMAIN table[a] :
                       table[a][i].contact = d /\ IsStale(table[a][i])
                  \/ \E x \in InTable' : x.id = d.id /\ x.secure
      <3>0. \A a \in Buckets : \A i \in DOMAIN table'[a] : table'[a][i].contact \in InTable'
        BY DEF InTable, ContactsIn
      <3>a. PICK a \in Buckets : \E i \in DOMAIN table[a] : table[a][i].contact = d
        BY <2>11, InTableIs
      <3>1. PICK i \in DOMAIN table[a] : table[a][i].contact = d
        BY <3>a
      <3>2. a = b
        BY <2>5, <2>11, <3>0, <3>1
      <3>3. ~ \E j \in DOMAIN t : t[j] = table[b][i]
        BY <2>1, <2>5, <2>11, <3>0, <3>1, <3>2
      <3>4. CASE IsStale(table[b][i])
        BY <3>1, <3>2, <3>4
      <3>5. CASE /\ d.id = c.id /\ (c.secure \/ (~ d.secure /\ d.ip = c.ip))
                 /\ \E j \in DOMAIN t : t[j] = e
        <4>1. c.secure
          BY <1>4, <2>11, <3>5 DEF AlreadyExists
        <4>2. c \in InTable'
          BY <2>1, <2>5, <3>0, <3>5
        <4>3. QED
          BY <3>5, <4>1, <4>2
      <3>6. QED
        BY <2>4, <3>1, <3>2, <3>3, <3>4, <3>5
    <2>12. QED
      BY <2>10, <2>11
  <1>5. QED
    BY <1>3, <1>4

\* purge_nodes leaves good buckets, without the stale nodes and with all others.
LEMMA PurgedIs ==
  ASSUME TableInv, NEW b \in Buckets
  PROVE  /\ GoodBucket(b, Purged[b])
         /\ \A j \in DOMAIN Purged[b] : \E i \in DOMAIN table[b] :
              Purged[b][j] = table[b][i] /\ ~ IsStale(table[b][i])
         /\ \A i \in DOMAIN table[b] : ~ IsStale(table[b][i]) =>
              \E j \in DOMAIN Purged[b] : Purged[b][j] = table[b][i]
  <1> DEFINE kept == {i \in DOMAIN table[b] : ~ IsStale(table[b][i])}
             r == Retained(table[b], kept)
  <1>1. GoodBucket(b, table[b]) /\ table[b] \in Seq(Entries) /\ kept \in SUBSET DOMAIN table[b]
    BY DEF TableInv, BucketsInv
  <1>2. r \in Seq(Entries) /\ Picks(r, table[b], kept)
    BY <1>1, RetainedPicks
  <1>3. Purged[b] = r
    BY DEF Purged
  <1> HIDE DEF r
  <1>4. /\ GoodBucket(b, r)
        /\ \A j \in DOMAIN r : \E i \in kept : r[j] = table[b][i]
        /\ \A i \in kept : \E j \in DOMAIN r : r[j] = table[b][i]
    BY <1>1, <1>2, PicksGood
  <1>5. QED
    BY <1>3, <1>4

\* When a node of the table was seen.
LEMMA EntryTimes ==
  ASSUME TableInv, NEW b \in Buckets, NEW i \in DOMAIN table[b]
  PROVE  /\ table[b][i].seen \in Nat /\ table[b][i].seen <= now
         /\ lastPing <= table[b][i].seen + StaleTime
  <1>1. table[b] \in Seq(Entries)
    BY DEF TableInv, BucketsInv
  <1>2. table[b][i] \in Entries
    BY <1>1
  <1>3. table[b][i].seen \in Nat
    BY <1>2 DEF Entries
  <1>4. QED
    BY <1>3 DEF TableInv, BucketsInv

\* An empty bucket is good.
LEMMA EmptyBucketGood == \A b : GoodBucket(b, <<>>)
  <1>1. <<>> \in Seq(Entries) /\ Len(<<>>) = 0 /\ DOMAIN <<>> = {}
    OBVIOUS
  <1>2. 0 <= BucketSizeK
    BY TimesAssumption
  <1>3. QED
    BY <1>1, <1>2 DEF GoodBucket

\* An empty table is good, whatever was in it before.
LEMMA EmptyTableGood ==
  ASSUME table = EmptyTable, Clocks
  PROVE  TableInv
  <1>1. \A b \in Buckets : table[b] = <<>> /\ DOMAIN table[b] = {}
    BY DEF EmptyTable
  <1>2. InTable = {}
    BY <1>1, InTableIs
  <1>3. \A b \in Buckets : GoodBucket(b, table[b])
    BY <1>1, EmptyBucketGood
  <1>4. table \in [Buckets -> Seq(Entries)]
    BY DEF EmptyTable
  <1>5. QED
    BY <1>1, <1>2, <1>3, <1>4 DEF TableInv, BucketsInv, PerIpLimit

\* Upkeep keeps the table, and drops stale nodes only.
LEMMA MaintainKeeps ==
  ASSUME TableInv, Maintain
  PROVE  /\ TableInv'
         /\ \A d \in InTable \ InTable' :
              \E b \in Buckets : \E i \in DOMAIN table[b] :
                table[b][i].contact = d /\ IsStale(table[b][i])
  <1>1. /\ now \in Nat /\ lastPing \in Nat /\ lastRefresh \in Nat /\ lastPing <= now
        /\ StaleTime \in Nat /\ PingInterval \in Nat /\ now' = now
        /\ lastRefresh' \in {now, lastRefresh}
    BY TimesAssumption DEF TableInv, Clocks, Maintain
  <1>2. CASE ~ PingDue
    <2>1. table' = table /\ lastPing' = lastPing
      BY <1>2 DEF Maintain
    <2>2. InTable' = InTable
      BY <2>1 DEF InTable
    <2>3. Clocks'
      BY <1>1, <2>1 DEF TableInv, Clocks
    <2>4. QED
      BY <1>1, <2>1, <2>2, <2>3 DEF TableInv, BucketsInv, PerIpLimit
  <1>3. CASE PingDue
    <2>1. table' = Purged /\ lastPing' = now
      BY <1>3 DEF Maintain
    <2>2. Clocks'
      BY <1>1, <2>1 DEF TableInv, Clocks
    <2>3. ASSUME NEW b \in Buckets
          PROVE  /\ GoodBucket(b, table'[b])
                 /\ \A j \in DOMAIN table'[b] : \E i \in DOMAIN table[b] :
                      table'[b][j] = table[b][i] /\ ~ IsStale(table[b][i])
                 /\ \A i \in DOMAIN table[b] : ~ IsStale(table[b][i]) =>
                      \E j \in DOMAIN table'[b] : table'[b][j] = table[b][i]
      BY <2>1, <2>3, PurgedIs
    <2>4. table' \in [Buckets -> Seq(Entries)]
      <3>1. \A b \in Buckets : Purged[b] \in Seq(Entries)
        BY <2>1, <2>3 DEF GoodBucket
      <3>2. Purged = [b \in Buckets |-> Purged[b]]
        BY DEF Purged
      <3>3. QED
        BY <2>1, <3>1, <3>2
    <2>5. InTable' \subseteq InTable
      <3> SUFFICES ASSUME NEW b \in Buckets, NEW j \in DOMAIN table'[b]
                   PROVE  table'[b][j].contact \in InTable
        BY DEF InTable, ContactsIn
      <3>1. QED
        BY <2>3, InTableIs
    <2>6. PerIpLimit'
      BY <2>5 DEF TableInv, PerIpLimit
    <2>7. ASSUME NEW b \in Buckets, NEW j \in DOMAIN table'[b]
          PROVE  table'[b][j].seen <= now' /\ lastPing' <= table'[b][j].seen + StaleTime
      <3>1. PICK i \in DOMAIN table[b] : table'[b][j] = table[b][i] /\ ~ IsStale(table[b][i])
        BY <2>3, <2>7
      <3>2. table[b][i].seen <= now /\ table[b][i].seen \in Nat
        BY EntryTimes
      <3>3. ~ (now - table[b][i].seen > StaleTime)
        BY <3>1 DEF IsStale
      <3>4. QED
        BY <1>1, <2>1, <3>1, <3>2, <3>3
    <2>8. TableInv'
      BY <2>2, <2>3, <2>4, <2>6, <2>7 DEF TableInv, BucketsInv
    <2>9. ASSUME NEW d \in InTable, d \notin InTable'
          PROVE  \E b \in Buckets : \E i \in DOMAIN table[b] :
                   table[b][i].contact = d /\ IsStale(table[b][i])
      <3>1. PICK b \in Buckets : \E i \in DOMAIN table[b] : table[b][i].contact = d
        BY <2>9, InTableIs
      <3>2. PICK i \in DOMAIN table[b] : table[b][i].contact = d
        BY <3>1
      <3>3. \A j \in DOMAIN table'[b] : table'[b][j].contact # d
        BY <2>9 DEF InTable, ContactsIn
      <3>4. IsStale(table[b][i])
        BY <2>3, <3>2, <3>3
      <3>5. QED
        BY <3>2, <3>4
    <2>10. QED
      BY <2>8, <2>9
  <1>4. QED
    BY <1>2, <1>3

\* Time passes only while no upkeep is due.
LEMMA AdvanceKeeps ==
  ASSUME TableInv, Advance
  PROVE  TableInv' /\ InTable' = InTable
  <1>1. /\ now' = now + 1 /\ ~ (now - lastPing >= PingInterval)
        /\ table' = table /\ lastPing' = lastPing /\ lastRefresh' = lastRefresh
    BY DEF Advance, PingDue
  <1>2. /\ now \in Nat /\ lastPing \in Nat /\ lastRefresh \in Nat /\ lastPing <= now
        /\ PingInterval \in Nat
    BY TimesAssumption DEF TableInv, Clocks
  <1>3. Clocks'
    BY <1>1, <1>2 DEF Clocks
  <1>4. InTable' = InTable
    BY <1>1 DEF InTable
  <1>5. ASSUME NEW b \in Buckets, NEW i \in DOMAIN table[b]
        PROVE  table[b][i].seen <= now + 1 /\ lastPing <= table[b][i].seen + StaleTime
    <2>1. table[b][i].seen \in Nat /\ table[b][i].seen <= now
      BY EntryTimes
    <2>2. QED
      BY <1>2, <2>1 DEF TableInv, BucketsInv
  <1>6. QED
    BY <1>1, <1>3, <1>4, <1>5 DEF TableInv, BucketsInv, PerIpLimit

\* The table starts empty.
LEMMA TableInvInit == Init => TableInv
  <1> SUFFICES ASSUME Init PROVE TableInv
    OBVIOUS
  <1>1. Clocks
    BY TimesAssumption DEF Init, Clocks
  <1>2. QED
    BY <1>1, EmptyTableGood DEF Init

\* Every operation on the table keeps TableInv.
LEMMA TableInvStep == TableInv /\ [Next]_vars => TableInv'
  <1> SUFFICES ASSUME TableInv, [Next]_vars PROVE TableInv'
    OBVIOUS
  <1>1. ASSUME NEW c \in Contacts, LookupAnswered(c) PROVE TableInv'
    BY <1>1, AddKeeps
  <1>2. CASE NewTable
    <2>1. \A b \in Buckets : table'[b] = <<>> /\ DOMAIN table'[b] = {}
      BY <1>2 DEF NewTable, EmptyTable
    <2>2. InTable' = {}
      BY <2>1 DEF InTable, ContactsIn
    <2>3. \A b \in Buckets : GoodBucket(b, table'[b])
      BY <2>1, EmptyBucketGood
    <2>4. table' \in [Buckets -> Seq(Entries)]
      BY <1>2 DEF NewTable, EmptyTable
    <2>5. Clocks'
      BY <1>2 DEF NewTable, TableInv, Clocks
    <2>6. QED
      BY <2>1, <2>2, <2>3, <2>4, <2>5 DEF TableInv, BucketsInv, PerIpLimit
  <1>3. CASE Maintain
    BY <1>3, MaintainKeeps
  <1>4. CASE Advance
    BY <1>4, AdvanceKeeps
  <1>5. CASE UNCHANGED vars
    BY <1>5 DEF vars, TableInv, Clocks, BucketsInv, PerIpLimit, InTable
  <1>6. QED
    BY <1>1, <1>2, <1>3, <1>4, <1>5 DEF Next

\* For any contacts, however they move, claim each other's ids and go stale:
\* every node sits in its bucket, no IP fills the table, and the node that a
\* full bucket checks for staleness is its oldest.
THEOREM TableWellFormed == Spec => []WellFormed
  <1>1. TableInv => WellFormed
    BY DEF TableInv, BucketsInv, GoodBucket, WellFormed, InTheirBuckets, SortedBySeen
  <1>2. QED
    BY <1>1, TableInvInit, TableInvStep, PTL DEF Spec

\* With upkeep as often as the actor does it, no node stays in the table longer
\* than StaleTime and one PingInterval after it was last seen.
THEOREM NoNodeLingers == Spec => []NothingLingers
  <1>1. TableInv => NothingLingers
    <2> SUFFICES ASSUME TableInv, NEW b \in Buckets, NEW i \in DOMAIN table[b]
                 PROVE  now - table[b][i].seen <= StaleTime + PingInterval
      BY DEF NothingLingers
    <2>1. /\ now \in Nat /\ lastPing \in Nat /\ now <= lastPing + PingInterval
          /\ StaleTime \in Nat /\ PingInterval \in Nat
      BY TimesAssumption DEF TableInv, Clocks
    <2>2. table[b][i].seen \in Nat /\ lastPing <= table[b][i].seen + StaleTime
      BY EntryTimes
    <2>3. QED
      BY <2>1, <2>2
  <1>2. QED
    BY <1>1, TableInvInit, TableInvStep, PTL DEF Spec

\* No step pushes a node out of the table but for the causes the code names:
\* RoutingTable::add, purge_nodes and a new table are the only ways out.
THEOREM NodesDroppedForCause == Spec => DroppedOnlyForCause
  <1> DEFINE Cause ==
        \A c \in InTable \ InTable' :
          \/ table' = EmptyTable
          \/ \E b \in Buckets : \E i \in DOMAIN table[b] :
               table[b][i].contact = c /\ IsStale(table[b][i])
          \/ \E d \in InTable' : d.id = c.id /\ d.secure
  <1>1. TableInv /\ [Next]_vars => Cause \/ UNCHANGED vars
    <2> SUFFICES ASSUME TableInv, Next PROVE Cause
      OBVIOUS
    <2>1. ASSUME NEW c \in Contacts, LookupAnswered(c) PROVE Cause
      BY <2>1, AddKeeps
    <2>2. CASE NewTable
      BY <2>2 DEF NewTable
    <2>3. CASE Maintain
      BY <2>3, MaintainKeeps
    <2>4. CASE Advance
      BY <2>4, AdvanceKeeps
    <2>5. QED
      BY <2>1, <2>2, <2>3, <2>4 DEF Next
  <1>2. QED
    BY <1>1, TableInvInit, TableInvStep, PTL DEF Spec, DroppedOnlyForCause

-----------------------------------------------------------------------------
(* The iterator *)

\* Where the iterator may stand: a bucket and a position, each one past its end too.
Cursors == (1 .. MaxDistance + 1) \X (1 .. BucketSizeK + 1)

\* The cursor is at a node.
AtNode(c) == c[1] \in Buckets /\ c[2] <= Len(table[c[1]])

\* Where RoutingTableIterator goes on.
Successor(c) == IF AtNode(c) THEN CursorAfter(c[1], c[2]) ELSE <<c[1] + 1, c[2]>>

\* What it yields at c, if h is what it yields further on.
Yields(h, c) ==
  IF c[1] > MaxDistance THEN <<>>
  ELSE IF c[1] \in Buckets /\ c[2] <= Len(table[c[1]])
       THEN <<table[c[1]][c[2]]>> \o h[CursorAfter(c[1], c[2])]
       ELSE h[<<c[1] + 1, c[2]>>]

\* The cursors from <<b, i>> on.
From(b, i) == {c \in Cursors : c[1] > b \/ (c[1] = b /\ c[2] >= i)}

\* g satisfies the iterator's recursion at the cursors in C.
Solves(g, C) == g = [c \in C |-> Yields(g, c)]

\* What the buckets are.
LEMMA BucketFacts ==
  ASSUME TableInv
  PROVE  /\ MaxDistance \in Nat /\ BucketSizeK \in Nat /\ Buckets \subseteq 1 .. MaxDistance
         /\ \A b \in Buckets : /\ table[b] \in Seq(Entries) /\ Len(table[b]) \in Nat
                               /\ DOMAIN table[b] = 1 .. Len(table[b])
                               /\ Len(table[b]) <= BucketSizeK
  <1>1. MaxDistance \in Nat /\ \A i \in Ids : Bucket[i] <= MaxDistance /\ Bucket[i] \in Nat
    BY ContactsAssumption, DistancesAssumption
  <1>2. BucketSizeK \in Nat
    BY TimesAssumption
  <1>3. Buckets \subseteq 1 .. MaxDistance
    BY <1>1 DEF Buckets
  <1>4. \A b \in Buckets : table[b] \in Seq(Entries) /\ Len(table[b]) <= BucketSizeK
    BY DEF TableInv, BucketsInv, GoodBucket
  <1>5. QED
    BY <1>1, <1>2, <1>3, <1>4

\* The iterator goes forward.
LEMMA GoesForward ==
  ASSUME TableInv, NEW c \in Cursors, ~ (c[1] > MaxDistance)
  PROVE  /\ Successor(c) \in Cursors
         /\ Successor(c)[1] > c[1] \/ (Successor(c)[1] = c[1] /\ Successor(c)[2] > c[2])
         /\ \A h : Yields(h, c) = IF AtNode(c) THEN <<table[c[1]][c[2]]>> \o h[Successor(c)]
                                  ELSE h[Successor(c)]
  <1>1. PICK b \in 1 .. MaxDistance + 1, i \in 1 .. BucketSizeK + 1 : c = <<b, i>>
    BY DEF Cursors
  <1>2. c[1] = b /\ c[2] = i
    BY <1>1
  <1>3. /\ MaxDistance \in Nat /\ BucketSizeK \in Nat
        /\ \A a \in Buckets : Len(table[a]) \in Nat /\ Len(table[a]) <= BucketSizeK
    BY BucketFacts
  <1>4. b \in Nat /\ b + 1 \in 1 .. MaxDistance + 1 /\ i \in Nat
    BY <1>2, <1>3
  <1>5. CASE AtNode(c)
    <2>1. b \in Buckets /\ i <= Len(table[b])
      BY <1>2, <1>5 DEF AtNode
    <2>2. Successor(c) = IF i = Len(table[b]) THEN <<b + 1, 1>> ELSE <<b, i + 1>>
      BY <1>2, <1>5 DEF Successor, CursorAfter
    <2>3. 1 \in 1 .. BucketSizeK + 1 /\ i + 1 \in 1 .. BucketSizeK + 1
      BY <1>3, <1>4, <2>1
    <2>4. Successor(c) \in Cursors
      BY <1>4, <2>2, <2>3 DEF Cursors
    <2>5. Successor(c)[1] > b \/ (Successor(c)[1] = b /\ Successor(c)[2] > i)
      BY <1>4, <2>2
    <2>6. QED
      BY <1>2, <1>5, <2>4, <2>5 DEF Yields, Successor, AtNode
  <1>6. CASE ~ AtNode(c)
    <2>1. Successor(c) = <<b + 1, i>>
      BY <1>2, <1>6 DEF Successor
    <2>2. Successor(c) \in Cursors /\ Successor(c)[1] > b
      BY <1>4, <2>1 DEF Cursors
    <2>3. QED
      BY <1>2, <1>6, <2>2 DEF Yields, Successor, AtNode
  <1>7. QED
    BY <1>5, <1>6

\* One more cursor.
LEMMA OneCursorMore ==
  ASSUME TableInv, NEW b \in 1 .. MaxDistance + 1, NEW i \in 1 .. BucketSizeK + 1,
         NEW g, Solves(g, From(b, i + 1))
  PROVE  \E h : Solves(h, From(b, i))
  <1> DEFINE new == <<b, i>>
             h == [c \in From(b, i) |-> IF c = new THEN Yields(g, c) ELSE g[c]]
  <1>0. MaxDistance \in Nat /\ BucketSizeK \in Nat /\ b \in Nat /\ i \in Nat
    BY BucketFacts
  <1>1. ASSUME NEW c \in From(b, i), c # new PROVE c \in From(b, i + 1)
    <2>1. PICK x \in 1 .. MaxDistance + 1, y \in 1 .. BucketSizeK + 1 : c = <<x, y>>
      BY DEF From, Cursors
    <2>2. c \in Cursors /\ (x > b \/ (x = b /\ y >= i)) /\ ~ (x = b /\ y = i)
      BY <1>1, <2>1 DEF From
    <2>3. x > b \/ (x = b /\ y >= i + 1)
      BY <1>0, <2>2
    <2>4. QED
      BY <2>1, <2>2, <2>3 DEF From
  <1>2. ASSUME NEW c \in From(b, i), ~ (c[1] > MaxDistance)
        PROVE  Successor(c) \in From(b, i + 1) /\ h[Successor(c)] = g[Successor(c)]
    <2>1. PICK x \in 1 .. MaxDistance + 1, y \in 1 .. BucketSizeK + 1 : c = <<x, y>>
      BY DEF From, Cursors
    <2>2. c \in Cursors /\ (x > b \/ (x = b /\ y >= i)) /\ c[1] = x /\ c[2] = y
      BY <2>1 DEF From
    <2>3. /\ Successor(c) \in Cursors
          /\ Successor(c)[1] > x \/ (Successor(c)[1] = x /\ Successor(c)[2] > y)
      BY <1>2, <2>2, GoesForward
    <2>4. PICK u \in 1 .. MaxDistance + 1, v \in 1 .. BucketSizeK + 1 : Successor(c) = <<u, v>>
      BY <2>3 DEF Cursors
    <2>5. u > b \/ (u = b /\ v >= i + 1)
      BY <1>0, <2>2, <2>3, <2>4
    <2>6. Successor(c) \in From(b, i + 1)
      BY <2>3, <2>4, <2>5 DEF From
    <2>7. Successor(c) \in From(b, i) /\ Successor(c) # new
      BY <1>0, <2>3, <2>4, <2>5 DEF From
    <2>8. QED
      BY <2>6, <2>7
  <1>3. \A c \in From(b, i + 1) : g[c] = Yields(g, c)
    BY DEF Solves
  <1>4. ASSUME NEW c \in From(b, i) PROVE h[c] = Yields(h, c)
    <2>1. Yields(h, c) = Yields(g, c)
      <3>1. CASE c[1] > MaxDistance
        BY <3>1 DEF Yields
      <3>2. CASE ~ (c[1] > MaxDistance)
        <4>1. c \in Cursors
          BY DEF From
        <4>2. h[Successor(c)] = g[Successor(c)]
          BY <1>2, <3>2
        <4> HIDE DEF h
        <4>3. \A k : Yields(k, c) = IF AtNode(c) THEN <<table[c[1]][c[2]]>> \o k[Successor(c)]
                                   ELSE k[Successor(c)]
          BY <3>2, <4>1, GoesForward
        <4>4. QED
          BY <4>2, <4>3, Zenon
      <3>3. QED
        BY <3>1, <3>2
    <2>2. h[c] = Yields(g, c)
      BY <1>1, <1>3
    <2>3. QED
      BY <2>1, <2>2
  <1>5. h = [c \in From(b, i) |-> h[c]]
    OBVIOUS
  <1> HIDE DEF h
  <1>6. Solves(h, From(b, i))
    BY <1>4, <1>5 DEF Solves
  <1>7. QED
    BY <1>6

\* The cursors of one more bucket.
LEMMA OneBucketMore ==
  ASSUME TableInv, NEW b \in 1 .. MaxDistance + 1, NEW g, Solves(g, From(b + 1, 1))
  PROVE  \E h : Solves(h, From(b, 1))
  <1>0. MaxDistance \in Nat /\ BucketSizeK \in Nat /\ b \in Nat
    BY BucketFacts
  <1> DEFINE N == BucketSizeK + 2
             Bad == {n \in 0 .. BucketSizeK + 1 : ~ \E h : Solves(h, From(b, N - n))}
  <1>1. Bad \in SUBSET Nat
    BY <1>0
  <1>2. CASE Bad = {}
    <2>1. BucketSizeK + 1 \in 0 .. BucketSizeK + 1 /\ N - (BucketSizeK + 1) = 1
      BY <1>0
    <2>2. \E h : Solves(h, From(b, N - (BucketSizeK + 1)))
      BY <1>2, <2>1
    <2>3. QED
      BY <2>1, <2>2
  <1>3. CASE Bad # {}
    <2> HIDE DEF Bad
    <2>1. PICK n \in Bad : \A m \in Bad : n <= m
      BY <1>1, <1>3, LeastNat
    <2>2. n \in 0 .. BucketSizeK + 1 /\ ~ \E h : Solves(h, From(b, N - n))
      BY DEF Bad
    <2>3. CASE n = 0
      <3>1. ASSUME NEW c \in Cursors
            PROVE  (c[1] > b \/ (c[1] = b /\ c[2] >= N - 0)) <=> (c[1] > b + 1 \/ (c[1] = b + 1 /\ c[2] >= 1))
        <4>1. PICK x \in 1 .. MaxDistance + 1, y \in 1 .. BucketSizeK + 1 : c = <<x, y>>
          BY DEF Cursors
        <4>2. QED
          BY <1>0, <4>1
      <3>2. From(b, N - 0) = From(b + 1, 1)
        BY <3>1 DEF From
      <3>3. QED
        BY <2>2, <2>3, <3>2
    <2>4. CASE n # 0
      <3>1. n - 1 \in 0 .. BucketSizeK + 1 /\ ~ (n <= n - 1)
        BY <1>0, <2>2, <2>4
      <3>2. n - 1 \notin Bad
        BY <2>1, <3>1
      <3>3. PICK h : Solves(h, From(b, N - (n - 1)))
        BY <3>1, <3>2 DEF Bad
      <3>4. N - (n - 1) = (N - n) + 1 /\ N - n \in 1 .. BucketSizeK + 1
        BY <1>0, <2>2, <2>4
      <3>5. Solves(h, From(b, (N - n) + 1))
        BY <3>3, <3>4
      <3> HIDE DEF N
      <3>6. \E k : Solves(k, From(b, N - n))
        BY <3>4, <3>5, OneCursorMore
      <3>7. QED
        BY <2>2, <3>6
    <2>5. QED
      BY <2>3, <2>4
  <1>4. QED
    BY <1>2, <1>3

\* So the iterator yields something from every cursor.
LEMMA IteratorDefined ==
  ASSUME TableInv
  PROVE  \E g : Solves(g, Cursors)
  <1>0. MaxDistance \in Nat /\ BucketSizeK \in Nat
    BY BucketFacts
  <1> DEFINE N == MaxDistance + 2
             Bad == {n \in 0 .. MaxDistance + 1 : ~ \E h : Solves(h, From(N - n, 1))}
  <1>1. Bad \in SUBSET Nat
    BY <1>0
  <1>2. CASE Bad = {}
    <2>1. MaxDistance + 1 \in 0 .. MaxDistance + 1 /\ N - (MaxDistance + 1) = 1
      BY <1>0
    <2>2. \E h : Solves(h, From(N - (MaxDistance + 1), 1))
      BY <1>2, <2>1
    <2>3. From(1, 1) = Cursors
      <3>1. ASSUME NEW c \in Cursors PROVE c[1] > 1 \/ (c[1] = 1 /\ c[2] >= 1)
        <4>1. PICK x \in 1 .. MaxDistance + 1, y \in 1 .. BucketSizeK + 1 : c = <<x, y>>
          BY DEF Cursors
        <4>2. QED
          BY <1>0, <4>1
      <3>2. QED
        BY <3>1 DEF From
    <2>4. QED
      BY <2>1, <2>2, <2>3
  <1>3. CASE Bad # {}
    <2> HIDE DEF Bad
    <2>1. PICK n \in Bad : \A m \in Bad : n <= m
      BY <1>1, <1>3, LeastNat
    <2>2. n \in 0 .. MaxDistance + 1 /\ ~ \E h : Solves(h, From(N - n, 1))
      BY DEF Bad
    <2>3. CASE n = 0
      <3>1. ASSUME NEW c \in Cursors PROVE ~ (c[1] > N - 0 \/ (c[1] = N - 0 /\ c[2] >= 1))
        <4>1. PICK x \in 1 .. MaxDistance + 1, y \in 1 .. BucketSizeK + 1 : c = <<x, y>>
          BY DEF Cursors
        <4>2. QED
          BY <1>0, <4>1
      <3>2. From(N - 0, 1) = {}
        BY <3>1 DEF From
      <3> DEFINE g == [c \in {} |-> <<>>]
      <3>3. Solves(g, {})
        BY DEF Solves
      <3>4. QED
        BY <2>2, <2>3, <3>2, <3>3
    <2>4. CASE n # 0
      <3>1. n - 1 \in 0 .. MaxDistance + 1 /\ ~ (n <= n - 1)
        BY <1>0, <2>2, <2>4
      <3>2. n - 1 \notin Bad
        BY <2>1, <3>1
      <3>3. PICK h : Solves(h, From(N - (n - 1), 1))
        BY <3>1, <3>2 DEF Bad
      <3>4. N - (n - 1) = (N - n) + 1 /\ N - n \in 1 .. MaxDistance + 1
        BY <1>0, <2>2, <2>4
      <3>5. Solves(h, From((N - n) + 1, 1))
        BY <3>3, <3>4
      <3> HIDE DEF N
      <3>6. \E k : Solves(k, From(N - n, 1))
        BY <3>4, <3>5, OneBucketMore
      <3>7. QED
        BY <2>2, <3>6
    <2>5. QED
      BY <2>3, <2>4
  <1>4. QED
    BY <1>2, <1>3

\* nodes() is one such solution, read at the first cursor.
LEMMA AllNodesIs ==
  ASSUME TableInv
  PROVE  \E f : Solves(f, Cursors) /\ AllNodes = f[<<1, 1>>]
  <1> DEFINE F == CHOOSE h : h = [c \in Cursors |-> Yields(h, c)]
  <1>1. PICK g : g = [c \in Cursors |-> Yields(g, c)]
    BY IteratorDefined DEF Solves
  <1>2. F = [c \in Cursors |-> Yields(F, c)]
    BY <1>1
  <1>3. AllNodes = F[<<1, 1>>]
    BY DEF AllNodes, Cursors, Yields
  <1>4. QED
    BY <1>2, <1>3 DEF Solves

\* What is left to list at the cursor <<b, i>>.
Left(b, i) ==
  {c \in InTable : \/ Bucket[c.id] > b
                   \/ /\ Bucket[c.id] = b
                      /\ \E j \in DOMAIN table[b] : j >= i /\ table[b][j].contact = c}

\* The sequence lists each contact of a set once.
Lists(s, X) ==
  s \in Seq(Entries) /\ ContactsIn(s) = X /\ IsFiniteSet(X) /\ Len(s) = Cardinality(X)

\* Another contact in front is another one listed.
LEMMA ListsOneMore ==
  ASSUME NEW s, NEW X, Lists(s, X), NEW e \in Entries, e.contact \notin X
  PROVE  Lists(<<e>> \o s, X \cup {e.contact})
  <1>0. s \in Seq(Entries) /\ Len(s) \in Nat /\ DOMAIN s = 1 .. Len(s)
    BY DEF Lists
  <1>1. PICK n \in Nat : n = Len(s) /\ DOMAIN s = 1 .. n
    BY <1>0
  <1>2. <<e>> \in Seq(Entries) /\ Len(<<e>>) = 1 /\ <<e>>[1] = e
    OBVIOUS
  <1> DEFINE p == <<e>> \o s
  <1>3. /\ p \in Seq(Entries) /\ Len(p) = n + 1
        /\ \A j \in 1 .. n + 1 : p[j] = IF j <= 1 THEN e ELSE s[j - 1]
    BY <1>0, <1>1, <1>2, ConcatProperties
  <1> HIDE DEF p
  <1>4. DOMAIN p = 1 .. n + 1 /\ 1 \in 1 .. n + 1
    BY <1>3
  <1>5. \A j \in 1 .. n + 1 : j = 1 \/ j - 1 \in 1 .. n
    OBVIOUS
  <1>6. \A j \in DOMAIN p : p[j] = e \/ (j - 1 \in DOMAIN s /\ p[j] = s[j - 1])
    BY <1>1, <1>3, <1>4, <1>5
  <1>7. \A j \in DOMAIN s : j + 1 \in DOMAIN p /\ p[j + 1] = s[j]
    BY <1>1, <1>3, <1>4
  <1>8. 1 \in DOMAIN p /\ p[1] = e
    BY <1>3, <1>4
  <1>9. ContactsIn(p) = ContactsIn(s) \cup {e.contact}
    BY <1>6, <1>7, <1>8 DEF ContactsIn
  <1>10. IsFiniteSet(X) /\ Cardinality(X) = n /\ ContactsIn(s) = X
    BY <1>1 DEF Lists
  <1>11. IsFiniteSet(X \cup {e.contact}) /\ Cardinality(X \cup {e.contact}) = Cardinality(X) + 1
    BY <1>10, FS_AddElement
  <1>12. Lists(p, X \cup {e.contact})
    BY <1>3, <1>9, <1>10, <1>11 DEF Lists
  <1>13. QED
    BY <1>12 DEF p

\* A contact of the table is in the bucket of its id, at one place.
LEMMA PlaceInTable ==
  ASSUME TableInv
  PROVE  /\ InTable \subseteq Contacts
         /\ \A c \in InTable : /\ c.id \in Ids /\ Bucket[c.id] \in Buckets /\ Bucket[c.id] \in Nat
                               /\ \E j \in DOMAIN table[Bucket[c.id]] :
                                    table[Bucket[c.id]][j].contact = c
         /\ \A b \in Buckets : \A i \in DOMAIN table[b] :
              /\ table[b][i] \in Entries /\ table[b][i].contact \in InTable
              /\ Bucket[table[b][i].contact.id] = b
         /\ \A c, d \in InTable : c.id = d.id => c = d
  <1>1. \A b \in Buckets : table[b] \in Seq(Entries) /\ GoodBucket(b, table[b])
    BY DEF TableInv, BucketsInv
  <1>2. ASSUME NEW b \in Buckets, NEW i \in DOMAIN table[b]
        PROVE  /\ table[b][i] \in Entries /\ table[b][i].contact \in InTable
               /\ table[b][i].contact \in Contacts
               /\ Bucket[table[b][i].contact.id] = b
    <2>1. table[b] \in Seq(Entries) /\ Bucket[table[b][i].contact.id] = b
      BY <1>1 DEF GoodBucket
    <2>2. table[b][i] \in Entries
      BY <2>1
    <2>3. table[b][i].contact \in Contacts
      BY <2>2 DEF Entries
    <2>4. QED
      BY <2>1, <2>2, <2>3, InTableIs
  <1>3. ASSUME NEW c \in InTable
        PROVE  /\ c \in Contacts /\ c.id \in Ids /\ Bucket[c.id] \in Buckets /\ Bucket[c.id] \in Nat
               /\ \E j \in DOMAIN table[Bucket[c.id]] : table[Bucket[c.id]][j].contact = c
    <2>1. PICK b \in Buckets : \E i \in DOMAIN table[b] : table[b][i].contact = c
      BY InTableIs
    <2>2. c \in Contacts /\ Bucket[c.id] = b
      BY <1>2, <2>1
    <2>3. c.id \in Ids
      BY <2>2 DEF Ids
    <2>4. Bucket[c.id] \in Nat
      BY <2>3, ContactsAssumption
    <2>5. QED
      BY <2>1, <2>2, <2>3, <2>4
  <1>4. ASSUME NEW c \in InTable, NEW d \in InTable, c.id = d.id PROVE c = d
    <2> DEFINE b == Bucket[c.id]
    <2>1. PICK i \in DOMAIN table[b] : table[b][i].contact = c
      BY <1>3
    <2>2. PICK j \in DOMAIN table[b] : table[b][j].contact = d
      BY <1>3, <1>4
    <2>3. GoodBucket(b, table[b])
      BY <1>1, <1>3
    <2> HIDE DEF b
    <2>4. i = j
      BY <1>4, <2>1, <2>2, <2>3 DEF GoodBucket
    <2>5. QED
      BY <2>1, <2>2, <2>4
  <1>5. QED
    BY <1>2, <1>3, <1>4

\* At the start of a bucket, its contacts and those of the later ones are left.
LEMMA LeftAtStart ==
  ASSUME TableInv, NEW b \in Nat
  PROVE  /\ Left(b, 1) = {c \in InTable : Bucket[c.id] >= b}
         /\ Left(b + 1, 1) = {c \in InTable : Bucket[c.id] > b}
  <1>1. ASSUME NEW a \in Nat PROVE Left(a, 1) = {c \in InTable : Bucket[c.id] >= a}
    <2>1. ASSUME NEW c \in InTable
          PROVE  (\/ Bucket[c.id] > a
                  \/ /\ Bucket[c.id] = a
                     /\ \E j \in DOMAIN table[a] : j >= 1 /\ table[a][j].contact = c)
                 <=> Bucket[c.id] >= a
      <3>1. Bucket[c.id] \in Nat /\ Bucket[c.id] \in Buckets
        BY PlaceInTable
      <3>2. PICK j \in DOMAIN table[Bucket[c.id]] : table[Bucket[c.id]][j].contact = c
        BY PlaceInTable
      <3>3. j >= 1
        BY <3>1, <3>2, BucketFacts
      <3>4. QED
        BY <3>1, <3>2, <3>3
    <2>2. QED
      BY <2>1 DEF Left
  <1>2. \A c \in InTable : Bucket[c.id] >= b + 1 <=> Bucket[c.id] > b
    BY PlaceInTable
  <1>3. b + 1 \in Nat
    OBVIOUS
  <1>4. Left(b + 1, 1) = {c \in InTable : Bucket[c.id] >= b + 1}
    BY <1>1, <1>3
  <1>5. QED
    BY <1>1, <1>2, <1>4

\* Past a node, the others of its bucket are left.
LEMMA LeftPastNode ==
  ASSUME TableInv, NEW b \in Buckets, NEW i \in DOMAIN table[b]
  PROVE  LET s == Successor(<<b, i>>)
         IN  /\ AtNode(<<b, i>>)
             /\ table[b][i].contact \notin Left(s[1], s[2])
             /\ Left(b, i) = Left(s[1], s[2]) \cup {table[b][i].contact}
  <1> DEFINE c == table[b][i].contact
             n == Len(table[b])
  <1>1. n \in Nat /\ DOMAIN table[b] = 1 .. n /\ b \in Nat /\ i \in 1 .. n
    BY BucketFacts
  <1>2. c \in InTable /\ Bucket[c.id] = b
    BY PlaceInTable
  <1>3. \A j \in DOMAIN table[b] : table[b][j].contact = c => j = i
    BY DEF TableInv, BucketsInv, GoodBucket
  <1>4. AtNode(<<b, i>>)
    BY <1>1 DEF AtNode
  <1>5. Successor(<<b, i>>) = IF i = n THEN <<b + 1, 1>> ELSE <<b, i + 1>>
    BY <1>4 DEF Successor, CursorAfter
  <1> HIDE DEF c, n
  <1>6. CASE i = n
    <2>1. Left(b + 1, 1) = {d \in InTable : Bucket[d.id] > b}
      BY <1>1, LeftAtStart
    <2>2. \A j \in DOMAIN table[b] : j >= i <=> j = i
      BY <1>1, <1>6
    <2>3. Left(b, i) = Left(b + 1, 1) \cup {c}
      BY <1>2, <2>1, <2>2 DEF Left, c
    <2>4. c \notin Left(b + 1, 1)
      BY <1>1, <1>2, <2>1
    <2>5. Successor(<<b, i>>)[1] = b + 1 /\ Successor(<<b, i>>)[2] = 1
      BY <1>5, <1>6
    <2>6. QED
      BY <1>4, <2>3, <2>4, <2>5 DEF c
  <1>7. CASE i # n
    <2>1. \A j \in DOMAIN table[b] : j >= i <=> (j = i \/ j >= i + 1)
      BY <1>1
    <2>2. ~ (i >= i + 1)
      BY <1>1
    <2>3. Left(b, i) = Left(b, i + 1) \cup {c}
      BY <1>2, <2>1 DEF Left, c
    <2>4. c \notin Left(b, i + 1)
      BY <1>1, <1>2, <1>3, <2>2 DEF Left
    <2>5. Successor(<<b, i>>)[1] = b /\ Successor(<<b, i>>)[2] = i + 1
      BY <1>5, <1>7
    <2>6. QED
      BY <1>4, <2>3, <2>4, <2>5 DEF c
  <1>8. QED
    BY <1>6, <1>7

\* A bucket is listed from its first node on, before the later ones.
LEMMA BucketListed ==
  ASSUME TableInv, NEW f, Solves(f, Cursors), NEW b \in 1 .. MaxDistance,
         Lists(f[<<b + 1, 1>>], Left(b + 1, 1))
  PROVE  Lists(f[<<b, 1>>], Left(b, 1))
  <1>0. MaxDistance \in Nat /\ BucketSizeK \in Nat /\ b \in Nat /\ b + 1 \in 1 .. MaxDistance + 1
    BY BucketFacts
  <1>1. \A c \in Cursors : f[c] = Yields(f, c)
    BY DEF Solves
  <1>2. CASE b \in Buckets /\ Len(table[b]) > 0
    <2>1. PICK n \in Nat : n = Len(table[b]) /\ DOMAIN table[b] = 1 .. n /\ n > 0 /\ n <= BucketSizeK
      BY <1>2, BucketFacts
    <2> DEFINE Bad == {m \in 0 .. n - 1 : ~ Lists(f[<<b, n - m>>], Left(b, n - m))}
    <2>2. Bad \in SUBSET Nat
      BY <2>1
    <2>3. CASE Bad = {}
      <3>1. n - 1 \in 0 .. n - 1 /\ n - (n - 1) = 1
        BY <2>1
      <3>2. Lists(f[<<b, n - (n - 1)>>], Left(b, n - (n - 1)))
        BY <2>3, <3>1
      <3>3. QED
        BY <3>1, <3>2
    <2>4. CASE Bad # {}
      <3> HIDE DEF Bad
      <3>1. PICK m \in Bad : \A l \in Bad : m <= l
        BY <2>2, <2>4, LeastNat
      <3>2. m \in 0 .. n - 1 /\ ~ Lists(f[<<b, n - m>>], Left(b, n - m))
        BY DEF Bad
      <3>3. PICK i \in 1 .. n : i = n - m
        BY <2>1, <3>2
      <3> DEFINE c == <<b, i>>
                 s == Successor(c)
                 e == table[b][i]
      <3>4. i \in DOMAIN table[b] /\ i \in 1 .. BucketSizeK + 1 /\ b \in 1 .. MaxDistance + 1
        BY <1>0, <2>1
      <3>5. c \in Cursors /\ c[1] = b /\ c[2] = i /\ ~ (c[1] > MaxDistance)
        BY <1>0, <3>4 DEF Cursors
      <3>6. /\ AtNode(c) /\ e.contact \notin Left(s[1], s[2])
            /\ Left(b, i) = Left(s[1], s[2]) \cup {e.contact}
        BY <1>2, <3>4, LeftPastNode
      <3>7. Yields(f, c) = <<e>> \o f[s]
        BY <3>5, <3>6, GoesForward
      <3>8. f[c] = <<e>> \o f[s]
        BY <1>1, <3>5, <3>7
      <3>9. e \in Entries
        BY <1>2, <3>4, PlaceInTable
      <3>10. Lists(f[s], Left(s[1], s[2]))
        <4>1. s = IF i = n THEN <<b + 1, 1>> ELSE <<b, i + 1>>
          BY <2>1, <3>5, <3>6 DEF Successor, CursorAfter
        <4>2. CASE i = n
          BY <4>1, <4>2
        <4>3. CASE i # n
          <5>1. m - 1 \in 0 .. n - 1 /\ ~ (m <= m - 1) /\ n - (m - 1) = i + 1
            BY <2>1, <3>2, <3>3, <4>3
          <5>2. m - 1 \notin Bad
            BY <3>1, <5>1
          <5>3. Lists(f[<<b, n - (m - 1)>>], Left(b, n - (m - 1)))
            BY <5>1, <5>2 DEF Bad
          <5>4. Lists(f[<<b, i + 1>>], Left(b, i + 1))
            BY <5>1, <5>3
          <5>5. s = <<b, i + 1>> /\ s[1] = b /\ s[2] = i + 1
            BY <4>1, <4>3
          <5>6. QED
            BY <5>4, <5>5
        <4>4. QED
          BY <4>2, <4>3
      <3> HIDE DEF s, e
      <3>11. Lists(<<e>> \o f[s], Left(s[1], s[2]) \cup {e.contact})
        BY <3>6, <3>9, <3>10, ListsOneMore
      <3>12. Lists(f[<<b, i>>], Left(b, i))
        BY <3>6, <3>8, <3>11
      <3>13. QED
        BY <3>2, <3>3, <3>12
    <2>5. QED
      BY <2>3, <2>4
  <1>3. CASE ~ (b \in Buckets /\ Len(table[b]) > 0)
    <2> DEFINE c == <<b, 1>>
    <2>1. c \in Cursors /\ c[1] = b /\ c[2] = 1 /\ ~ (c[1] > MaxDistance)
      BY <1>0 DEF Cursors
    <2>2. ~ AtNode(c)
      BY <1>3, <2>1, BucketFacts DEF AtNode
    <2>3. Successor(c) = <<b + 1, 1>>
      BY <2>1, <2>2 DEF Successor
    <2>4. f[<<b, 1>>] = f[<<b + 1, 1>>]
      <3>1. Yields(f, c) = IF AtNode(c) THEN <<table[c[1]][c[2]]>> \o f[Successor(c)]
                           ELSE f[Successor(c)]
        BY <2>1, GoesForward
      <3>2. f[c] = Yields(f, c)
        BY <1>1, <2>1
      <3>3. QED
        BY <2>2, <2>3, <3>1, <3>2, Zenon
    <2>5. \A d \in InTable : Bucket[d.id] # b
      <3> SUFFICES ASSUME NEW d \in InTable, Bucket[d.id] = b PROVE FALSE
        OBVIOUS
      <3>1. b \in Buckets /\ \E j \in DOMAIN table[b] : table[b][j].contact = d
        BY PlaceInTable
      <3>2. QED
        BY <1>3, <3>1, BucketFacts
    <2>6. \A d \in InTable : Bucket[d.id] >= b <=> Bucket[d.id] > b
      BY <1>0, <2>5, PlaceInTable
    <2>7. Left(b, 1) = Left(b + 1, 1)
      BY <1>0, <2>6, LeftAtStart
    <2>8. QED
      BY <2>4, <2>7
  <1>4. QED
    BY <1>2, <1>3

\* RoutingTable::nodes yields every node of the table once.
LEMMA IteratedOnce == ASSUME TableInv PROVE Lists(AllNodes, InTable)
  <1>0. MaxDistance \in Nat /\ BucketSizeK \in Nat
    BY BucketFacts
  <1>1. PICK f : Solves(f, Cursors) /\ AllNodes = f[<<1, 1>>]
    BY AllNodesIs
  <1> DEFINE N == MaxDistance + 1
             Bad == {m \in 0 .. MaxDistance : ~ Lists(f[<<N - m, 1>>], Left(N - m, 1))}
  <1>2. Bad \in SUBSET Nat
    BY <1>0
  <1>3. CASE Bad = {}
    <2>1. MaxDistance \in 0 .. MaxDistance /\ N - MaxDistance = 1
      BY <1>0
    <2>2. Lists(f[<<N - MaxDistance, 1>>], Left(N - MaxDistance, 1))
      BY <1>3, <2>1
    <2>3. Left(1, 1) = InTable
      <3>1. \A c \in InTable : Bucket[c.id] >= 1
        BY PlaceInTable, BucketFacts
      <3>2. QED
        BY <3>1, LeftAtStart
    <2>4. QED
      BY <1>1, <2>1, <2>2, <2>3
  <1>4. CASE Bad # {}
    <2> HIDE DEF Bad
    <2>1. PICK m \in Bad : \A l \in Bad : m <= l
      BY <1>2, <1>4, LeastNat
    <2>2. m \in 0 .. MaxDistance /\ ~ Lists(f[<<N - m, 1>>], Left(N - m, 1))
      BY DEF Bad
    <2>3. CASE m = 0
      <3>1. N - m = N /\ N \in Nat
        BY <1>0, <2>3
      <3>2. <<N, 1>> \in Cursors /\ N > MaxDistance
        BY <1>0 DEF Cursors
      <3>3. f[<<N, 1>>] = <<>>
        BY <1>1, <3>2 DEF Solves, Yields
      <3>4. Left(N, 1) = {}
        <4>1. \A c \in InTable : ~ (Bucket[c.id] >= N)
          BY <1>0, PlaceInTable, BucketFacts
        <4>2. QED
          BY <3>1, <4>1, LeftAtStart
      <3>5. Lists(<<>>, {})
        BY FS_EmptySet DEF Lists, ContactsIn
      <3>6. QED
        BY <2>2, <3>1, <3>3, <3>4, <3>5
    <2>4. CASE m # 0
      <3>1. m - 1 \in 0 .. MaxDistance /\ ~ (m <= m - 1) /\ N - (m - 1) = (N - m) + 1
            /\ N - m \in 1 .. MaxDistance
        BY <1>0, <2>2, <2>4
      <3>2. m - 1 \notin Bad
        BY <2>1, <3>1
      <3>3. Lists(f[<<N - (m - 1), 1>>], Left(N - (m - 1), 1))
        BY <3>1, <3>2 DEF Bad
      <3>4. Lists(f[<<(N - m) + 1, 1>>], Left((N - m) + 1, 1))
        BY <3>1, <3>3
      <3> HIDE DEF N
      <3>5. Lists(f[<<N - m, 1>>], Left(N - m, 1))
        BY <1>1, <3>1, <3>4, BucketListed
      <3>6. QED
        BY <2>2, <3>5
    <2>5. QED
      BY <2>3, <2>4
  <1>5. QED
    BY <1>3, <1>4

-----------------------------------------------------------------------------
(* The closest nodes *)

\* The secure ones come first, and then the closer ones.
Ordered(t, list) == \A i, j \in DOMAIN list : i < j => Before(t, list[i], list[j])

\* The list has the contacts of X, but for those with the IP of an insecure one.
Covers(list, X) ==
  \A c \in X : \/ \E i \in DOMAIN list : list[i] = c
               \/ \E i \in DOMAIN list : list[i].ip = c.ip /\ ~ list[i].secure

\* What closest() shall be once it has taken in the contacts of X.
GoodList(t, list, X) == list \in Seq(InTable) /\ Ordered(t, list) /\ Covers(list, X)

\* Before is a total order on contacts that differ in their id.
LEMMA BeforeOrders ==
  ASSUME NEW t \in DOMAIN Rank, NEW c \in Contacts, NEW d \in Contacts
  PROVE  /\ \A e \in Contacts : Before(t, c, d) /\ Before(t, d, e) => Before(t, c, e)
         /\ ~ (Before(t, c, d) /\ Before(t, d, c))
         /\ Before(t, c, d) \/ Before(t, d, c) \/ (c.id = d.id /\ c.secure = d.secure)
         /\ Before(t, c, d) => /\ d.secure => c.secure
                               /\ c.secure = d.secure => Rank[t][c.id] < Rank[t][d.id]
  <1>1. \A e \in Contacts : e.secure \in BOOLEAN /\ e.id \in Ids
    BY ContactsAssumption DEF Ids
  <1>2. \A i \in Ids : Rank[t][i] \in Nat
    BY DistancesAssumption
  <1>3. \A i, j \in Ids : Rank[t][i] = Rank[t][j] => i = j
    BY DistancesAssumption
  <1>4. \A e \in Contacts : Rank[t][e.id] \in Nat
    BY <1>1, <1>2
  <1>5. \A e \in Contacts : Before(t, c, d) /\ Before(t, d, e) => Before(t, c, e)
    <2> SUFFICES ASSUME NEW e \in Contacts, Before(t, c, d), Before(t, d, e)
                 PROVE  Before(t, c, e)
      OBVIOUS
    <2>1. Rank[t][c.id] \in Nat /\ Rank[t][d.id] \in Nat /\ Rank[t][e.id] \in Nat
      BY <1>4
    <2>2. c.secure \in BOOLEAN /\ d.secure \in BOOLEAN /\ e.secure \in BOOLEAN
      BY <1>1
    <2>3. QED
      BY <2>1, <2>2 DEF Before
  <1>6. Rank[t][c.id] \in Nat /\ Rank[t][d.id] \in Nat /\ c.secure \in BOOLEAN /\ d.secure \in BOOLEAN
    BY <1>1, <1>4
  <1>7. Rank[t][c.id] = Rank[t][d.id] => c.id = d.id
    BY <1>1, <1>3
  <1>8. ~ (Before(t, c, d) /\ Before(t, d, c))
    BY <1>6 DEF Before
  <1>9. Before(t, c, d) \/ Before(t, d, c) \/ (c.id = d.id /\ c.secure = d.secure)
    BY <1>6, <1>7 DEF Before
  <1>10. Before(t, c, d) => /\ d.secure => c.secure
                            /\ c.secure = d.secure => Rank[t][c.id] < Rank[t][d.id]
    BY <1>6 DEF Before
  <1>11. QED
    BY <1>5, <1>8, <1>9, <1>10

\* Vec::insert at position p + 1.
Inserted(s, c, p) == SubSeq(s, 1, p) \o <<c>> \o SubSeq(s, p + 1, Len(s))

\* The elements before the position stay, the later ones move up by one.
LEMMA InsertIs ==
  ASSUME NEW S, NEW s \in Seq(S), NEW c \in S, NEW p \in 0 .. Len(s)
  PROVE  LET u == Inserted(s, c, p)
         IN  /\ u \in Seq(S) /\ Len(u) = Len(s) + 1
             /\ \A j \in 1 .. Len(s) + 1 :
                  u[j] = IF j <= p THEN s[j] ELSE IF j = p + 1 THEN c ELSE s[j - 1]
  <1>0. Len(s) \in Nat /\ DOMAIN s = 1 .. Len(s) /\ p \in Nat
    OBVIOUS
  <1>1. PICK n \in Nat : n = Len(s) /\ DOMAIN s = 1 .. n /\ p \in 0 .. n
    BY <1>0
  <1> DEFINE a == SubSeq(s, 1, p)
             b == SubSeq(s, p + 1, Len(s))
             ac == a \o <<c>>
             u == ac \o b
  <1>2. (\A j \in 1 .. p : s[j] \in S) /\ (\A j \in p + 1 .. Len(s) : s[j] \in S)
    BY <1>0
  <1>3. a \in Seq(S) /\ Len(a) = p /\ \A j \in 1 .. p : a[j] = s[j]
    BY <1>0, <1>2, SubSeqProperties
  <1>4. b \in Seq(S) /\ Len(b) = Len(s) - p /\ \A j \in 1 .. Len(s) - p : b[j] = s[p + j]
    <2> DEFINE q == p + 1
               l == Len(s)
    <2>1. q \in 1 .. l + 1 /\ l \in Nat /\ q \in Int /\ l \in Int /\ \A j \in q .. l : s[j] \in S
      BY <1>1, <1>2
    <2> HIDE DEF q, l
    <2>2. /\ SubSeq(s, q, l) \in Seq(S)
          /\ Len(SubSeq(s, q, l)) = IF q <= l THEN l - q + 1 ELSE 0
          /\ \A j \in 1 .. l - q + 1 : SubSeq(s, q, l)[j] = s[q + j - 1]
      <3>1. /\ q \in Int /\ l \in Int
            /\ \A j \in q .. l : s[j] \in S
        BY <2>1
      <3>2. QED
        BY <3>1, SubSeqProperties
    <2>3. l - q + 1 = Len(s) - p /\ (~ (q <= l) => Len(s) - p = 0)
      <3>1. l = n /\ q = p + 1 /\ Len(s) = n /\ n \in Nat /\ p \in Nat /\ p <= n
        BY <1>0, <1>1 DEF q, l
      <3>2. QED
        BY ONLY <3>1
    <2>4. \A j \in 1 .. Len(s) - p : q + j - 1 = p + j
      BY <1>0 DEF q
    <2>5. b = SubSeq(s, q, l)
      BY DEF q, l
    <2> HIDE DEF b
    <2>6. QED
      BY <2>2, <2>3, <2>4, <2>5
  <1>5. <<c>> \in Seq(S) /\ Len(<<c>>) = 1 /\ <<c>>[1] = c
    OBVIOUS
  <1> HIDE DEF a, b
  <1>6. /\ ac \in Seq(S) /\ Len(ac) = Len(a) + Len(<<c>>)
        /\ \A j \in 1 .. Len(a) + Len(<<c>>) :
             ac[j] = IF j <= Len(a) THEN a[j] ELSE <<c>>[j - Len(a)]
    <2>1. a \in Seq(S) /\ <<c>> \in Seq(S)
      BY <1>3, <1>5
    <2>2. QED
      BY <2>1, ConcatProperties, Zenon
  <1>7. /\ Len(ac) = p + 1 /\ ac \in Seq(S)
        /\ \A j \in 1 .. p + 1 : ac[j] = IF j <= p THEN s[j] ELSE c
    <2>1. Len(a) = p /\ Len(<<c>>) = 1 /\ Len(a) + Len(<<c>>) = p + 1
      BY <1>3, <1>5
    <2>2. \A j \in 1 .. p + 1 : ac[j] = IF j <= p THEN a[j] ELSE <<c>>[j - p]
      BY <1>6, <2>1
    <2>3. \A j \in 1 .. p + 1 : j <= p \/ j - p = 1
      BY <1>0
    <2>4. \A j \in 1 .. p + 1 : j <= p => j \in 1 .. p
      BY <1>0
    <2> HIDE DEF ac
    <2>5. QED
      BY <1>3, <1>5, <1>6, <2>1, <2>2, <2>3, <2>4
  <1> HIDE DEF ac
  <1>8. /\ u \in Seq(S) /\ Len(u) = Len(ac) + Len(b)
        /\ \A j \in 1 .. Len(ac) + Len(b) :
             u[j] = IF j <= Len(ac) THEN ac[j] ELSE b[j - Len(ac)]
    <2>1. ac \in Seq(S) /\ b \in Seq(S)
      BY <1>4, <1>7
    <2>2. QED
      BY <2>1, ConcatProperties, Zenon
  <1> HIDE DEF u
  <1>9. Len(ac) = p + 1 /\ Len(ac) + Len(b) = n + 1
    <2>1. (p + 1) + (n - p) = n + 1
      BY <1>0, <1>1
    <2>2. QED
      BY <1>1, <1>4, <1>7, <2>1, Zenon
  <1>10. \A j \in 1 .. n + 1 : u[j] = IF j <= p + 1 THEN ac[j] ELSE b[j - (p + 1)]
    BY <1>8, <1>9, Zenon
  <1>11. ASSUME NEW j \in 1 .. n + 1
         PROVE  u[j] = IF j <= p THEN s[j] ELSE IF j = p + 1 THEN c ELSE s[j - 1]
    <2>1. CASE j <= p + 1
      <3>1. j \in 1 .. p + 1 /\ (j <= p \/ j = p + 1) /\ ~ (p + 1 <= p)
        BY <1>1, <2>1
      <3>2. u[j] = ac[j]
        BY <1>10, <2>1
      <3>3. QED
        BY <1>7, <3>1, <3>2
    <2>2. CASE ~ (j <= p + 1)
      <3>1. j - (p + 1) \in 1 .. n - p /\ p + (j - (p + 1)) = j - 1 /\ ~ (j <= p) /\ j # p + 1
        BY <1>1, <2>2
      <3>2. u[j] = b[j - (p + 1)]
        BY <1>10, <2>2
      <3>3. b[j - (p + 1)] = s[p + (j - (p + 1))]
        BY <1>1, <1>4, <3>1, Zenon
      <3>4. u[j] = s[j - 1]
        BY <3>1, <3>2, <3>3, Zenon
      <3>5. QED
        BY <3>1, <3>4
    <2>3. QED
      BY <2>1, <2>2
  <1>12. u \in Seq(S) /\ Len(u) = n + 1
    BY <1>8, <1>9
  <1>13. QED
    BY <1>1, <1>11, <1>12 DEF u, ac, a, b, Inserted

\* In an ordered list, the nodes ahead of a contact are the first ones.
LEMMA AheadAreFirst ==
  ASSUME NEW t \in DOMAIN Rank, NEW list \in Seq(Contacts), Ordered(t, list), NEW c \in Contacts
  PROVE  LET ahead == {i \in DOMAIN list : Before(t, list[i], c)}
         IN  /\ Cardinality(ahead) \in 0 .. Len(list)
             /\ ahead = 1 .. Cardinality(ahead)
  <1> DEFINE ahead == {i \in DOMAIN list : Before(t, list[i], c)}
  <1>0. Len(list) \in Nat /\ DOMAIN list = 1 .. Len(list)
    OBVIOUS
  <1>1. PICK n \in Nat : n = Len(list) /\ DOMAIN list = 1 .. n
    BY <1>0
  <1>2. ASSUME NEW i \in 1 .. n, NEW j \in 1 .. n, i < j, j \in ahead PROVE i \in ahead
    <2>1. list[i] \in Contacts /\ list[j] \in Contacts
      BY <1>1
    <2>2. Before(t, list[i], list[j]) /\ Before(t, list[j], c)
      BY <1>1, <1>2 DEF Ordered
    <2>3. Before(t, list[i], c)
      BY <2>1, <2>2, BeforeOrders
    <2>4. QED
      BY <1>1, <2>3
  <1>3. ahead \subseteq 1 .. n
    BY <1>1
  <1> HIDE DEF ahead
  <1> DEFINE Ends == {m \in 0 .. n : m + 1 \notin ahead}
  <1>4. Ends \in SUBSET Nat /\ n \in Ends
    BY <1>1, <1>3
  <1> HIDE DEF Ends
  <1>5. PICK p \in Ends : \A m \in Ends : p <= m
    BY <1>4, LeastNat
  <1>6. p \in 0 .. n /\ p + 1 \notin ahead /\ p \in Nat
    BY <1>1 DEF Ends
  <1>7. ASSUME NEW i \in 1 .. p PROVE i \in ahead
    <2>1. i - 1 \in 0 .. n /\ ~ (p <= i - 1) /\ (i - 1) + 1 = i
      BY <1>1, <1>6
    <2>2. i - 1 \notin Ends
      BY <1>5, <2>1
    <2>3. QED
      BY <2>1, <2>2 DEF Ends
  <1>8. ASSUME NEW i \in ahead PROVE i \in 1 .. p
    <2>1. i \in 1 .. n
      BY <1>3
    <2>2. CASE i <= p
      BY <1>6, <2>1, <2>2
    <2>3. CASE ~ (i <= p)
      <3>1. p + 1 \in 1 .. n /\ (i = p + 1 \/ p + 1 < i)
        BY <1>1, <1>6, <2>1, <2>3
      <3>2. QED
        BY <1>2, <1>6, <2>1, <3>1
    <2>4. QED
      BY <2>2, <2>3
  <1>9. ahead = 1 .. p
    BY <1>7, <1>8
  <1>10. Cardinality(1 .. p) = p
    BY <1>6, FS_Interval
  <1>11. QED
    BY <1>1, <1>6, <1>9, <1>10 DEF ahead

\* ClosestNodes::add keeps the order, and what it leaves out is covered.
LEMMA AddClosestGood ==
  ASSUME TableInv, NEW t \in DOMAIN Rank, NEW list, NEW X \in SUBSET InTable,
         GoodList(t, list, X), NEW c \in InTable
  PROVE  GoodList(t, AddClosest(t, list, c), X \cup {c})
  <1> DEFINE listed == {list[i] : i \in DOMAIN list}
             known == AlreadyExists(c, listed) \/ \E d \in listed : d.id = c.id /\ d.secure = c.secure
  <1>1. InTable \subseteq Contacts /\ \A d \in InTable : d.id = c.id => d = c
    BY PlaceInTable
  <1>2. list \in Seq(InTable) /\ Ordered(t, list) /\ Covers(list, X)
    BY DEF GoodList
  <1>3. Len(list) \in Nat /\ DOMAIN list = 1 .. Len(list) /\ \A i \in DOMAIN list : list[i] \in InTable
    BY <1>2
  <1>4. list \in Seq(Contacts)
    BY <1>1, <1>2
  <1>5. CASE known
    <2>1. AddClosest(t, list, c) = list
      BY <1>5 DEF AddClosest
    <2>2. \/ \E i \in DOMAIN list : list[i] = c
          \/ \E i \in DOMAIN list : list[i].ip = c.ip /\ ~ list[i].secure
      <3>1. ASSUME NEW i \in DOMAIN list, list[i].id = c.id PROVE list[i] = c
        BY <1>1, <1>3, <3>1
      <3>2. ASSUME NEW i \in DOMAIN list, c.ip = list[i].ip, c.prefix = list[i].prefix
            PROVE  list[i] = c
        <4>1. list[i] \in InTable /\ PerIpLimit
          BY <1>3 DEF TableInv
        <4>2. QED
          BY <3>2, <4>1 DEF PerIpLimit
      <3>3. CASE AlreadyExists(c, listed)
        <4>1. PICK i \in DOMAIN list : c.ip = list[i].ip /\ (~ list[i].secure \/ c.prefix = list[i].prefix)
          BY <3>3 DEF AlreadyExists
        <4>2. CASE ~ list[i].secure
          BY <4>1, <4>2
        <4>3. CASE c.prefix = list[i].prefix
          BY <3>2, <4>1, <4>3
        <4>4. QED
          BY <4>1, <4>2, <4>3
      <3>4. CASE \E d \in listed : d.id = c.id /\ d.secure = c.secure
        <4>1. PICK i \in DOMAIN list : list[i].id = c.id
          BY <3>4
        <4>2. QED
          BY <3>1, <4>1
      <3>5. QED
        BY <1>5, <3>3, <3>4
    <2>3. Covers(list, X \cup {c})
      BY <1>2, <2>2 DEF Covers
    <2>4. QED
      BY <1>2, <2>1, <2>3 DEF GoodList
  <1>6. CASE ~ known
    <2> DEFINE ahead == {i \in DOMAIN list : Before(t, list[i], c)}
               p == Cardinality(ahead)
               u == Inserted(list, c, p)
    <2>1. AddClosest(t, list, c) = u
      BY <1>6 DEF AddClosest, Inserted
    <2>2. p \in 0 .. Len(list) /\ ahead = 1 .. p
      BY <1>1, <1>2, <1>4, AheadAreFirst
    <2>3. \A i \in DOMAIN list : ~ (list[i].id = c.id /\ list[i].secure = c.secure)
      BY <1>6
    <2> HIDE DEF p
    <2>4. /\ u \in Seq(InTable) /\ Len(u) = Len(list) + 1
          /\ \A j \in 1 .. Len(list) + 1 :
               u[j] = IF j <= p THEN list[j] ELSE IF j = p + 1 THEN c ELSE list[j - 1]
      BY <1>2, <2>2, InsertIs
    <2>5. PICK n \in Nat : n = Len(list) /\ DOMAIN list = 1 .. n /\ p \in 0 .. n
      BY <1>3, <2>2
    <2>6. \A i \in 1 .. p : Before(t, list[i], c)
      BY <2>2
    <2>7. ASSUME NEW i \in 1 .. n, i > p PROVE Before(t, c, list[i])
      <3>1. i \in DOMAIN list /\ i \notin ahead
        BY <2>2, <2>5, <2>7
      <3>2. ~ Before(t, list[i], c) /\ list[i] \in Contacts /\ c \in Contacts
        BY <1>1, <1>3, <3>1
      <3>3. QED
        BY <2>3, <3>1, <3>2, BeforeOrders
    <2> HIDE DEF u, ahead
    <2>8. /\ u \in Seq(InTable) /\ DOMAIN u = 1 .. n + 1
          /\ \A j \in 1 .. n + 1 :
               u[j] = IF j <= p THEN list[j] ELSE IF j = p + 1 THEN c ELSE list[j - 1]
      BY <2>4, <2>5
    <2>9. Ordered(t, u)
      <3> SUFFICES ASSUME NEW i \in 1 .. n + 1, NEW j \in 1 .. n + 1, i < j
                   PROVE  Before(t, u[i], u[j])
        BY <2>8 DEF Ordered
      <3>0. \A k, l \in 1 .. n : k < l => Before(t, list[k], list[l])
        BY <1>2, <2>5 DEF Ordered
      <3>1. CASE j <= p
        <4>1. i \in 1 .. n /\ j \in 1 .. n /\ i <= p
          BY <2>5, <3>1
        <4>2. u[i] = list[i] /\ u[j] = list[j]
          BY <2>8, <3>1, <4>1
        <4>3. QED
          BY <3>0, <4>1, <4>2
      <3>2. CASE j = p + 1
        <4>1. i \in 1 .. p /\ i <= p /\ ~ (j <= p)
          BY <2>5, <3>2
        <4>2. u[i] = list[i] /\ u[j] = c
          BY <2>8, <3>2, <4>1
        <4>3. QED
          BY <2>6, <4>1, <4>2
      <3>3. CASE j > p + 1
        <4>1. j - 1 \in 1 .. n /\ ~ (j <= p) /\ j # p + 1 /\ j - 1 > p
          BY <2>5, <3>3
        <4>2. u[j] = list[j - 1]
          BY <2>8, <4>1
        <4>3. CASE i <= p
          <5>1. i \in 1 .. n /\ i < j - 1
            BY <2>5, <3>3, <4>3
          <5>2. u[i] = list[i]
            BY <2>8, <4>3
          <5>3. QED
            BY <3>0, <4>1, <4>2, <5>1, <5>2
        <4>4. CASE i = p + 1
          <5>1. ~ (i <= p)
            BY <2>5, <4>4
          <5>2. u[i] = c
            BY <2>8, <4>4, <5>1
          <5>3. QED
            BY <2>7, <4>1, <4>2, <5>2
        <4>5. CASE i > p + 1
          <5>1. i - 1 \in 1 .. n /\ ~ (i <= p) /\ i # p + 1 /\ i - 1 < j - 1
            BY <2>5, <4>5
          <5>2. u[i] = list[i - 1]
            BY <2>8, <5>1
          <5>3. QED
            BY <3>0, <4>1, <4>2, <5>1, <5>2
        <4>6. QED
          BY <2>5, <4>3, <4>4, <4>5
      <3>4. QED
        BY <2>5, <3>1, <3>2, <3>3
    <2>10. ASSUME NEW i \in DOMAIN list PROVE \E j \in DOMAIN u : u[j] = list[i]
      <3>1. CASE i <= p
        <4>1. i \in DOMAIN u /\ u[i] = list[i]
          BY <2>5, <2>8, <3>1
        <4>2. QED
          BY <4>1
      <3>2. CASE ~ (i <= p)
        <4>1. i + 1 \in 1 .. n + 1 /\ ~ (i + 1 <= p) /\ i + 1 # p + 1 /\ (i + 1) - 1 = i
          BY <2>5, <3>2
        <4>2. i + 1 \in DOMAIN u /\ u[i + 1] = list[i]
          BY <2>8, <4>1
        <4>3. QED
          BY <4>2
      <3>3. QED
        BY <3>1, <3>2
    <2>11. p + 1 \in DOMAIN u /\ u[p + 1] = c
      <3>1. p + 1 \in 1 .. n + 1 /\ ~ (p + 1 <= p)
        BY <2>5
      <3>2. QED
        BY <2>8, <3>1
    <2>12. Covers(u, X \cup {c})
      <3> SUFFICES ASSUME NEW d \in X \cup {c}
                   PROVE  \/ \E i \in DOMAIN u : u[i] = d
                          \/ \E i \in DOMAIN u : u[i].ip = d.ip /\ ~ u[i].secure
        BY DEF Covers
      <3>1. CASE d = c
        BY <2>11, <3>1
      <3>2. CASE d \in X
        <4>1. \/ \E i \in DOMAIN list : list[i] = d
              \/ \E i \in DOMAIN list : list[i].ip = d.ip /\ ~ list[i].secure
          BY <1>2, <3>2 DEF Covers
        <4>2. QED
          BY <2>10, <4>1
      <3>3. QED
        BY <3>1, <3>2
    <2>13. QED
      BY <2>1, <2>8, <2>9, <2>12 DEF GoodList
  <1>7. QED
    BY <1>5, <1>6

\* The list that is made of all nodes of the table has them in order.
LEMMA ClosestGood ==
  ASSUME TableInv, NEW t \in DOMAIN Rank
  PROVE  GoodList(t, closest(t), InTable)
  <1> DEFINE A == AllNodes
             X(n) == {A[i].contact : i \in 1 .. n}
             Good(f, m) == /\ \A n \in 0 .. m : GoodList(t, f[n], X(n))
                           /\ f = [n \in 0 .. m |-> IF n = 0 THEN <<>>
                                                    ELSE AddClosest(t, f[n - 1], A[n].contact)]
  <1>1. A \in Seq(Entries) /\ ContactsIn(A) = InTable
    BY IteratedOnce DEF Lists
  <1>2. Len(A) \in Nat /\ DOMAIN A = 1 .. Len(A)
    BY <1>1
  <1> HIDE DEF A
  <1>3. PICK N \in Nat : N = Len(A) /\ DOMAIN A = 1 .. N
    BY <1>2
  <1>4. \A i \in 1 .. N : A[i].contact \in InTable
    BY <1>1, <1>3 DEF ContactsIn
  <1>5. X(0) = {} /\ X(N) = InTable
    BY <1>1, <1>3 DEF ContactsIn
  <1>6. ASSUME NEW n \in 1 .. N PROVE X(n) = X(n - 1) \cup {A[n].contact} /\ X(n - 1) \subseteq InTable
    <2>1. 1 .. n = (1 .. n - 1) \cup {n} /\ 1 .. n - 1 \subseteq 1 .. N
      OBVIOUS
    <2>2. QED
      BY <1>4, <2>1
  <1>7. GoodList(t, <<>>, X(0))
    <2>1. <<>> \in Seq(InTable) /\ DOMAIN <<>> = {}
      OBVIOUS
    <2>2. QED
      BY <1>5, <2>1 DEF GoodList, Ordered, Covers
  <1> HIDE DEF X
  <1>8. ASSUME NEW m \in 0 .. N PROVE \E f : Good(f, m)
    <2> DEFINE Bad == {l \in 0 .. N : ~ \E f : Good(f, l)}
    <2> SUFFICES ASSUME Bad # {} PROVE FALSE
      OBVIOUS
    <2>0. Bad \in SUBSET Nat
      OBVIOUS
    <2> HIDE DEF Bad, Good
    <2>1. PICK k \in Bad : \A l \in Bad : k <= l
      BY <2>0, LeastNat
    <2>2. k \in 0 .. N /\ ~ \E f : Good(f, k)
      BY DEF Bad
    <2>3. CASE k = 0
      <3> DEFINE f == [n \in 0 .. 0 |-> <<>>]
      <3>1. f = [n \in 0 .. 0 |-> IF n = 0 THEN <<>> ELSE AddClosest(t, f[n - 1], A[n].contact)]
        OBVIOUS
      <3>2. \A n \in 0 .. 0 : GoodList(t, f[n], X(n))
        BY <1>7
      <3> HIDE DEF f
      <3>3. Good(f, 0)
        BY <3>1, <3>2 DEF Good
      <3>4. QED
        BY <2>2, <2>3, <3>3
    <2>4. CASE k # 0
      <3>1. k \in 1 .. N /\ k - 1 \in 0 .. N /\ ~ (k <= k - 1) /\ k - 1 \in 0 .. k - 1
        BY <2>2, <2>4
      <3>2. k - 1 \notin Bad
        BY <2>1, <3>1
      <3>3. PICK f : Good(f, k - 1)
        BY <3>1, <3>2 DEF Bad
      <3>4. /\ \A n \in 0 .. k - 1 : GoodList(t, f[n], X(n))
            /\ \A n \in 0 .. k - 1 :
                 f[n] = IF n = 0 THEN <<>> ELSE AddClosest(t, f[n - 1], A[n].contact)
        BY <3>3 DEF Good
      <3> DEFINE x == AddClosest(t, f[k - 1], A[k].contact)
                 g == [n \in 0 .. k |-> IF n = k THEN x ELSE f[n]]
      <3>5. GoodList(t, x, X(k))
        <4>1. GoodList(t, f[k - 1], X(k - 1)) /\ X(k) = X(k - 1) \cup {A[k].contact}
              /\ X(k - 1) \in SUBSET InTable /\ A[k].contact \in InTable
          BY <1>4, <1>6, <3>1, <3>4
        <4>2. QED
          BY <4>1, AddClosestGood
      <3> HIDE DEF x
      <3>6. ASSUME NEW n \in 0 .. k PROVE GoodList(t, g[n], X(n))
        <4>1. n = k \/ n \in 0 .. k - 1
          BY <3>1
        <4>2. QED
          BY <3>1, <3>4, <3>5, <4>1
      <3>7. ASSUME NEW n \in 0 .. k
            PROVE  g[n] = IF n = 0 THEN <<>> ELSE AddClosest(t, g[n - 1], A[n].contact)
        <4>1. CASE n = k
          <5>1. g[n] = x /\ n # 0 /\ g[n - 1] = f[n - 1]
            BY <3>1, <4>1
          <5> HIDE DEF g
          <5>2. QED
            BY <4>1, <5>1 DEF x
        <4>2. CASE n # k
          <5>1. n \in 0 .. k - 1 /\ g[n] = f[n] /\ (n # 0 => g[n - 1] = f[n - 1])
            BY <3>1, <4>2
          <5> HIDE DEF g
          <5>2. QED
            BY <3>4, <5>1
        <4>3. QED
          BY <4>1, <4>2
      <3>8. g = [n \in 0 .. k |-> g[n]]
        OBVIOUS
      <3> HIDE DEF g
      <3>9. g = [n \in 0 .. k |-> IF n = 0 THEN <<>> ELSE AddClosest(t, g[n - 1], A[n].contact)]
        BY <3>7, <3>8
      <3>10. Good(g, k)
        BY <3>6, <3>9 DEF Good
      <3>11. QED
        BY <2>2, <3>10
    <2>5. QED
      BY <2>3, <2>4
  <1> HIDE DEF Good
  <1>81. N \in 0 .. N
    OBVIOUS
  <1>9. PICK f : Good(f, N)
    BY <1>8, <1>81, Zenon
  <1> USE DEF Good
  <1> DEFINE F == CHOOSE h : h = [n \in 0 .. N |->
               IF n = 0 THEN <<>> ELSE AddClosest(t, h[n - 1], A[n].contact)]
  <1>10. F = [n \in 0 .. N |-> IF n = 0 THEN <<>> ELSE AddClosest(t, F[n - 1], A[n].contact)]
    BY <1>9
  <1>11. closest(t) = F[N]
    BY <1>3 DEF closest, A
  <1>12. ASSUME NEW m \in 0 .. N PROVE F[m] = f[m]
    <2> DEFINE Bad == {l \in 0 .. N : F[l] # f[l]}
    <2> SUFFICES ASSUME Bad # {} PROVE FALSE
      OBVIOUS
    <2>0. Bad \in SUBSET Nat
      OBVIOUS
    <2>00. \A n \in 0 .. N : f[n] = IF n = 0 THEN <<>> ELSE AddClosest(t, f[n - 1], A[n].contact)
      BY <1>9
    <2> HIDE DEF Bad, Good, F
    <2>1. PICK k \in Bad : \A l \in Bad : k <= l
      BY <2>0, LeastNat
    <2>2. k \in 0 .. N /\ F[k] # f[k]
      BY DEF Bad
    <2>3. F[k] = IF k = 0 THEN <<>> ELSE AddClosest(t, F[k - 1], A[k].contact)
      BY <1>10, <2>2
    <2>4. CASE k = 0
      BY <2>00, <2>2, <2>3, <2>4
    <2>5. CASE k # 0
      <3>1. k - 1 \in 0 .. N /\ ~ (k <= k - 1)
        BY <2>2, <2>5
      <3>2. F[k - 1] = f[k - 1]
        BY <2>1, <3>1 DEF Bad
      <3>3. QED
        BY <2>00, <2>2, <2>3, <2>5, <3>2
    <2>6. QED
      BY <2>4, <2>5
  <1>13. N \in 0 .. N
    OBVIOUS
  <1>14. GoodList(t, f[N], X(N))
    BY <1>9, <1>13
  <1>15. F[N] = f[N]
    BY <1>12, <1>13
  <1> HIDE DEF F
  <1>16. QED
    BY <1>5, <1>11, <1>14, <1>15

\* Whoever reads the table through nodes() or closest() sees what is in it: each
\* node once, and the secure and closest ones first.
THEOREM ReadsSeeTheTable == Spec => []ReadsComplete
  <1>1. TableInv => ReadsComplete
    <2> SUFFICES ASSUME TableInv PROVE ReadsComplete
      OBVIOUS
    <2>1. NodesIteratedOnce
      BY IteratedOnce DEF Lists, NodesIteratedOnce
    <2>2. ASSUME NEW t \in DOMAIN Rank
          PROVE  LET list == closest(t)
                 IN /\ \A i, j \in DOMAIN list : i < j =>
                         /\ list[j].secure => list[i].secure
                         /\ list[i].secure = list[j].secure => Rank[t][list[i].id] < Rank[t][list[j].id]
                    /\ \A c \in InTable \ {list[i] : i \in DOMAIN list} :
                         \E i \in DOMAIN list : list[i].ip = c.ip /\ ~ list[i].secure
      <3> DEFINE list == closest(t)
      <3>1. list \in Seq(InTable) /\ Ordered(t, list) /\ Covers(list, InTable)
        BY ClosestGood DEF GoodList
      <3> HIDE DEF list
      <3>2. \A i \in DOMAIN list : list[i] \in Contacts
        BY <3>1, PlaceInTable
      <3>3. \A i, j \in DOMAIN list : i < j =>
              /\ list[j].secure => list[i].secure
              /\ list[i].secure = list[j].secure => Rank[t][list[i].id] < Rank[t][list[j].id]
        BY <3>1, <3>2, BeforeOrders DEF Ordered
      <3>4. \A c \in InTable \ {list[i] : i \in DOMAIN list} :
              \E i \in DOMAIN list : list[i].ip = c.ip /\ ~ list[i].secure
        BY <3>1 DEF Covers
      <3>5. QED
        BY <3>3, <3>4 DEF list
    <2>3. ClosestSecureFirst
      BY <2>2 DEF ClosestSecureFirst
    <2>4. QED
      BY <2>1, <2>3 DEF ReadsComplete
  <1>2. QED
    BY <1>1, TableInvInit, TableInvStep, PTL DEF Spec
=============================================================================
