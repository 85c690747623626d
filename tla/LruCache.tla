------------------------------ MODULE LruCache ------------------------------
(***************************************************************************)
(* The LruCache of the lru crate as the server uses it: a sequence of      *)
(* [key, val] records, the most recently used one first.                   *)
(***************************************************************************)
EXTENDS Naturals, Sequences

Keys(c) == {c[i].key : i \in DOMAIN c}

At(c, k) == (CHOOSE e \in {c[i] : i \in DOMAIN c} : e.key = k).val

\* Each key has one entry: the one that is taken out.
Drop(c, k) ==
  LET i == CHOOSE i \in DOMAIN c : c[i].key = k
  IN  SubSeq(c, 1, i - 1) \o SubSeq(c, i + 1, Len(c))

\* get, get_mut: the entry becomes the most recently used one.
LruGet(c, k) ==
  IF k \in Keys(c) THEN <<[key |-> k, val |-> At(c, k)]>> \o Drop(c, k) ELSE c

\* put: an entry is replaced, or a new one pushes out the least recently used.
LruPut(c, k, v, cap) ==
  LET kept == IF k \in Keys(c) THEN Drop(c, k)
              ELSE IF Len(c) = cap THEN SubSeq(c, 1, cap - 1) ELSE c
  IN  <<[key |-> k, val |-> v]>> \o kept

=============================================================================
