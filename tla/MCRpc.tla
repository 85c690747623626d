------------------------------- MODULE MCRpc -------------------------------
(* Small instances of Rpc: which calls are made, and from where lookups start. *)
EXTENDS Rpc

\* Nodes are numbers, and node 1 is the closest to every target.
MCDistance == [t \in Targets |-> [n \in Nodes |-> n]]

Get(kind, sender) == [kind |-> kind, target |-> "t1", sender |-> sender]

Store(kind, sig, seq, cas) ==
  [kind |-> kind, target |-> "t1", sig |-> sig, seq |-> seq, cas |-> cas]

\* Lookups that start with nothing but the bootstrap node, or from a table.
ColdOrWarm == {{}, {2}}
ColdOnly == {{}}

LookupGets ==
  [c \in GetCalls |->
     CASE c = "detailed" -> Get("GetValue", "MutableDetailed")
       [] c = "closest"  -> Get("GetValue", "ClosestNodes")
       [] c = "find"     -> Get("FindNode", "ClosestNodes")
       [] c = "peers"    -> Get("GetPeers", "Peers")]

\* Puts of one mutable item, and an announce to the same target.
ItemPuts ==
  [c \in PutCalls |->
     CASE c = "first"     -> Store("Mutable", 1, 1, {})
       [] c = "again"     -> Store("Mutable", 1, 1, {})
       [] c = "second"    -> Store("Mutable", 2, 2, {1})
       [] c = "blind"     -> Store("Mutable", 3, 2, {})
       [] c = "wrongcas"  -> Store("Mutable", 4, 2, {2})
       [] c = "announce"  -> Store("Announce", 5, 0, {})]

\* Nodes a put names besides those its lookup finds.
NoExtra == [c \in PutCalls |-> {}]
ExtraFirst == [c \in PutCalls |-> IF c = "first" THEN {1} ELSE {}]

=============================================================================
