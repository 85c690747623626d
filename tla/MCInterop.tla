----------------------------- MODULE MCInterop -----------------------------
(* Bytes are 0 and 1, an id is one byte, an address three, a node four.      *)
EXTENDS Interop, TLC

AddrA == [ip |-> <<0>>, port |-> 1]
AddrB == [ip |-> <<1>>, port |-> 2]
NodeA == [id |-> <<1>>, address |-> AddrA]
NodeB == [id |-> <<0>>, address |-> AddrB]

Common ==
  [id |-> {<<1>>}, target |-> {<<0>>}, info_hash |-> {<<0>>}, token |-> {<<1, 0>>},
   salt |-> {<<0>>}, k |-> {<<0, 1>>}, sig |-> {<<1, 0, 1>>}, seq |-> {0, 1}, cas |-> {0},
   port |-> {2}, nodes |-> {<<>>, <<NodeA, NodeB>>}, values |-> {<<>>, <<AddrB, AddrA>>},
   ip |-> {{}, {AddrB}}]

MCOldValues ==
  Common @@ [v |-> {<<1>>}, implied_port |-> {0, 1}, code |-> {-1, 2},
             description |-> {<<0>>}, tid |-> {<<0, 1>>}, version |-> {{}, {<<1, 1>>}}]

MCNewValues ==
  Common @@ [v |-> {Bytes(<<1>>), Num(1)}, implied_port |-> BOOLEAN, code |-> {-4, -1, 2, 3},
             description |-> {<<0>>, <<1>>}, tid |-> {<<0, 1>>, <<0>>},
             version |-> {{}, {<<1, 1>>}, {<<1>>}}]

\* A good value of every field, one of the wrong length, one of another type.
MCForeignValues ==
  [id |-> {Bytes(<<1>>), Bytes(<<1, 1>>)},
   target |-> {Bytes(<<0>>), Num(1)},
   info_hash |-> {Bytes(<<0>>), List(<<Num(1)>>)},
   token |-> {Bytes(<<1, 0>>), List(<<Num(1)>>), Num(1)},
   salt |-> {Bytes(<<0>>)},
   k |-> {Bytes(<<0, 1>>), Bytes(<<1>>)},
   sig |-> {Bytes(<<1, 0, 1>>), Bytes(<<>>)},
   seq |-> {Num(1), Bytes(<<1>>)},
   cas |-> {Num(0)},
   port |-> {Num(2), Num(-1), Num(4)},
   implied_port |-> {Num(-1), Num(0), Num(1), Num(2)},
   v |-> {Bytes(<<1>>), Num(1), List(<<Num(1)>>)},
   nodes |-> {Bytes(<<1, 0, 0, 1>>), Bytes(<<1, 0, 1>>), Num(1)},
   values |-> {List(<<Bytes(<<0, 0, 1>>)>>), List(<<Bytes(<<0, 0>>)>>), Num(1)}]

MCEnvelopes ==
  [t : {Bytes(<<0, 1>>), Bytes(<<1>>)},
   v : {{}, {Bytes(<<1, 1>>)}, {Bytes(<<1>>)}},
   ip : {{}, {Bytes(<<0, 0, 1>>)}, {Bytes(<<0>>)}},
   ro : {{}, {Num(0)}, {Num(1)}}]

\* For ids: four bytes of two bits each, one of which is the random r.
MCCrc == [x \in MaskedIps \X (0..1) |-> <<x[1] + x[2], 3 - x[1], 2 * x[2] + x[1]>>]
MCPeers == [1..IdBytes -> {1, 2}]

=============================================================================
