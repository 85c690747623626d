---------------------------- MODULE MCNodeState ----------------------------
(* Two public IPs, one of them with two ports, and a private one. *)
EXTENDS NodeState

MCCrc == [x \in MaskedIps \X (0..1) |-> <<x[1] + x[2], 3 - x[1], 2 * x[2] + x[1]>>]

Ip(masked, exempt) == [masked |-> masked, exempt |-> exempt]
Address(ip, port) == [ip |-> ip, port |-> port]

MCAddresses ==
  { Address(Ip(0, FALSE), 1), Address(Ip(0, FALSE), 2), Address(Ip(1, FALSE), 1) }

MCRandomIds == {<<0, 0, 0, 2>>}
MCTargets == {<<3, 3, 3, 3>>}

MCResults == { [size |-> 1, responders |-> 0, subnets |-> 1],
               [size |-> 3, responders |-> 2, subnets |-> 1] }
=============================================================================
