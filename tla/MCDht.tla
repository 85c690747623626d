------------------------------- MODULE MCDht -------------------------------
(* A small instance of Dht: one call of each kind, about one id but for       *)
(* get_immutable, whose id no other kind of call can be about.                *)
EXTENDS Dht

MCKind == [c \in Calls |-> c]
MCTarget == [c \in Calls |-> IF c = "get_immutable" THEN "i" ELSE "t"]
MCItems ==
  [t \in Targets |->
     IF t = "i" THEN { [seq |-> 0, value |-> 0] }
     ELSE { [seq |-> 1, value |-> 1], [seq |-> 2, value |-> 0], [seq |-> 2, value |-> 1] }]
=============================================================================
