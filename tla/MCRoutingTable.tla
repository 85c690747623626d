--------------------------- MODULE MCRoutingTable ---------------------------
(* Contacts that differ in the ways the table looks at: an id that is valid for *)
(* its IP and one that is not, an id claimed at two IPs, three ids at one IP,   *)
(* two with the same first 21 bits, the own id.                                 *)
EXTENDS RoutingTable

Contact(id, ip, secure, prefix) == [id |-> id, ip |-> ip, secure |-> secure, prefix |-> prefix]

Own == Contact("own", "x", FALSE, 0)
Moving == Contact("i1", "x", FALSE, 1)
Moved == Contact("i1", "y", TRUE, 1)
SecureX == Contact("i2", "x", TRUE, 2)
Same21 == Contact("i3", "x", TRUE, 2)
Other == Contact("i4", "z", FALSE, 4)

MCContacts == { Own, Moving, Moved, SecureX, Same21, Other }
MCBucket == [i \in Ids |-> IF i = "own" THEN 0 ELSE IF i = "i3" THEN 2 ELSE 1]

\* One target, to which the own id and the nodes are at these distances.
MCRank == [t \in {"t"} |-> [i \in Ids |->
  CASE i = "i4" -> 1 [] i = "i3" -> 2 [] i = "i1" -> 3 [] i = "i2" -> 4 [] i = "own" -> 5]]
=============================================================================
