---------------------------- MODULE MCKrpcSocket ----------------------------
EXTENDS KrpcSocket

Address(ip, port) == [ip |-> ip, port |-> port]

\* A node, and the unspecified address at the same port: an answer from the
\* first is taken for a request to the second, not the other way round.
MCAddresses == { Address(1, 1), Address(0, 1) }
=============================================================================
