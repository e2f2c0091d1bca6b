--------------------------- MODULE MCNetTransport ---------------------------
(* NetTransport for TLC: the two ends may differ in how much they send and  *)
(* in how many packets the network holds for them.                          *)
EXTENDS NetTransport

CONSTANTS ClientSends, ServerSends, ToClient, ToServer, ClientKinds, ServerKinds

MCMaxSent == [e \in Endpoint |-> IF e = "client" THEN ClientSends ELSE ServerSends]

MCMaxNet == [e \in Endpoint |-> IF e = "client" THEN ToClient ELSE ToServer]

MCVitality == [e \in Endpoint |-> IF e = "client" THEN ClientKinds ELSE ServerKinds]
=============================================================================
