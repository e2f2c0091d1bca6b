---------------------------- MODULE MCNetResume ----------------------------
(* NetResume for TLC.                                                       *)
EXTENDS NetResume

CONSTANTS ClientSends, ServerSends, InFlight

MCMaxSent == [s \in Side |-> IF s = "client" THEN ClientSends ELSE ServerSends]

MCMaxNet == [s \in Side |-> InFlight]
=============================================================================
