----------------------------- MODULE MCClients -----------------------------
(* Clients for TLC: two ranks with one server, and a load generator with a *)
(* primary and a replica; the second block has an empty payload.           *)
EXTENDS Clients

CONSTANTS r0, r1, lg, s1, s2

MCRanks == {r0, r1}
MCCallers == {r0, r1, lg}
MCServers == {s1, s2}
MCChunks == <<2, 0>>
MCOwners == [c \in MCCallers |-> IF c = lg THEN <<s1, s2>> ELSE <<s1>>]
MCPeerWrites == [c \in MCCallers |-> IF c = lg THEN 1 ELSE 0]
Either == {{"engine"}, {"loadgen"}}
EngineOnly == {{"engine"}}
=============================================================================
