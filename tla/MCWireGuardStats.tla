--------------------------- MODULE MCWireGuardStats ---------------------------
(* The whole backend around one key that two users may hold in turn: syncs *)
(* and restarts race with the stats loop, the queries and the traffic.     *)
EXTENDS WireGuard, TLC

CONSTANTS u1, u2, k1, a, c1

MCEmail == {u1, u2}
MCKey == {k1}
MCIP == {a}
MCCaller == {c1}
MCKeyStr == {"k1"}
MCParseKey == [s \in MCKeyStr |-> k1]
MCKeyString == [k \in MCKey |-> "k1"]
MCPeerIP == {"a"}
MCParseCIDR == [s \in MCPeerIP |-> a]
MCAllowedIPs == {<<a>>}

Peer(e) == [email |-> e, wg |-> TRUE, inbound |-> TRUE, key |-> "k1", ips |-> <<"a">>]
MCRequests == {<< >>, <<Peer(u1)>>, <<[Peer(u1) EXCEPT !.inbound = FALSE], Peer(u2)>>}
=============================================================================
