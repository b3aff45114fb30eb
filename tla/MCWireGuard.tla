----------------------------- MODULE MCWireGuard -----------------------------
(* Two users competing for two keys and two IPs, two callers, one failing  *)
(* kernel call.  The requests add, move, rename, swap and remove peers, and *)
(* bring the entries that normalizeUsers and collectDesiredPeers reject.   *)
EXTENDS WireGuard, TLC

CONSTANTS u1, u2, k1, k2, a, b, c1, c2

MCEmail == {u1, u2}
MCKey == {k1, k2}
MCIP == {a, b, "outside"}
MCCaller == {c1, c2}

MCKeyStr == {"k1", "k2", "bad"}
MCParseKey == [s \in MCKeyStr |-> CASE s = "k1" -> k1 [] s = "k2" -> k2 [] OTHER -> NoKey]
MCKeyString == [k \in MCKey |-> IF k = k1 THEN "k1" ELSE "k2"]
MCPeerIP == {"a", "b", "out", "bad"}
MCParseCIDR == [s \in MCPeerIP |->
  CASE s = "a" -> a [] s = "b" -> b [] s = "out" -> "outside" [] OTHER -> NoIP]
MCAllowedIPs == {<<a>>, <<b>>, <<a, b>>}
MCInterfaceIP == {a, b}

Peer(e, k, ips) == [email |-> e, wg |-> TRUE, inbound |-> TRUE, key |-> k, ips |-> ips]

MCRequests == {
  << >>,
  <<Peer(u1, "k1", <<"a">>)>>,
  <<Peer(u1, "k2", <<"a", "b">>)>>,
  <<Peer(u2, "k2", <<"b", "out">>)>>,
  <<Peer(u2, "k2", <<"out">>)>>,
  <<Peer(u1, "k1", <<"a">>), Peer(u2, "k2", <<"b">>)>>,
  <<Peer(u1, "k2", <<"b">>), Peer(u2, "k1", <<"a">>)>>,
  <<Peer(u1, "k1", <<"a">>), Peer(u2, "k2", <<"a">>)>>,
  <<Peer(u1, "k1", <<"b">>), Peer(u1, "k1", <<"b", "bad">>)>>,
  <<Peer(u1, "bad", <<"a">>), [Peer(u2, "k2", <<"b">>) EXCEPT !.inbound = FALSE]>>,
  <<Peer(u2, "k1", <<"b">>), [Peer(u2, "k2", <<"b">>) EXCEPT !.wg = FALSE]>> }
=============================================================================
