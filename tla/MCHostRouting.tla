--------------------------- MODULE MCHostRouting ---------------------------
(* Two sessions: one after the other in one node, or of two nodes on one    *)
(* host, with and without each part of the routing.                         *)
EXTENDS HostRouting

MCChainInfo == [c1 |-> [hook |-> "forward", family |-> "inet"],
                c2 |-> [hook |-> "forward", family |-> "ip"],
                c3 |-> [hook |-> "forward", family |-> "ip6"]]
Full == [node |-> "n1", iface |-> "wg0", routing |-> TRUE, nat |-> TRUE, egressOnly |-> FALSE,
         natOut |-> "none", policy |-> TRUE, table |-> "t1", routeOut |-> "eth0"]
Other(set) == [set EXCEPT !.node = "n2", !.iface = "wg1", !.table = "t2"]
ForwardOnly == [Full EXCEPT !.nat = FALSE, !.policy = FALSE, !.natOut = "eth0"]
Bare == [Full EXCEPT !.routing = FALSE]
MCDeployments ==
    {[s1 |-> Full, s2 |-> Full],
     [s1 |-> Full, s2 |-> Bare],
     [s1 |-> Bare, s2 |-> Bare],
     [s1 |-> ForwardOnly, s2 |-> Other([Full EXCEPT !.egressOnly = TRUE])]}
\* Three without routing, where a call, the deferred cleanup and Close may all
\* fail; two in the plain case, one in the others.
MCMaxMishaps(d) == IF d.s1 = Bare THEN 3 ELSE IF d.s1 = d.s2 THEN 2 ELSE 1
=============================================================================
