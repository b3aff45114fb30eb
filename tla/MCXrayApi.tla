------------------------------ MODULE MCXrayApi ------------------------------
EXTENDS XrayApi

A == ApiInbound
MCInbounds == {<<>>, <<A>>, <<"a", "b">>, <<A, "a", "b">>, <<"a", A, "b">>, <<"a", "b", A>>,
               <<A, A>>, <<A, A, "a">>, <<"a", A, A>>, <<A, "a", A>>}
Service(name, plain) == [name |-> name, plain |-> plain]
MCServices == {<<>>, <<Service("StatsService", FALSE), Service("RoutingService", TRUE)>>,
               <<Service("ObservatoryService", TRUE), Service("RoutingService", FALSE),
                 Service("ObservatoryService", FALSE), Service("NoService", TRUE)>>}
MCObservatories == {Nil, <<<<"proxy", "block">>>>, <<<<"block", "other">>>>}
Rule(out, guard, ip) == [valid |-> TRUE, inbound |-> "", outbound |-> out, guard |-> guard,
                         ip |-> ip, source |-> <<"geoip:private">>]
R1 == Rule("proxy", FALSE, <<"x", "geoip:private", "y">>)
R2 == Rule("block", FALSE, <<>>)
MCRules == {<<>>, <<R1, R2>>, <<Rule("API", FALSE, <<>>), R2, Rule("block", TRUE, <<>>), R1>>,
            <<R1, [R2 EXCEPT !.valid = FALSE]>>}
Outbound(tag, protocol) == [tag |-> tag, protocol |-> protocol]
MCOutbounds == {<<>>, <<Outbound("proxy", "vless"), Outbound("block", "blackhole")>>,
                <<Outbound("proxy", "blackhole"), Outbound("block", "Blackhole"), Outbound("proxy", "vless"),
                  Outbound("", "dns")>>}
MCPolicies == {[zero |-> Nil, system |-> Nil],
               [zero |-> Nil, system |-> <<[inbound |-> TRUE, outbound |-> FALSE]>>],
               [zero |-> <<[uplink |-> FALSE, downlink |-> TRUE, online |-> TRUE, null |-> FALSE]>>, system |-> Nil],
               [zero |-> <<[uplink |-> FALSE, downlink |-> FALSE, online |-> FALSE, null |-> TRUE]>>, system |-> Nil]}
MCTagOrder == <<"block", "proxy">>
MCLocalAddrs == <<"127.0.0.1", "::1">>
MCPrivateCIDRs == <<"10.0.0.0/8", "fc00::/7">>
MCStrings == Range(SortedServices) \cup Range(MCTagOrder) \cup Range(MCLocalAddrs) \cup Range(MCPrivateCIDRs) \cup
             {"", "API", A, "a", "b", "x", "y", "geoip:private", "NoService", "other", "vless", "dns", "blackhole", "Blackhole"}
=============================================================================
