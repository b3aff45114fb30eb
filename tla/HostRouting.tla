----------------------------- MODULE HostRouting -----------------------------
(***************************************************************************)
(* How a WireGuard backend sets up its interface and the host's routing,   *)
(* and takes both down again.  A session is one backend, from New to       *)
(* Shutdown.  Every system call (netlink, nft, ip, /proc) is a step of its *)
(* own: it may fail, the node may die after it, the operator may edit the  *)
(* ruleset between two of them, and sessions of other nodes on the same    *)
(* host go on meanwhile.  Errors of the routing calls are only logged.     *)
(***************************************************************************)
EXTENDS Integers, FiniteSets

CONSTANTS
    Sessions,       \* backends; each draws its own random owner ID
    Deployments,    \* possible settings of the sessions, see Settings
    Nodes,          \* node processes
    Ifaces,         \* WireGuard interfaces
    Tables,         \* routing tables
    ChainInfo,      \* hook and family of every chain the operator may have
    Outs,           \* egress interfaces
    NoIface,        \* "no interface"
    Operator,       \* the owner of the operator's own rules
    MaxMishaps(_)   \* bound on failing calls, crashes and edits of the ruleset

NatChain == "pg_node_wg_nat"        \* the postrouting chain of the node's table
OperatorChains == DOMAIN ChainInfo

\* The node of a session, its interface_name, and the environment of the node:
\* PG_NODE_WG_HOST_ROUTING, _NAT_DISABLE, _NAT_EGRESS_ONLY,
\* _NAT_OUTPUT_INTERFACE, _ROUTE_TABLE and _ROUTE_OUT_INTERFACE.
Settings == [node : Nodes, iface : Ifaces, routing : BOOLEAN, nat : BOOLEAN,
             egressOnly : BOOLEAN, natOut : Outs \cup {NoIface},
             policy : BOOLEAN, table : Tables, routeOut : Outs]

ASSUME HostAssumption ==
    /\ OperatorChains \cap {NatChain, "ip_forward", "policy"} = {}
    /\ NoIface \notin Outs
    /\ Operator \notin Sessions
    /\ Deployments \subseteq [Sessions -> Settings]

VARIABLES
    settings,   \* of every session, fixed
    link,       \* how far the interface of a name has been set up
    chains,     \* the chains of the ruleset
    natTable,   \* whether the node's own table exists
    rules,      \* the rules of the ruleset, with the owner in their comment
    ipForward,  \* /proc/sys/net/ipv4/ip_forward
    ipRules,    \* ip rule: <<interface, table>>
    ipRoutes,   \* the default route of every table
    pc,         \* what a session does next
    out,        \* its egress interface
    todo,       \* forward chains it has still to visit
    cur,        \* the chain it is visiting
    handles,    \* handles it has listed in that chain and not used yet
    closing,    \* the sessions that are in Shutdown
    owed,       \* history: what its apply has promised and not reported failed
    left,       \* history: what its cleanup has reported failed
    dropped,    \* history: removals of the link that failed in New, unreported
    mishaps     \* how many may still happen

hostVars == <<link, chains, natTable, rules, ipForward, ipRules, ipRoutes>>
workVars == <<out, todo, cur, handles, closing>>
historyVars == <<owed, left, dropped>>
vars == <<settings, hostVars, pc, workVars, historyVars, mishaps>>

----------------------------------------------------------------------------
(* Rules.  A rule's comment starts with its owner.                         *)

NatRule(s) ==
    [chain |-> NatChain, owner |-> s, out |-> out[s],
     kind |-> IF settings[s].egressOnly THEN "egress" ELSE "interface"]

ForwardRule(s, c, direction) ==
    [chain |-> c, owner |-> s, out |-> out[s], kind |-> direction]

OperatorRule(c) == [chain |-> c, owner |-> Operator, out |-> NoIface, kind |-> "operator"]

\* Mutant: the prefix without the owner.
CarriesAnyOwner(r, s) == r.owner # Operator

\* The rule's line contains the comment prefix of owner s.
CarriesOwner(r, s) == r.owner = s

nftForwardBaseChains ==
    {c \in chains \cap OperatorChains :
        ChainInfo[c].hook = "forward" /\ ChainInfo[c].family \in {"ip", "inet"}}

\* Where traffic leaves: the setting, else the default route, else eth0.
EgressInterfaces(s) ==
    IF settings[s].natOut # NoIface THEN {settings[s].natOut} ELSE Outs

----------------------------------------------------------------------------

Idle == {"idle", "failed", "stopped", "crashed"}
Alive(s) == pc[s] \notin Idle
Goto(s, l) == pc' = [pc EXCEPT ![s] = l]
Mishap == mishaps > 0 /\ mishaps' = mishaps - 1
Fault == Mishap /\ UNCHANGED settings
Works == UNCHANGED <<mishaps, settings>>
Forget(s, parts) == owed' = [owed EXCEPT ![s] = @ \ parts]
Drop(s, call) == dropped' = [dropped EXCEPT ![s] = @ \cup {call}]
Leave(s, parts) == left' = [left EXCEPT ![s] = @ \cup parts]

Init ==
    /\ settings \in Deployments
    /\ link = [i \in Ifaces |-> "absent"]
    /\ chains = OperatorChains
    /\ natTable = FALSE
    /\ rules = {OperatorRule(c) : c \in OperatorChains}
    /\ ipForward = FALSE
    /\ ipRules = {}
    /\ ipRoutes = [t \in Tables |-> NoIface]
    /\ pc = [s \in Sessions |-> "idle"]
    /\ out = [s \in Sessions |-> NoIface]
    /\ todo = [s \in Sessions |-> {}]
    /\ cur = [s \in Sessions |-> NatChain]
    /\ handles = [s \in Sessions |-> {}]
    /\ closing = {}
    /\ owed = [s \in Sessions |-> {}]
    /\ left = [s \in Sessions |-> {}]
    /\ dropped = [s \in Sessions |-> {}]
    /\ mishaps = MaxMishaps(settings)

----------------------------------------------------------------------------
(* The interface: Manager.InitializeWithPeers and Manager.Close.           *)

\* The controller shuts a node's session down before it starts the next.
New(s) ==
    /\ pc[s] = "idle"
    /\ \A t \in Sessions : settings[t].node = settings[s].node => ~Alive(t)
    /\ \/ Works /\ Goto(s, "clean")
       \/ Fault /\ Goto(s, "failed")
    /\ UNCHANGED <<hostVars, workVars, historyVars>>

\* cleanupExistingInterface: a link that is not there is no error.
RemoveLink(s) == Works /\ link' = [link EXCEPT ![settings[s].iface] = "absent"]
RemoveLinkFails == Fault /\ UNCHANGED link

\* An address that does not parse ends the call before this and in the same way.
CleanInterface(s) ==
    /\ pc[s] = "clean"
    /\ \/ RemoveLink(s) /\ Goto(s, "added")
       \/ RemoveLinkFails /\ Goto(s, "abort")
    /\ UNCHANGED <<chains, natTable, rules, ipForward, ipRules, ipRoutes, workVars, historyVars>>

\* LinkAdd, ConfigureDevice, AddrAdd, LinkSetUp.  From LinkAdd on, an error
\* runs the deferred cleanup first.
SetUp(s, done, next) ==
    /\ pc[s] = done
    /\ \/ Works /\ link' = [link EXCEPT ![settings[s].iface] = done] /\ Goto(s, next)
       \/ Fault /\ UNCHANGED link /\ Goto(s, IF done = "added" THEN "abort" ELSE "undo")
    /\ UNCHANGED <<chains, natTable, rules, ipForward, ipRules, ipRoutes, workVars, historyVars>>

InitializeWithPeers(s) ==
    \/ SetUp(s, "added", "configured")
    \/ SetUp(s, "configured", "addressed")
    \/ SetUp(s, "addressed", "up")
    \/ SetUp(s, "up", "apply")

\* The deferred cleanup of InitializeWithPeers; its error is dropped.
Undo(s) ==
    /\ pc[s] = "undo"
    /\ \/ RemoveLink(s) /\ UNCHANGED dropped
       \/ RemoveLinkFails /\ Drop(s, "undo")
    /\ Goto(s, "abort")
    /\ UNCHANGED <<chains, natTable, rules, ipForward, ipRules, ipRoutes, workVars, owed, left>>

\* Manager.Close, by New after an error, which drops its result, and by
\* Shutdown, which reports it.
Close(s) ==
    /\ \/ /\ pc[s] = "abort" /\ Goto(s, "failed") /\ UNCHANGED left
          /\ \/ RemoveLink(s) /\ UNCHANGED dropped
             \/ RemoveLinkFails /\ Drop(s, "close")
       \/ /\ pc[s] = "close" /\ Goto(s, "stopped") /\ UNCHANGED dropped
          /\ \/ RemoveLink(s) /\ UNCHANGED left
             \/ RemoveLinkFails /\ Leave(s, {"link"})
    /\ UNCHANGED <<chains, natTable, rules, ipForward, ipRules, ipRoutes, workVars, owed>>

----------------------------------------------------------------------------
(* applyLinuxHostRouting                                                   *)

Promised(s) ==
    {"ip_forward"} \cup (IF settings[s].nat THEN {NatChain} ELSE {})
                   \cup (IF settings[s].policy THEN {"policy"} ELSE {})

Apply(s) ==
    /\ pc[s] = "apply"
    /\ IF settings[s].routing
         THEN /\ \E o \in EgressInterfaces(s) : out' = [out EXCEPT ![s] = o]
              /\ owed' = [owed EXCEPT ![s] = Promised(s)]
              /\ Goto(s, "ip_forward")
         ELSE Goto(s, "running") /\ UNCHANGED <<out, owed>>
    /\ Works /\ UNCHANGED <<hostVars, todo, cur, handles, closing, left, dropped>>

ensureIPv4Forwarding(s) ==
    /\ pc[s] = "ip_forward"
    /\ \/ Works /\ ipForward' = TRUE /\ UNCHANGED owed
       \/ Fault /\ Forget(s, {"ip_forward"}) /\ UNCHANGED ipForward
    /\ Goto(s, IF settings[s].nat THEN "nat_table" ELSE "ruleset")
    /\ UNCHANGED <<link, chains, natTable, rules, ipRules, ipRoutes, workVars, left, dropped>>

\* ensureNFTMasquerade up to its chain; "File exists" is no error.
AddNatTable(s) ==
    /\ pc[s] = "nat_table"
    /\ \/ Works /\ natTable' = TRUE /\ Goto(s, "nat_chain") /\ UNCHANGED owed
       \/ Fault /\ Forget(s, {NatChain}) /\ Goto(s, "ruleset") /\ UNCHANGED natTable
    /\ UNCHANGED <<link, chains, rules, ipForward, ipRules, ipRoutes, workVars, left, dropped>>

AddNatChain(s) ==
    /\ pc[s] = "nat_chain"
    /\ \/ /\ natTable /\ Works
          /\ chains' = chains \cup {NatChain}
          /\ cur' = [cur EXCEPT ![s] = NatChain]
          /\ Goto(s, "list") /\ UNCHANGED owed
       \/ /\ Fault \/ (~natTable /\ Works)
          /\ Forget(s, {NatChain}) /\ Goto(s, "ruleset") /\ UNCHANGED <<chains, cur>>
    /\ UNCHANGED <<link, natTable, rules, ipForward, ipRules, ipRoutes, out, todo, handles, closing, left, dropped>>

\* "add rule" and "insert rule" into the chain the session is visiting.
InsertRule(s, r, next) ==
    \/ /\ cur[s] \in chains /\ Works
       /\ rules' = rules \cup {r}
       /\ Goto(s, next) /\ UNCHANGED owed
    \/ /\ Fault \/ (cur[s] \notin chains /\ Works)
       /\ IF cur[s] = NatChain
            THEN Forget(s, {NatChain}) /\ Goto(s, "ruleset")
            ELSE Forget(s, {cur[s]} \cup todo[s]) /\ Goto(s, "policy")
       /\ UNCHANGED rules

AddMasquerade(s) ==
    /\ pc[s] = "masquerade" /\ InsertRule(s, NatRule(s), "ruleset")
    /\ UNCHANGED <<link, chains, natTable, ipForward, ipRules, ipRoutes, workVars, left, dropped>>

\* Mutant: the outbound rule is not inserted.
InsertReturnOnly(s) ==
    /\ pc[s] = "return" /\ InsertRule(s, ForwardRule(s, cur[s], "return"), "next")
    /\ UNCHANGED <<link, chains, natTable, ipForward, ipRules, ipRoutes, workVars, left, dropped>>

insertNFTForwardRule(s) ==
    /\ \/ pc[s] = "return" /\ InsertRule(s, ForwardRule(s, cur[s], "return"), "outbound")
       \/ pc[s] = "outbound" /\ InsertRule(s, ForwardRule(s, cur[s], "outbound"), "next")
    /\ UNCHANGED <<link, chains, natTable, ipForward, ipRules, ipRoutes, workVars, left, dropped>>

\* policyRouteConfig.apply: "File exists" is no error.
AddIPRule(s) ==
    /\ pc[s] = "policy"
    /\ \/ /\ settings[s].policy /\ Works
          /\ ipRules' = ipRules \cup {<<settings[s].iface, settings[s].table>>}
          /\ Goto(s, "ip_route") /\ UNCHANGED owed
       \/ /\ settings[s].policy /\ Fault /\ Forget(s, {"policy"})
          /\ Goto(s, "running") /\ UNCHANGED ipRules
       \/ ~settings[s].policy /\ Works /\ Goto(s, "running") /\ UNCHANGED <<ipRules, owed>>
    /\ UNCHANGED <<link, chains, natTable, rules, ipForward, ipRoutes, workVars, left, dropped>>

AddIPRoute(s) ==
    /\ pc[s] = "ip_route"
    /\ \/ /\ Works
          /\ ipRoutes' = [ipRoutes EXCEPT ![settings[s].table] = IF @ = NoIface THEN settings[s].routeOut ELSE @]
          /\ UNCHANGED owed
       \/ Fault /\ Forget(s, {"policy"}) /\ UNCHANGED ipRoutes
    /\ Goto(s, "running")
    /\ UNCHANGED <<link, chains, natTable, rules, ipForward, ipRules, workVars, left, dropped>>

----------------------------------------------------------------------------
(* Visiting chains, in apply before rules are added and in the cleanup.    *)

ListRuleset(s) ==
    /\ pc[s] = "ruleset"
    /\ \/ /\ Works
          /\ todo' = [todo EXCEPT ![s] = nftForwardBaseChains]
          /\ owed' = [owed EXCEPT ![s] = IF s \in closing THEN @ ELSE @ \cup nftForwardBaseChains]
          /\ Goto(s, "next") /\ UNCHANGED left
       \/ /\ Fault /\ UNCHANGED <<todo, owed>>
          /\ IF s \in closing THEN Leave(s, OperatorChains) /\ Goto(s, "close")
                              ELSE Goto(s, "policy") /\ UNCHANGED left
    /\ UNCHANGED <<hostVars, out, cur, handles, closing, dropped>>

NextChain(s) ==
    /\ pc[s] = "next"
    /\ IF todo[s] = {}
         THEN Goto(s, IF s \in closing THEN "close" ELSE "policy") /\ UNCHANGED <<todo, cur>>
         ELSE \E c \in todo[s] : /\ cur' = [cur EXCEPT ![s] = c]
                                 /\ todo' = [todo EXCEPT ![s] = @ \ {c}]
                                 /\ Goto(s, "list")
    /\ Works /\ UNCHANGED <<hostVars, out, handles, closing, historyVars>>

\* Mutant: the cleanup gives up at the first chain that fails, as apply does.
PurgeStops(s) ==
    /\ handles' = [handles EXCEPT ![s] = {}]
    /\ IF s \in closing
         THEN /\ Leave(s, {cur[s]}) /\ UNCHANGED owed
              /\ Goto(s, IF cur[s] = NatChain THEN "ruleset" ELSE "close")
         ELSE /\ UNCHANGED left
              /\ IF cur[s] = NatChain
                   THEN Forget(s, {NatChain}) /\ Goto(s, "ruleset")
                   ELSE Forget(s, {cur[s]} \cup todo[s]) /\ Goto(s, "policy")

\* Mutant: the visit of a chain that fails is repeated.
PurgeRetries(s) ==
    /\ handles' = [handles EXCEPT ![s] = {}]
    /\ Goto(s, "list") /\ UNCHANGED <<owed, left>>

\* The visit of a chain ends with an error: apply returns it, the cleanup
\* joins it to the others and goes on with the next chain.
PurgeFails(s) ==
    /\ handles' = [handles EXCEPT ![s] = {}]
    /\ IF s \in closing
         THEN /\ Leave(s, {cur[s]}) /\ UNCHANGED owed
              /\ Goto(s, IF cur[s] = NatChain THEN "ruleset" ELSE "next")
         ELSE /\ UNCHANGED left
              /\ IF cur[s] = NatChain
                   THEN Forget(s, {NatChain}) /\ Goto(s, "ruleset")
                   ELSE Forget(s, {cur[s]} \cup todo[s]) /\ Goto(s, "policy")

ListChain(s) ==
    /\ pc[s] = "list"
    /\ \/ /\ cur[s] \in chains /\ Works
          /\ handles' = [handles EXCEPT ![s] =
                            {r \in rules : r.chain = cur[s] /\ CarriesOwner(r, s)}]
          /\ Goto(s, "delete") /\ UNCHANGED <<owed, left>>
       \/ (Fault \/ (cur[s] \notin chains /\ Works)) /\ PurgeFails(s)
    /\ UNCHANGED <<hostVars, out, todo, cur, closing, dropped>>

\* A handle is a number of the table, and a table that is loaded again counts
\* from the start: once the rule it was listed for is gone, it names any rule
\* that now stands in the chain, or none.
Named(s, handle) ==
    IF handle \in rules THEN {handle} ELSE {r \in rules : r.chain = cur[s]}

DeleteRule(s) ==
    /\ pc[s] = "delete"
    /\ \E h \in handles[s] :
         \/ \E r \in Named(s, h) :
               /\ Works
               /\ rules' = rules \ {r}
               /\ handles' = [handles EXCEPT ![s] = @ \ {h}]
               /\ owed' = [t \in Sessions |-> IF t = r.owner /\ r # h THEN owed[t] \ {r.chain} ELSE owed[t]]
               /\ UNCHANGED <<pc, left>>
         \/ (Fault \/ (h \notin rules /\ Works)) /\ PurgeFails(s) /\ UNCHANGED rules
    /\ UNCHANGED <<link, chains, natTable, ipForward, ipRules, ipRoutes, out, todo, cur, closing, dropped>>

Purged(s) ==
    /\ pc[s] = "delete" /\ handles[s] = {}
    /\ Goto(s, CASE s \in closing /\ cur[s] = NatChain -> "ruleset"
                 [] s \in closing /\ cur[s] # NatChain -> "next"
                 [] s \notin closing /\ cur[s] = NatChain -> "masquerade"
                 [] s \notin closing /\ cur[s] # NatChain -> "return")
    /\ Works /\ UNCHANGED <<hostVars, workVars, historyVars>>

----------------------------------------------------------------------------
(* shutdownLocked                                                          *)

\* The routing is undone before the manager is closed.
Shutdown(s) ==
    /\ pc[s] = "running"
    /\ closing' = closing \cup {s}
    /\ cur' = [cur EXCEPT ![s] = NatChain]
    /\ Goto(s, CASE ~settings[s].routing -> "close"
                 [] settings[s].routing /\ settings[s].policy -> "del_route"
                 [] settings[s].routing /\ ~settings[s].policy -> "list")
    /\ Works /\ UNCHANGED <<hostVars, out, todo, handles, historyVars>>

\* policyRouteConfig.cleanup: what is not there is no error.
DelIPRoute(s) ==
    /\ pc[s] = "del_route"
    /\ \/ /\ Works
          /\ ipRoutes' = [ipRoutes EXCEPT ![settings[s].table] = IF @ = settings[s].routeOut THEN NoIface ELSE @]
          /\ UNCHANGED left
       \/ Fault /\ Leave(s, {"route"}) /\ UNCHANGED ipRoutes
    /\ Goto(s, "del_rule")
    /\ UNCHANGED <<link, chains, natTable, rules, ipForward, ipRules, workVars, owed, dropped>>

DelIPRule(s) ==
    /\ pc[s] = "del_rule"
    /\ \/ Works /\ ipRules' = ipRules \ {<<settings[s].iface, settings[s].table>>} /\ UNCHANGED left
       \/ Fault /\ Leave(s, {"rule"}) /\ UNCHANGED ipRules
    /\ Goto(s, "list")
    /\ UNCHANGED <<link, chains, natTable, rules, ipForward, ipRoutes, workVars, owed, dropped>>

----------------------------------------------------------------------------
(* Around the sessions                                                     *)

\* The node dies; the host keeps everything it has set up.
Crash(n) ==
    /\ Mishap
    /\ \E s \in Sessions : settings[s].node = n /\ Alive(s)
    /\ pc' = [s \in Sessions |-> IF settings[s].node = n /\ Alive(s) THEN "crashed" ELSE pc[s]]
    /\ UNCHANGED <<settings, hostVars, workVars, historyVars>>

\* The operator takes a chain out of the ruleset, or loads one.
EditRuleset ==
    /\ Mishap
    /\ \E c \in OperatorChains :
         \/ /\ c \in chains
            /\ chains' = chains \ {c}
            /\ rules' = {r \in rules : r.chain # c}
            /\ owed' = [s \in Sessions |-> owed[s] \ {c}]
         \/ /\ c \notin chains
            /\ chains' = chains \cup {c}
            /\ rules' = rules \cup {OperatorRule(c)}
            /\ UNCHANGED owed
    /\ UNCHANGED <<settings, link, natTable, ipForward, ipRules, ipRoutes, pc, workVars, left, dropped>>

\* systemctl reload nftables: "flush ruleset" and the operator's chains again.
ReloadRuleset ==
    /\ Mishap
    /\ chains' = OperatorChains /\ natTable' = FALSE
    /\ rules' = {OperatorRule(c) : c \in OperatorChains}
    /\ owed' = [s \in Sessions |-> owed[s] \ (OperatorChains \cup {NatChain})]
    /\ UNCHANGED <<settings, link, ipForward, ipRules, ipRoutes, pc, workVars, left, dropped>>

Step(s) ==
    \/ CleanInterface(s) \/ InitializeWithPeers(s) \/ Undo(s) \/ Close(s)
    \/ Apply(s) \/ ensureIPv4Forwarding(s) \/ AddNatTable(s) \/ AddNatChain(s)
    \/ AddMasquerade(s) \/ insertNFTForwardRule(s) \/ AddIPRule(s) \/ AddIPRoute(s)
    \/ ListRuleset(s) \/ NextChain(s) \/ ListChain(s) \/ DeleteRule(s) \/ Purged(s)
    \/ DelIPRoute(s) \/ DelIPRule(s)

Next ==
    \/ \E s \in Sessions : New(s) \/ Step(s) \/ Shutdown(s)
    \/ \E n \in Nodes : Crash(n)
    \/ EditRuleset
    \/ ReloadRuleset

\* Every call returns, well or badly; no property may rely on a failure.
Fairness == \A s \in Sessions : WF_vars(Step(s) /\ UNCHANGED mishaps)

Spec == Init /\ [][Next]_vars /\ Fairness

----------------------------------------------------------------------------

Labels == Idle \cup
    {"clean", "added", "configured", "addressed", "up", "undo", "abort", "apply", "ip_forward",
     "nat_table", "nat_chain", "list", "delete", "masquerade", "ruleset", "next", "return",
     "outbound", "policy", "ip_route", "running", "del_route", "del_rule", "close"}

Rules ==
    [chain : {NatChain}, owner : Sessions, out : Outs, kind : {"egress", "interface"}]
    \cup [chain : {c \in OperatorChains : ChainInfo[c].hook = "forward" /\ ChainInfo[c].family \in {"ip", "inet"}},
          owner : Sessions, out : Outs, kind : {"return", "outbound"}]
    \cup {OperatorRule(c) : c \in OperatorChains}

\* Every variable has its type; a rule of a session names a real egress
\* interface and stands in a chain of its kind.
HostTypeOK ==
    /\ settings \in [Sessions -> Settings]
    /\ link \in [Ifaces -> {"absent", "added", "configured", "addressed", "up"}]
    /\ chains \subseteq OperatorChains \cup {NatChain}
    /\ natTable \in BOOLEAN /\ ipForward \in BOOLEAN
    /\ rules \subseteq Rules
    /\ ipRules \subseteq Ifaces \X Tables
    /\ ipRoutes \in [Tables -> Outs \cup {NoIface}]
    /\ pc \in [Sessions -> Labels]
    /\ out \in [Sessions -> Outs \cup {NoIface}]
    /\ todo \in [Sessions -> SUBSET OperatorChains]
    /\ cur \in [Sessions -> OperatorChains \cup {NatChain}]
    /\ handles \in [Sessions -> SUBSET Rules]
    /\ closing \subseteq Sessions
    /\ dropped \in [Sessions -> SUBSET {"undo", "close"}]

InPlace(s, part) ==
    CASE part = "ip_forward" -> ipForward
      [] part = NatChain -> NatRule(s) \in rules
      [] part = "policy" -> /\ <<settings[s].iface, settings[s].table>> \in ipRules
                            /\ ipRoutes[settings[s].table] = settings[s].routeOut
      [] part \in OperatorChains -> /\ ForwardRule(s, part, "return") \in rules
                                    /\ ForwardRule(s, part, "outbound") \in rules

\* While a backend runs, of its routing only what was logged as failed, or what
\* the operator or a handle from before a reload has taken away since, is
\* missing, whatever other sessions apply, clean up or leave behind by a crash;
\* and from the first rule of a session to the last its interface is up: rules
\* come after it and go before it.
RunningIsRouted ==
    \A s \in Sessions :
        /\ pc[s] = "running" => \A part \in owed[s] : InPlace(s, part)
        /\ pc[s] = "running" \/ (Alive(s) /\ \E r \in rules : r.owner = s)
              => link[settings[s].iface] = "up"

Accountable(s, part) == Alive(s) \/ pc[s] = "crashed" \/ part \in left[s]

\* An interface, rule or route on the host belongs to a backend that is alive,
\* whose node crashed, or whose cleanup failed at that very chain or entry: an
\* error in one place never keeps cleanupLinuxHostRouting from the others.  A
\* New that fails half way leaves no interface behind either, unless both the
\* deferred cleanup and Close fail, which it tells nobody (wireguard.go:188).
NothingUnreported ==
    /\ \A r \in rules : r.owner \in Sessions => Accountable(r.owner, r.chain)
    /\ \A e \in ipRules : \E s \in Sessions :
          e = <<settings[s].iface, settings[s].table>> /\ Accountable(s, "rule")
    /\ \A t \in Tables : ipRoutes[t] # NoIface => \E s \in Sessions :
          t = settings[s].table /\ Accountable(s, "route")
    /\ \A i \in Ifaces : link[i] # "absent" => \E s \in Sessions :
          /\ i = settings[s].iface
          /\ Accountable(s, "link") \/ (pc[s] = "failed" /\ dropped[s] = {"undo", "close"})

\* A rule disappears by the shutdown of its own owner or by the operator's
\* hand.  A shutdown touches a rule of another session or of the operator only
\* by a handle it listed in the same chain for a rule of its own that has been
\* flushed since, one rule for each such handle (host_routing_linux.go:313-326).
ForeignRulesKept ==
    [][\A r \in rules \ rules' :
          \/ r.owner \in closing \/ EditRuleset \/ ReloadRuleset
          \/ /\ rules \ rules' = {r}
             /\ \E s \in closing : r.chain = cur[s] /\ \E h \in handles[s] \ handles'[s] : h \notin rules]_vars

\* Whatever fails, New and Shutdown come to an end.
SessionsSettle ==
    \A s \in Sessions : (Alive(s) /\ pc[s] # "running") ~> (pc[s] \in Idle \cup {"running"})

============================================================================
