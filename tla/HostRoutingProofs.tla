-------------------------- MODULE HostRoutingProofs --------------------------
(***************************************************************************)
(* The host routing for any number of sessions, nodes, interfaces, tables  *)
(* and chains and any sequence of failing calls, crashes and edits of the  *)
(* ruleset: nothing stays on the host unreported but by New's own cleanup, *)
(* and no session touches the rules of another one or of the operator but  *)
(* through a handle whose rule was flushed.                                *)
(***************************************************************************)
EXTENDS HostRouting, TLAPS

\* Before its apply, and after a New that failed, a session has nothing in the
\* ruleset.
Early == {"idle", "failed", "clean", "added", "configured", "addressed", "up", "undo", "abort",
          "apply", "ip_forward", "nat_table", "nat_chain"}

\* The chains a session may put rules into.
ForwardChains ==
    {c \in OperatorChains : ChainInfo[c].hook = "forward" /\ ChainInfo[c].family \in {"ip", "inet"}}

\* What the steps of a session leave alone.
Frame(s) ==
    /\ settings' = settings
    /\ \A t \in Sessions \ {s} :
          /\ pc'[t] = pc[t] /\ out'[t] = out[t] /\ todo'[t] = todo[t] /\ cur'[t] = cur[t]
          /\ handles'[t] = handles[t] /\ left'[t] = left[t] /\ dropped'[t] = dropped[t]
          /\ owed'[t] \subseteq owed[t]
          /\ t \in closing' <=> t \in closing
    /\ \A r \in rules' : r \in rules \/ r.owner = s
    /\ chains \subseteq chains'

----------------------------------------------------------------------------
(* Types.                                                                  *)

Setup == {"clean", "added", "configured", "addressed", "up", "undo", "abort", "apply"}

\* A session visits only chains it may put rules into; it goes through the
\* routing only if that is on, and then knows its egress interface.
HostShape ==
    /\ HostTypeOK
    /\ owed \in [Sessions -> SUBSET (OperatorChains \cup {NatChain, "ip_forward", "policy"})]
    /\ left \in [Sessions -> SUBSET (OperatorChains \cup {NatChain, "link", "rule", "route"})]
    /\ todo \in [Sessions -> SUBSET ForwardChains]
    /\ cur \in [Sessions -> ForwardChains \cup {NatChain}]
    /\ \A s \in Sessions : pc[s] \notin Idle \cup Setup =>
          IF settings[s].routing THEN out[s] \in Outs ELSE pc[s] \in {"running", "close"}
    /\ \A s \in Sessions : /\ pc[s] = "masquerade" => cur[s] = NatChain
                           /\ pc[s] \in {"return", "outbound"} => cur[s] # NatChain

----------------------------------------------------------------------------
(* The rules of a session, place by place.                                 *)

\* The rules session s has in the chains of C are within D.
RulesIn(s, C, D) == \A r \in rules : r.owner = s /\ r.chain \in C => r.chain \in D
NoRules(s, C) == RulesIn(s, C, {})
AllChains == OperatorChains \cup {NatChain}

\* Shutdown is entered from "running" and not left.
ClosingOK(s) ==
    /\ s \in closing => pc[s] \in {"del_route", "del_rule", "list", "delete", "ruleset", "next",
                                   "close", "stopped", "crashed"}
    /\ pc[s] \in {"del_route", "del_rule", "close", "stopped"} => s \in closing

\* The chain a session visits is not among those it has still to visit.
VisitOK(s) ==
    /\ pc[s] = "ip_route" => settings[s].policy
    /\ pc[s] \in {"del_route", "del_rule"} => cur[s] = NatChain
    /\ pc[s] \in {"list", "delete", "return", "outbound"} => cur[s] \notin todo[s]
    /\ pc[s] = "delete" => \A r \in handles[s] : r.owner = s /\ r.chain = cur[s]

\* Apply adds rules only where the session has none yet, so there is nothing
\* of its own to purge.
ApplyOK(s) ==
    /\ pc[s] \in Early => NoRules(s, AllChains)
    /\ ~settings[s].routing => NoRules(s, AllChains)
    /\ s \notin closing =>
          /\ pc[s] \in {"list", "delete", "masquerade"} /\ cur[s] = NatChain => NoRules(s, AllChains)
          /\ pc[s] = "ruleset" => NoRules(s, OperatorChains)
          /\ pc[s] \in {"list", "delete"} => NoRules(s, {cur[s]} \cup todo[s])
          /\ pc[s] \in {"next", "return", "outbound"} => NoRules(s, todo[s])
          /\ pc[s] = "delete" => handles[s] = {}

\* The cleanup has dealt with every chain it has passed.
CleanupOK(s) ==
    s \in closing =>
        /\ pc[s] = "delete" => \A r \in rules : r.owner = s /\ r.chain = cur[s] => r \in handles[s]
        /\ pc[s] = "ruleset" => RulesIn(s, {NatChain}, left[s])
        /\ pc[s] = "next" => RulesIn(s, AllChains, todo[s] \cup left[s])
        /\ pc[s] \in {"list", "delete"} /\ cur[s] # NatChain =>
              RulesIn(s, AllChains, {cur[s]} \cup todo[s] \cup left[s])
        /\ pc[s] \in {"close", "stopped"} => RulesIn(s, AllChains, left[s])

RulesInv ==
    /\ \A r \in rules : r.chain \in chains
    /\ \A s \in Sessions : ClosingOK(s) /\ VisitOK(s) /\ ApplyOK(s) /\ CleanupOK(s)

----------------------------------------------------------------------------
(* The policy route and the interface: who is going to remove them.        *)

Answers(s, places, part) ==
    (settings[s].routing /\ settings[s].policy /\ pc[s] \in places)
        \/ pc[s] = "crashed" \/ part \in left[s]

\* An entry of "ip rule" is of a session that has still to delete it.
EntriesOK ==
    \A e \in ipRules : \E s \in Sessions :
        /\ e = <<settings[s].iface, settings[s].table>>
        /\ Answers(s, {"ip_route", "running", "del_route", "del_rule"}, "rule")

\* A route is of a session with that very egress interface, since cleanup
\* deletes no other.
RoutesOK ==
    \A t \in Tables : ipRoutes[t] # NoIface => \E s \in Sessions :
        /\ t = settings[s].table /\ ipRoutes[t] = settings[s].routeOut
        /\ Answers(s, {"running", "del_route"}, "route")

\* From LinkAdd on a session has a link, until the removal works; a New that
\* fails tries to remove it twice.
HoldsLink(s) ==
    \/ Alive(s) /\ pc[s] \notin {"clean", "added"} /\ (pc[s] = "abort" => "undo" \in dropped[s])
    \/ pc[s] = "crashed"
    \/ "link" \in left[s]
    \/ pc[s] = "failed" /\ dropped[s] = {"undo", "close"}

LinksOK ==
    \A i \in Ifaces : link[i] # "absent" => \E s \in Sessions :
        i = settings[s].iface /\ HoldsLink(s)

\* The inductive invariant.
HostInv == HostShape /\ RulesInv /\ EntriesOK /\ RoutesOK /\ LinksOK

----------------------------------------------------------------------------
(* Routing that stays in place.                                            *)

\* The environment of a node is fixed, and nodes of one host use different
\* interfaces and tables.
SeparateNodes ==
    \A d \in Deployments : \A s, t \in Sessions :
        IF d[s].node = d[t].node THEN d[s].routeOut = d[t].routeOut
        ELSE d[s].iface # d[t].iface /\ d[s].table # d[t].table

OneAlive ==
    \A s, t \in Sessions : settings[s].node = settings[t].node /\ Alive(s) /\ Alive(t) => s = t

\* The interface is up from LinkSetUp to Close.
LinkUp ==
    \A s \in Sessions : Alive(s) /\ pc[s] \notin Setup \ {"apply"} => link[settings[s].iface] = "up"

\* Where apply stands with the forward chains.
Visiting(s) == pc[s] \in {"list", "delete", "return", "outbound"} /\ cur[s] # NatChain
BeforeForward(s) ==
    \/ pc[s] \in {"ip_forward", "nat_table", "nat_chain", "masquerade", "ruleset"}
    \/ pc[s] \in {"list", "delete"} /\ cur[s] = NatChain
AfterNat(s) == pc[s] \in {"ruleset", "next", "policy", "ip_route", "running"} \/ Visiting(s)
Pending(s) ==
    (IF pc[s] = "next" \/ Visiting(s) THEN todo[s] ELSE {}) \cup (IF Visiting(s) THEN {cur[s]} ELSE {})

\* While apply runs, the rules it owes are in place or still to come.
OwedRules(s) ==
    /\ BeforeForward(s) => owed[s] \cap OperatorChains = {}
    /\ AfterNat(s) /\ NatChain \in owed[s] => NatRule(s) \in rules
    /\ pc[s] \in {"next", "policy", "ip_route", "running"} \/ Visiting(s) =>
          \A c \in (owed[s] \cap OperatorChains) \ Pending(s) :
             ForwardRule(s, c, "return") \in rules /\ ForwardRule(s, c, "outbound") \in rules
    /\ pc[s] = "outbound" /\ cur[s] \in owed[s] => ForwardRule(s, cur[s], "return") \in rules

\* The same for the forwarding of the kernel and the policy route.
OwedRest(s) ==
    /\ pc[s] \in Setup \cup {"idle"} => owed[s] = {}
    /\ NatChain \in owed[s] => settings[s].nat
    /\ "policy" \in owed[s] => settings[s].policy
    /\ "ip_forward" \in owed[s] /\ pc[s] # "ip_forward" => ipForward
    /\ pc[s] = "ip_route" => <<settings[s].iface, settings[s].table>> \in ipRules
    /\ pc[s] = "running" /\ "policy" \in owed[s] =>
          /\ <<settings[s].iface, settings[s].table>> \in ipRules
          /\ ipRoutes[settings[s].table] = settings[s].routeOut

OwedOK(s) == s \notin closing /\ pc[s] # "crashed" => OwedRules(s) /\ OwedRest(s)

RoutingInv ==
    /\ settings \in Deployments
    /\ OneAlive /\ LinkUp
    /\ \A s \in Sessions : OwedOK(s)

----------------------------------------------------------------------------
(* Proof of the types.                                                     *)

LEMMA RuleTypes ==
    ASSUME HostShape, NEW s \in Sessions, out[s] \in Outs
    PROVE  /\ NatRule(s) \in Rules
           /\ \A c \in ForwardChains, d \in {"return", "outbound"} : ForwardRule(s, c, d) \in Rules
BY DEF NatRule, ForwardRule, Rules, ForwardChains

LEMMA InitShape == Init => HostShape
<1> SUFFICES ASSUME Init PROVE HostShape
  OBVIOUS
<1>1. HostTypeOK
  <2>1. settings \in [Sessions -> Settings]
    BY HostAssumption DEF Init
  <2>2. rules \subseteq Rules
    BY DEF Init, Rules
  <2> QED BY <2>1, <2>2 DEF Init, HostTypeOK, Labels, Idle
<1>2. \A s \in Sessions : pc[s] \in Idle
  BY DEF Init, Idle
<1>3. /\ owed \in [Sessions -> SUBSET (OperatorChains \cup {NatChain, "ip_forward", "policy"})]
      /\ left \in [Sessions -> SUBSET (OperatorChains \cup {NatChain, "link", "rule", "route"})]
      /\ todo \in [Sessions -> SUBSET ForwardChains]
      /\ cur \in [Sessions -> ForwardChains \cup {NatChain}]
  BY DEF Init
<1> QED BY <1>1, <1>2, <1>3 DEF HostShape, Idle

\* The steps on the interface.
LEMMA LinkShape ==
    ASSUME HostShape, NEW s \in Sessions,
           \/ New(s) \/ CleanInterface(s) \/ InitializeWithPeers(s) \/ Undo(s) \/ Close(s)
    PROVE  HostShape' /\ Frame(s)
<1> USE DEF Goto, Works, Fault, Mishap, Leave, hostVars, workVars, historyVars, RemoveLink, RemoveLinkFails
<1>0. s \in DOMAIN pc /\ settings[s].iface \in Ifaces
  BY DEF HostShape, HostTypeOK, Settings
<1>1. /\ settings' = settings /\ chains' = chains /\ natTable' = natTable /\ rules' = rules
      /\ ipForward' = ipForward /\ ipRules' = ipRules /\ ipRoutes' = ipRoutes /\ out' = out
      /\ todo' = todo /\ cur' = cur /\ handles' = handles /\ closing' = closing /\ owed' = owed
  BY DEF New, CleanInterface, InitializeWithPeers, SetUp, Undo, Close
<1>2. left' = left \/ left' = [left EXCEPT ![s] = @ \cup {"link"}]
  BY DEF New, CleanInterface, InitializeWithPeers, SetUp, Undo, Close
<1>2a. /\ dropped' \in [Sessions -> SUBSET {"undo", "close"}]
       /\ \A t \in Sessions : t # s => dropped'[t] = dropped[t]
  <2>1. dropped \in [Sessions -> SUBSET {"undo", "close"}]
    BY DEF HostShape, HostTypeOK
  <2>2. \/ dropped' = dropped
        \/ dropped' = [dropped EXCEPT ![s] = @ \cup {"undo"}]
        \/ dropped' = [dropped EXCEPT ![s] = @ \cup {"close"}]
    BY DEF New, CleanInterface, InitializeWithPeers, SetUp, Undo, Close, Drop
  <2> QED BY <2>1, <2>2
<1>3. \E l \in {"absent", "added", "configured", "addressed", "up"} :
        link' \in {link, [link EXCEPT ![settings[s].iface] = l]}
  BY DEF New, CleanInterface, InitializeWithPeers, SetUp, Undo, Close
<1>4. \E l \in Setup \cup {"failed", "stopped"} : pc' = [pc EXCEPT ![s] = l]
  BY DEF New, CleanInterface, InitializeWithPeers, SetUp, Undo, Close, Setup
<1>5. Frame(s)
  BY <1>1, <1>2, <1>2a, <1>4 DEF Frame, HostShape, HostTypeOK
<1>6. HostTypeOK'
  BY <1>1, <1>2a, <1>3, <1>4 DEF HostShape, HostTypeOK, Labels, Setup, Idle
<1>7. left' \in [Sessions -> SUBSET (OperatorChains \cup {NatChain, "link", "rule", "route"})]
  BY <1>2 DEF HostShape
<1>8. \A t \in Sessions : pc'[t] \notin Idle \cup Setup =>
         IF settings'[t].routing THEN out'[t] \in Outs ELSE pc'[t] \in {"running", "close"}
  BY <1>1, <1>4 DEF HostShape, HostTypeOK, Idle, Setup
<1>9. \A t \in Sessions : /\ pc'[t] = "masquerade" => cur'[t] = NatChain
                          /\ pc'[t] \in {"return", "outbound"} => cur'[t] # NatChain
  BY <1>1, <1>4 DEF HostShape, HostTypeOK, Setup
<1> QED BY <1>1, <1>5, <1>6, <1>7, <1>8, <1>9 DEF HostShape

\* The steps of apply.
LEMMA ApplyShape ==
    ASSUME HostShape, NEW s \in Sessions,
           \/ Apply(s) \/ ensureIPv4Forwarding(s) \/ AddNatTable(s) \/ AddNatChain(s)
           \/ AddMasquerade(s) \/ insertNFTForwardRule(s) \/ AddIPRule(s) \/ AddIPRoute(s)
    PROVE  HostShape' /\ Frame(s)
<1> USE DEF Goto, Works, Fault, Mishap, Forget, hostVars, workVars, historyVars
<1> DEFINE Parts == OperatorChains \cup {NatChain, "ip_forward", "policy"}
<1>0. /\ settings[s].iface \in Ifaces /\ settings[s].table \in Tables /\ settings[s].routeOut \in Outs
      /\ settings[s].natOut \in Outs \cup {NoIface}
  BY DEF HostShape, HostTypeOK, Settings
<1>1. /\ settings' = settings /\ link' = link /\ chains' \in {chains, chains \cup {NatChain}}
      /\ todo' = todo /\ cur' \in {cur, [cur EXCEPT ![s] = NatChain]}
      /\ handles' = handles /\ closing' = closing /\ left' = left /\ dropped' = dropped
  BY DEF Apply, ensureIPv4Forwarding, AddNatTable, AddNatChain, AddMasquerade, insertNFTForwardRule,
         InsertRule, AddIPRule, AddIPRoute
<1>2. /\ natTable' \in {natTable, TRUE} /\ ipForward' \in {ipForward, TRUE}
      /\ ipRules' \in {ipRules, ipRules \cup {<<settings[s].iface, settings[s].table>>}}
      /\ ipRoutes' \in {ipRoutes, [ipRoutes EXCEPT ![settings[s].table] =
                                     IF @ = NoIface THEN settings[s].routeOut ELSE @]}
  BY DEF Apply, ensureIPv4Forwarding, AddNatTable, AddNatChain, AddMasquerade, insertNFTForwardRule,
         InsertRule, AddIPRule, AddIPRoute
<1>3. /\ \E o \in Outs : out' \in {out, [out EXCEPT ![s] = o]}
      /\ IF settings[s].routing THEN out'[s] \in Outs ELSE pc'[s] = "running"
  <2>1. CASE Apply(s)
    BY <1>0, <2>1 DEF Apply, EgressInterfaces, HostShape, HostTypeOK
  <2>2. CASE ~Apply(s)
    <3>1. out' = out
      BY <2>2 DEF ensureIPv4Forwarding, AddNatTable, AddNatChain, AddMasquerade, insertNFTForwardRule,
             InsertRule, AddIPRule, AddIPRoute
    <3>2. pc[s] \notin Idle \cup Setup \cup {"running", "close"}
      BY <2>2 DEF ensureIPv4Forwarding, AddNatTable, AddNatChain, AddMasquerade, insertNFTForwardRule,
             InsertRule, AddIPRule, AddIPRoute, Idle, Setup
    <3> QED BY <3>1, <3>2 DEF HostShape
  <2> QED BY <2>1, <2>2
<1>4. \E P \in SUBSET Parts : owed' \in {owed, [owed EXCEPT ![s] = P]}
  <2>1. owed[s] \subseteq Parts /\ Promised(s) \subseteq Parts
    BY DEF HostShape, Promised
  <2>2. \E P \in SUBSET Parts : P = Promised(s)
    BY <2>1
  <2>3. \A Q : \E P \in SUBSET Parts : P = owed[s] \ Q
    BY <2>1
  <2> HIDE DEF Parts
  <2> QED BY <2>2, <2>3 DEF HostShape, Apply, ensureIPv4Forwarding, AddNatTable, AddNatChain, AddMasquerade,
             insertNFTForwardRule, InsertRule, AddIPRule, AddIPRoute
<1>5. rules' = rules \/ \E r \in Rules : r.owner = s /\ rules' = rules \cup {r}
  <2>1. CASE pc[s] \in {"masquerade", "return", "outbound"}
    <3>1. out[s] \in Outs
      BY <2>1 DEF HostShape, Idle, Setup
    <3>2. NatRule(s) \in Rules /\ NatRule(s).owner = s
      BY <3>1, RuleTypes DEF NatRule
    <3>3. CASE AddMasquerade(s)
      BY <3>2, <3>3 DEF AddMasquerade, InsertRule
    <3>4. CASE insertNFTForwardRule(s)
      <4>1. \A d \in {"return", "outbound"} : ForwardRule(s, cur[s], d) \in Rules /\ ForwardRule(s, cur[s], d).owner = s
        BY <3>1, <3>4, RuleTypes DEF ForwardRule, HostShape, insertNFTForwardRule
      <4> QED BY <3>4, <4>1 DEF insertNFTForwardRule, InsertRule
    <3> QED BY <2>1, <3>3, <3>4 DEF Apply, ensureIPv4Forwarding, AddNatTable, AddNatChain, AddIPRule, AddIPRoute
  <2>2. CASE pc[s] \notin {"masquerade", "return", "outbound"}
    BY <2>2 DEF Apply, ensureIPv4Forwarding, AddNatTable, AddNatChain, AddMasquerade, insertNFTForwardRule,
           InsertRule, AddIPRule, AddIPRoute
  <2> QED BY <2>1, <2>2
<1>6. /\ \E l \in Labels : pc' = [pc EXCEPT ![s] = l]
      /\ pc'[s] = "masquerade" => cur'[s] = NatChain
      /\ pc'[s] \in {"return", "outbound"} => cur'[s] # NatChain
  BY DEF Apply, ensureIPv4Forwarding, AddNatTable, AddNatChain, AddMasquerade, insertNFTForwardRule,
         InsertRule, AddIPRule, AddIPRoute, Labels, HostShape, HostTypeOK
<1>7. Frame(s)
  BY <1>1, <1>3, <1>4, <1>5, <1>6 DEF Frame, HostShape, HostTypeOK
<1>8. HostTypeOK'
  <2>1. settings' \in [Sessions -> Settings] /\ natTable' \in BOOLEAN /\ ipForward' \in BOOLEAN
    BY <1>1, <1>2 DEF HostShape, HostTypeOK
  <2>2. rules' \subseteq Rules
    BY <1>5 DEF HostShape, HostTypeOK
  <2>3. ipRules' \subseteq Ifaces \X Tables /\ ipRoutes' \in [Tables -> Outs \cup {NoIface}]
    BY <1>0, <1>2 DEF HostShape, HostTypeOK
  <2>4. /\ chains' \subseteq OperatorChains \cup {NatChain} /\ pc' \in [Sessions -> Labels]
        /\ cur' \in [Sessions -> OperatorChains \cup {NatChain}] /\ out' \in [Sessions -> Outs \cup {NoIface}]
    BY <1>1, <1>3, <1>6 DEF HostShape, HostTypeOK
  <2> QED BY <1>1, <2>1, <2>2, <2>3, <2>4 DEF HostShape, HostTypeOK
<1>9. /\ owed' \in [Sessions -> SUBSET Parts]
      /\ cur' \in [Sessions -> ForwardChains \cup {NatChain}]
  BY <1>1, <1>4 DEF HostShape
<1>10. \A t \in Sessions :
          /\ pc'[t] \notin Idle \cup Setup =>
                IF settings'[t].routing THEN out'[t] \in Outs ELSE pc'[t] \in {"running", "close"}
          /\ pc'[t] = "masquerade" => cur'[t] = NatChain
          /\ pc'[t] \in {"return", "outbound"} => cur'[t] # NatChain
  <2> TAKE t \in Sessions
  <2>1. CASE t = s
    BY <1>1, <1>3, <1>6, <2>1
  <2>2. CASE t # s
    <3>1. pc'[t] = pc[t] /\ out'[t] = out[t] /\ cur'[t] = cur[t] /\ settings' = settings
      BY <1>7, <2>2 DEF Frame
    <3> QED BY <3>1 DEF HostShape
  <2> QED BY <2>1, <2>2
<1> QED BY <1>1, <1>7, <1>8, <1>9, <1>10 DEF HostShape

\* The steps from chain to chain.
LEMMA VisitShape ==
    ASSUME HostShape, NEW s \in Sessions,
           ListRuleset(s) \/ NextChain(s) \/ ListChain(s) \/ DeleteRule(s) \/ Purged(s)
    PROVE  HostShape' /\ Frame(s)
<1> USE DEF Goto, Works, Fault, Mishap, Forget, Leave, hostVars, workVars, historyVars, PurgeFails
<1> DEFINE Parts == OperatorChains \cup {NatChain, "ip_forward", "policy"}
           Remains == OperatorChains \cup {NatChain, "link", "rule", "route"}
<1>1. /\ settings' = settings /\ link' = link /\ chains' = chains /\ natTable' = natTable
      /\ ipForward' = ipForward /\ ipRules' = ipRules /\ ipRoutes' = ipRoutes
      /\ out' = out /\ closing' = closing /\ dropped' = dropped /\ rules' \subseteq rules
  BY DEF ListRuleset, NextChain, ListChain, DeleteRule, Purged
<1>2. /\ todo \in [Sessions -> SUBSET ForwardChains] /\ cur \in [Sessions -> ForwardChains \cup {NatChain}]
      /\ owed \in [Sessions -> SUBSET Parts] /\ left \in [Sessions -> SUBSET Remains]
      /\ handles \in [Sessions -> SUBSET Rules] /\ pc \in [Sessions -> Labels] /\ rules \subseteq Rules
      /\ ForwardChains \subseteq OperatorChains
  BY DEF HostShape, HostTypeOK, ForwardChains
<1>3. \E T \in SUBSET ForwardChains : todo' \in {todo, [todo EXCEPT ![s] = T]}
  <2>1. CASE ListRuleset(s)
    <3>1. nftForwardBaseChains \in SUBSET ForwardChains
      BY DEF nftForwardBaseChains, ForwardChains
    <3> QED BY <2>1, <3>1 DEF ListRuleset
  <2>2. CASE NextChain(s)
    <3>1. \A c : todo[s] \ {c} \in SUBSET ForwardChains
      BY <1>2
    <3> QED BY <2>2, <3>1 DEF NextChain
  <2> QED BY <2>1, <2>2 DEF ListChain, DeleteRule, Purged
<1>4. \E c \in ForwardChains \cup {NatChain} : cur' \in {cur, [cur EXCEPT ![s] = c]}
  BY <1>2 DEF ListRuleset, NextChain, ListChain, DeleteRule, Purged
<1>5. owed' \in [Sessions -> SUBSET Parts] /\ \A t \in Sessions : t # s => owed'[t] \subseteq owed[t]
  <2>1. nftForwardBaseChains \subseteq OperatorChains
    BY DEF nftForwardBaseChains
  <2>2. /\ owed[s] \in SUBSET Parts /\ owed[s] \cup nftForwardBaseChains \in SUBSET Parts
        /\ \A t \in Sessions : \A Q : owed[t] \ Q \in SUBSET Parts
    BY <1>2, <2>1
  <2>3. CASE \E P \in SUBSET Parts : owed' \in {owed, [owed EXCEPT ![s] = P]}
    BY <1>2, <2>3
  <2>4. CASE DeleteRule(s) /\ ~PurgeFails(s)
    <3>1. PICK h \in handles[s], r \in rules :
             owed' = [t \in Sessions |-> IF t = r.owner /\ r # h THEN owed[t] \ {r.chain} ELSE owed[t]]
      BY <2>4 DEF DeleteRule, Named
    <3> HIDE DEF Parts
    <3> QED BY <1>2, <2>2, <3>1
  <2> HIDE DEF Parts
  <2> QED BY <2>2, <2>3, <2>4 DEF ListRuleset, NextChain, ListChain, DeleteRule, Purged
<1>6. \E P \in SUBSET Remains : left' \in {left, [left EXCEPT ![s] = P]}
  <2>1. left[s] \cup OperatorChains \in SUBSET Remains /\ left[s] \cup {cur[s]} \in SUBSET Remains
    BY <1>2
  <2> HIDE DEF Remains
  <2> QED BY <2>1 DEF ListRuleset, NextChain, ListChain, DeleteRule, Purged
<1>7. \E H \in SUBSET Rules : handles' \in {handles, [handles EXCEPT ![s] = H]}
  <2>1. /\ {r \in rules : r.chain = cur[s] /\ CarriesOwner(r, s)} \in SUBSET Rules
        /\ \A r : handles[s] \ {r} \in SUBSET Rules
        /\ {} \in SUBSET Rules
    BY <1>2
  <2> QED BY <2>1 DEF ListRuleset, NextChain, ListChain, DeleteRule, Purged
<1>8. /\ \E l \in Labels : pc' \in {pc, [pc EXCEPT ![s] = l]}
      /\ pc'[s] = "masquerade" => cur'[s] = NatChain
      /\ pc'[s] \in {"return", "outbound"} => cur'[s] # NatChain
      /\ pc[s] \notin Idle \cup Setup \cup {"running", "close"}
  BY <1>2 DEF ListRuleset, NextChain, ListChain, DeleteRule, Purged, Labels, Idle, Setup
<1>9. out[s] \in Outs /\ settings[s].routing
  BY <1>8 DEF HostShape
<1>10. Frame(s)
  BY <1>1, <1>2, <1>3, <1>4, <1>5, <1>6, <1>7, <1>8 DEF Frame
<1>11. HostTypeOK'
  <2>1. /\ todo' \in [Sessions -> SUBSET OperatorChains] /\ cur' \in [Sessions -> OperatorChains \cup {NatChain}]
        /\ handles' \in [Sessions -> SUBSET Rules] /\ pc' \in [Sessions -> Labels] /\ rules' \subseteq Rules
    BY <1>1, <1>2, <1>3, <1>4, <1>7, <1>8
  <2> QED BY <1>1, <2>1 DEF HostShape, HostTypeOK
<1>12. /\ owed' \in [Sessions -> SUBSET Parts] /\ left' \in [Sessions -> SUBSET Remains]
       /\ todo' \in [Sessions -> SUBSET ForwardChains] /\ cur' \in [Sessions -> ForwardChains \cup {NatChain}]
  BY <1>2, <1>3, <1>4, <1>5, <1>6
<1>13. \A t \in Sessions :
          /\ pc'[t] \notin Idle \cup Setup =>
                IF settings'[t].routing THEN out'[t] \in Outs ELSE pc'[t] \in {"running", "close"}
          /\ pc'[t] = "masquerade" => cur'[t] = NatChain
          /\ pc'[t] \in {"return", "outbound"} => cur'[t] # NatChain
  <2> TAKE t \in Sessions
  <2>1. CASE t = s
    BY <1>1, <1>8, <1>9, <2>1
  <2>2. CASE t # s
    <3>1. pc'[t] = pc[t] /\ out'[t] = out[t] /\ cur'[t] = cur[t] /\ settings' = settings
      BY <1>10, <2>2 DEF Frame
    <3> QED BY <3>1 DEF HostShape
  <2> QED BY <2>1, <2>2
<1> QED BY <1>10, <1>11, <1>12, <1>13 DEF HostShape

\* The steps of Shutdown before the chains.
LEMMA DownShape ==
    ASSUME HostShape, NEW s \in Sessions,
           Shutdown(s) \/ DelIPRoute(s) \/ DelIPRule(s)
    PROVE  HostShape' /\ Frame(s)
<1> USE DEF Goto, Works, Fault, Mishap, Leave, hostVars, workVars, historyVars
<1> DEFINE Remains == OperatorChains \cup {NatChain, "link", "rule", "route"}
<1>1. /\ settings' = settings /\ link' = link /\ chains' = chains /\ natTable' = natTable /\ rules' = rules
      /\ ipForward' = ipForward /\ ipRules' \subseteq ipRules
      /\ out' = out /\ todo' = todo /\ handles' = handles /\ owed' = owed /\ dropped' = dropped
      /\ cur' \in {cur, [cur EXCEPT ![s] = NatChain]} /\ closing' \in {closing, closing \cup {s}}
      /\ ipRoutes' \in {ipRoutes, [ipRoutes EXCEPT ![settings[s].table] =
                                     IF @ = settings[s].routeOut THEN NoIface ELSE @]}
  BY DEF Shutdown, DelIPRoute, DelIPRule
<1>2. left' \in {left, [left EXCEPT ![s] = @ \cup {"route"}], [left EXCEPT ![s] = @ \cup {"rule"}]}
  BY DEF Shutdown, DelIPRoute, DelIPRule
<1>3. /\ \E l \in {"close", "del_route", "del_rule", "list"} : pc' = [pc EXCEPT ![s] = l]
      /\ pc[s] \in {"running", "del_route", "del_rule"}
      /\ ~settings[s].routing => pc'[s] = "close" \/ pc[s] \in {"del_route", "del_rule"}
  <2>1. settings[s].routing \in BOOLEAN /\ settings[s].policy \in BOOLEAN /\ pc \in [Sessions -> Labels]
    BY DEF HostShape, HostTypeOK, Settings
  <2>2. CASE Shutdown(s)
    BY <2>1, <2>2 DEF Shutdown
  <2> QED BY <2>1, <2>2 DEF DelIPRoute, DelIPRule
<1>4. Frame(s)
  BY <1>1, <1>2, <1>3 DEF Frame, HostShape, HostTypeOK
<1>5. HostTypeOK'
  <2>1. /\ ipRoutes' \in [Tables -> Outs \cup {NoIface}] /\ pc' \in [Sessions -> Labels]
        /\ cur' \in [Sessions -> OperatorChains \cup {NatChain}] /\ closing' \subseteq Sessions
        /\ ipRules' \subseteq Ifaces \X Tables
    BY <1>1, <1>3 DEF HostShape, HostTypeOK, Labels
  <2> QED BY <1>1, <2>1 DEF HostShape, HostTypeOK
<1>6. left' \in [Sessions -> SUBSET Remains] /\ cur' \in [Sessions -> ForwardChains \cup {NatChain}]
  BY <1>1, <1>2 DEF HostShape
<1>7. \A t \in Sessions :
          /\ pc'[t] \notin Idle \cup Setup =>
                IF settings'[t].routing THEN out'[t] \in Outs ELSE pc'[t] \in {"running", "close"}
          /\ pc'[t] = "masquerade" => cur'[t] = NatChain
          /\ pc'[t] \in {"return", "outbound"} => cur'[t] # NatChain
  <2> TAKE t \in Sessions
  <2>1. CASE t = s
    <3>1. pc[s] \notin Idle \cup Setup
      BY <1>3 DEF Idle, Setup
    <3>2. pc'[s] \in {"close", "del_route", "del_rule", "list"}
      BY <1>3 DEF HostShape, HostTypeOK
    <3> QED BY <1>1, <1>3, <2>1, <3>1, <3>2 DEF HostShape
  <2>2. CASE t # s
    <3>1. pc'[t] = pc[t] /\ out'[t] = out[t] /\ cur'[t] = cur[t] /\ settings' = settings
      BY <1>4, <2>2 DEF Frame
    <3> QED BY <3>1 DEF HostShape
  <2> QED BY <2>1, <2>2
<1> QED BY <1>1, <1>4, <1>5, <1>6, <1>7 DEF HostShape

LEMMA AroundShape ==
    ASSUME HostShape, (\E n \in Nodes : Crash(n)) \/ EditRuleset \/ ReloadRuleset
    PROVE  HostShape'
<1> USE DEF Mishap, hostVars, workVars, historyVars
<1>1. /\ settings' = settings /\ link' = link /\ ipForward' = ipForward /\ ipRules' = ipRules
      /\ ipRoutes' = ipRoutes /\ out' = out /\ todo' = todo /\ cur' = cur /\ handles' = handles
      /\ closing' = closing /\ left' = left /\ dropped' = dropped
  BY DEF Crash, EditRuleset, ReloadRuleset
<1>2. \A t \in Sessions : pc'[t] \in {pc[t], "crashed"}
  BY DEF Crash, EditRuleset, ReloadRuleset
<1>3. pc' \in [Sessions -> Labels]
  BY DEF Crash, EditRuleset, ReloadRuleset, HostShape, HostTypeOK, Labels, Idle
<1>4. /\ chains' \subseteq OperatorChains \cup {NatChain} /\ natTable' \in BOOLEAN
      /\ owed' \in [Sessions -> SUBSET (OperatorChains \cup {NatChain, "ip_forward", "policy"})]
  <2> DEFINE Parts == OperatorChains \cup {NatChain, "ip_forward", "policy"}
  <2>1. owed \in [Sessions -> SUBSET Parts]
    BY DEF HostShape
  <2>2. \A Q : [t \in Sessions |-> owed[t] \ Q] \in [Sessions -> SUBSET Parts]
    BY <2>1
  <2> HIDE DEF Parts
  <2>3. owed' \in [Sessions -> SUBSET Parts]
    BY <2>1, <2>2 DEF Crash, EditRuleset, ReloadRuleset
  <2>4. chains' \subseteq OperatorChains \cup {NatChain} /\ natTable' \in BOOLEAN
    BY DEF Crash, EditRuleset, ReloadRuleset, HostShape, HostTypeOK
  <2> QED BY <2>3, <2>4 DEF Parts
<1>5. rules' \subseteq Rules
  <2>1. \A c \in OperatorChains : OperatorRule(c) \in Rules
    BY DEF Rules
  <2>2. rules \subseteq Rules
    BY DEF HostShape, HostTypeOK
  <2> QED BY <2>1, <2>2 DEF Crash, EditRuleset, ReloadRuleset
<1>6. HostTypeOK'
  BY <1>1, <1>3, <1>4, <1>5 DEF HostShape, HostTypeOK
<1>7. \A t \in Sessions :
          /\ pc'[t] \notin Idle \cup Setup =>
                IF settings'[t].routing THEN out'[t] \in Outs ELSE pc'[t] \in {"running", "close"}
          /\ pc'[t] = "masquerade" => cur'[t] = NatChain
          /\ pc'[t] \in {"return", "outbound"} => cur'[t] # NatChain
  BY <1>1, <1>2 DEF HostShape, Idle
<1> QED BY <1>1, <1>4, <1>6, <1>7 DEF HostShape

\* Every step of a session keeps the types and leaves the other sessions alone.
LEMMA SessionShape ==
    ASSUME HostShape, NEW s \in Sessions, New(s) \/ Step(s) \/ Shutdown(s)
    PROVE  HostShape' /\ Frame(s)
BY LinkShape, ApplyShape, VisitShape, DownShape DEF Step

LEMMA ShapeStep == HostShape /\ [Next]_vars => HostShape'
<1> SUFFICES ASSUME HostShape, [Next]_vars PROVE HostShape'
  OBVIOUS
<1>1. CASE UNCHANGED vars
  BY <1>1 DEF vars, hostVars, workVars, historyVars, HostShape, HostTypeOK
<1> QED BY <1>1, SessionShape, AroundShape DEF Next

\* The fields of the host and of the sessions keep their types, and a rule of a
\* session always names a real egress interface and stands in a chain of its
\* kind (host_routing_linux.go).
THEOREM HostTypeCorrect == Spec => []HostTypeOK
<1>1. HostShape => HostTypeOK
  BY DEF HostShape
<1> QED BY <1>1, InitShape, ShapeStep, PTL DEF Spec

----------------------------------------------------------------------------
(* Proof of RulesInv.                                                      *)

SessionOK(s) == ClosingOK(s) /\ VisitOK(s) /\ ApplyOK(s) /\ CleanupOK(s)

\* The rules of another session can only become fewer.
LEMMA OthersOK ==
    ASSUME NEW s \in Sessions, NEW t \in Sessions, t # s, Frame(s), SessionOK(t)
    PROVE  SessionOK(t)'
<1>1. /\ settings' = settings /\ pc'[t] = pc[t] /\ todo'[t] = todo[t] /\ cur'[t] = cur[t]
      /\ handles'[t] = handles[t] /\ left'[t] = left[t] /\ (t \in closing' <=> t \in closing)
  BY DEF Frame
<1>2. \A r \in rules' : r.owner = t => r \in rules
  BY DEF Frame
<1>3. ClosingOK(t)' /\ VisitOK(t)'
  BY <1>1 DEF SessionOK, ClosingOK, VisitOK
<1>4. ApplyOK(t)'
  BY <1>1, <1>2 DEF SessionOK, ApplyOK, NoRules, RulesIn
<1>5. CleanupOK(t)'
  BY <1>1, <1>2 DEF SessionOK, CleanupOK, RulesIn
<1> QED BY <1>3, <1>4, <1>5 DEF SessionOK

LEMMA LinkRules ==
    ASSUME HostShape, NEW s \in Sessions, SessionOK(s),
           \/ New(s) \/ CleanInterface(s) \/ InitializeWithPeers(s) \/ Undo(s) \/ Close(s)
    PROVE  SessionOK(s)' /\ rules' = rules /\ chains' = chains
<1> USE DEF Goto, Works, Fault, Mishap, Leave, hostVars, workVars, historyVars, RemoveLink, RemoveLinkFails
<1>1. /\ settings' = settings /\ chains' = chains /\ rules' = rules
      /\ todo' = todo /\ cur' = cur /\ handles' = handles /\ closing' = closing
  BY DEF New, CleanInterface, InitializeWithPeers, SetUp, Undo, Close
<1>2. left[s] \subseteq left'[s]
  BY DEF New, CleanInterface, InitializeWithPeers, SetUp, Undo, Close, HostShape
<1>3. \/ pc[s] \in Early /\ pc'[s] \in Early /\ pc'[s] \notin {"nat_chain"}
      \/ pc[s] = "close" /\ pc'[s] = "stopped"
  BY DEF New, CleanInterface, InitializeWithPeers, SetUp, Undo, Close, Early, HostShape, HostTypeOK
<1>4. ClosingOK(s)' /\ VisitOK(s)'
  BY <1>1, <1>3 DEF SessionOK, ClosingOK, VisitOK, Early
<1>5. ApplyOK(s)' /\ CleanupOK(s)'
  BY <1>1, <1>2, <1>3 DEF SessionOK, ClosingOK, ApplyOK, CleanupOK, NoRules, RulesIn, Early
<1> QED BY <1>1, <1>4, <1>5 DEF SessionOK

\* The chain of the node is not one of the operator's.
LEMMA ChainsApart == NatChain \notin OperatorChains /\ ForwardChains \subseteq OperatorChains
BY HostAssumption DEF ForwardChains

LEMMA ApplyRules ==
    ASSUME HostShape, NEW s \in Sessions, SessionOK(s),
           \/ Apply(s) \/ ensureIPv4Forwarding(s) \/ AddNatTable(s) \/ AddNatChain(s)
           \/ AddIPRule(s) \/ AddIPRoute(s)
    PROVE  SessionOK(s)' /\ rules' = rules /\ chains \subseteq chains'
<1> USE DEF Goto, Works, Fault, Mishap, Forget, hostVars, workVars, historyVars
<1>1. /\ settings' = settings /\ chains \subseteq chains' /\ rules' = rules
      /\ todo' = todo /\ handles' = handles /\ closing' = closing /\ left' = left
  BY DEF Apply, ensureIPv4Forwarding, AddNatTable, AddNatChain, AddIPRule, AddIPRoute
<1>2. /\ pc[s] \in {"apply", "ip_forward", "nat_table", "nat_chain", "policy", "ip_route"}
      /\ \/ pc'[s] \in {"ip_forward", "nat_table", "nat_chain", "ip_route", "running"}
         \/ pc[s] \in Early /\ pc'[s] = "ruleset"
         \/ pc[s] \in Early /\ pc'[s] = "list" /\ cur'[s] = NatChain
      /\ pc'[s] \in Early => pc[s] \in Early
      /\ pc'[s] = "ip_route" => settings[s].policy
  BY DEF Apply, ensureIPv4Forwarding, AddNatTable, AddNatChain, AddIPRule, AddIPRoute,
         Early, HostShape, HostTypeOK
<1>3. s \notin closing
  BY <1>2 DEF SessionOK, ClosingOK
<1>4. todo[s] \subseteq OperatorChains
  BY ChainsApart DEF HostShape
<1>5. ClosingOK(s)' /\ VisitOK(s)'
  BY <1>1, <1>2, <1>3, <1>4, ChainsApart DEF ClosingOK, VisitOK
<1>6. ApplyOK(s)'
  BY <1>1, <1>2, <1>4 DEF SessionOK, ApplyOK, NoRules, RulesIn, Early, AllChains
<1>7. CleanupOK(s)'
  BY <1>1, <1>3 DEF CleanupOK
<1> QED BY <1>1, <1>5, <1>6, <1>7 DEF SessionOK

\* A rule goes into a chain where the session has none of its kind.
LEMMA InsertRules ==
    ASSUME HostShape, NEW s \in Sessions, SessionOK(s), AddMasquerade(s) \/ insertNFTForwardRule(s)
    PROVE  /\ SessionOK(s)' /\ chains' = chains /\ rules \subseteq rules'
           /\ \A r \in rules' : r \in rules \/ r.chain \in chains
<1> USE DEF Goto, Works, Fault, Mishap, Forget, hostVars, workVars, historyVars
<1>1. /\ settings' = settings /\ chains' = chains /\ rules \subseteq rules'
      /\ todo' = todo /\ cur' = cur /\ handles' = handles /\ closing' = closing /\ left' = left
  BY DEF AddMasquerade, insertNFTForwardRule, InsertRule
<1>2. \A r \in rules' : r \in rules \/ (r.chain = cur[s] /\ cur[s] \in chains)
  BY DEF AddMasquerade, insertNFTForwardRule, InsertRule, NatRule, ForwardRule, HostShape
<1>3. /\ pc[s] \in {"masquerade", "return", "outbound"}
      /\ \/ pc[s] = "masquerade" /\ cur[s] = NatChain /\ pc'[s] = "ruleset"
         \/ pc[s] # "masquerade" /\ cur[s] # NatChain /\ pc'[s] \in {"outbound", "next", "policy"}
  BY DEF AddMasquerade, insertNFTForwardRule, InsertRule, HostShape, HostTypeOK
<1>4. s \notin closing
  BY <1>3 DEF SessionOK, ClosingOK
<1>5. settings[s].routing
  BY <1>3 DEF HostShape, Idle, Setup
<1>6. ClosingOK(s)' /\ VisitOK(s)'
  BY <1>1, <1>3, <1>4 DEF SessionOK, ClosingOK, VisitOK
<1>7. ApplyOK(s)'
  <2>1. CASE pc[s] = "masquerade"
    BY <1>1, <1>2, <1>3, <1>5, <2>1, <1>4, ChainsApart DEF SessionOK, ApplyOK, NoRules, RulesIn, Early, AllChains
  <2>2. CASE pc[s] # "masquerade"
    <3>1. NoRules(s, todo[s]) /\ cur[s] \notin todo[s]
      BY <1>3, <1>4, <2>2 DEF SessionOK, ApplyOK, VisitOK
    <3>2. NoRules(s, todo[s])'
      BY <1>1, <1>2, <3>1 DEF NoRules, RulesIn
    <3> QED BY <1>1, <1>3, <1>5, <2>2, <3>2 DEF ApplyOK, Early
  <2> QED BY <2>1, <2>2
<1>8. CleanupOK(s)'
  BY <1>1, <1>4 DEF CleanupOK
<1> QED BY <1>1, <1>2, <1>6, <1>7, <1>8 DEF SessionOK

\* A visit that fails: the cleanup remembers the chain and goes on.
LEMMA FailRules ==
    ASSUME HostShape, NEW s \in Sessions, SessionOK(s), PurgeFails(s), pc[s] \in {"list", "delete"},
           UNCHANGED <<settings, rules, chains, todo, cur, closing>>
    PROVE  SessionOK(s)'
<1>1. /\ handles'[s] = {}
      /\ s \in closing => /\ left'[s] = left[s] \cup {cur[s]}
                          /\ pc'[s] = IF cur[s] = NatChain THEN "ruleset" ELSE "next"
      /\ s \notin closing => pc'[s] = IF cur[s] = NatChain THEN "ruleset" ELSE "policy"
  BY DEF PurgeFails, Leave, Forget, Goto, HostShape, HostTypeOK
<1>2. settings[s].routing
  BY DEF HostShape, Idle, Setup
<1>3. ClosingOK(s)' /\ VisitOK(s)'
  BY <1>1 DEF SessionOK, ClosingOK, VisitOK
<1>4. ApplyOK(s)'
  BY <1>1, <1>2 DEF SessionOK, ApplyOK, NoRules, RulesIn, Early, AllChains
<1>5. CleanupOK(s)'
  BY <1>1 DEF SessionOK, CleanupOK, RulesIn, AllChains
<1> QED BY <1>3, <1>4, <1>5 DEF SessionOK

LEMMA ListRulesetRules ==
    ASSUME HostShape, RulesInv, NEW s \in Sessions, ListRuleset(s)
    PROVE  SessionOK(s)'
<1> USE DEF Goto, Works, Fault, Mishap, Leave, hostVars, historyVars
<1>1. /\ settings' = settings /\ rules' = rules /\ cur' = cur /\ handles' = handles /\ closing' = closing
      /\ pc[s] = "ruleset"
  BY DEF ListRuleset
<1>2. settings[s].routing
  BY <1>1 DEF HostShape, Idle, Setup
<1>3. \A r \in rules : r.owner = s /\ r.chain \in OperatorChains => r.chain \in nftForwardBaseChains
  <2> SUFFICES ASSUME NEW r \in rules, r.owner = s, r.chain \in OperatorChains
               PROVE  r.chain \in nftForwardBaseChains
    OBVIOUS
  <2>1. r \in Rules /\ r.chain \in chains
    BY DEF HostShape, HostTypeOK, RulesInv
  <2>2. r.chain \in {c \in OperatorChains : ChainInfo[c].hook = "forward" /\ ChainInfo[c].family \in {"ip", "inet"}}
    BY <2>1, HostAssumption DEF Rules, OperatorRule
  <2> QED BY <2>1, <2>2 DEF nftForwardBaseChains
<1>4. \/ /\ todo'[s] = nftForwardBaseChains /\ pc'[s] = "next" /\ left' = left
      \/ /\ todo' = todo
         /\ IF s \in closing THEN pc'[s] = "close" /\ left'[s] = left[s] \cup OperatorChains
                             ELSE pc'[s] = "policy" /\ left' = left
  BY DEF ListRuleset, HostShape, HostTypeOK
<1>5. SessionOK(s)
  BY DEF RulesInv, SessionOK
<1>6. ClosingOK(s)' /\ VisitOK(s)'
  BY <1>1, <1>4, <1>5 DEF SessionOK, ClosingOK, VisitOK
<1>7. ApplyOK(s)'
  BY <1>1, <1>2, <1>4, <1>5 DEF SessionOK, ApplyOK, NoRules, RulesIn, Early, AllChains, nftForwardBaseChains
<1>8. CleanupOK(s)'
  BY <1>1, <1>3, <1>4, <1>5 DEF SessionOK, CleanupOK, RulesIn, AllChains
<1> QED BY <1>6, <1>7, <1>8 DEF SessionOK

LEMMA NextChainRules ==
    ASSUME HostShape, NEW s \in Sessions, SessionOK(s), NextChain(s)
    PROVE  SessionOK(s)'
<1> USE DEF Goto, Works, hostVars, historyVars
<1>1. /\ settings' = settings /\ rules' = rules /\ left' = left /\ handles' = handles /\ closing' = closing
      /\ pc[s] = "next"
  BY DEF NextChain
<1>2. settings[s].routing
  BY <1>1 DEF HostShape, Idle, Setup
<1>3. \/ /\ todo[s] = {} /\ todo' = todo /\ cur' = cur
         /\ pc'[s] = IF s \in closing THEN "close" ELSE "policy"
      \/ \E c \in todo[s] : cur'[s] = c /\ todo'[s] = todo[s] \ {c} /\ pc'[s] = "list" /\ c # NatChain
  BY ChainsApart DEF NextChain, HostShape, HostTypeOK
<1>4. ClosingOK(s)' /\ VisitOK(s)'
  BY <1>1, <1>3 DEF SessionOK, ClosingOK, VisitOK
<1>5. ApplyOK(s)'
  BY <1>1, <1>2, <1>3 DEF SessionOK, ApplyOK, NoRules, RulesIn, Early
<1>6. CleanupOK(s)'
  BY <1>1, <1>3 DEF SessionOK, CleanupOK, RulesIn
<1> QED BY <1>4, <1>5, <1>6 DEF SessionOK

LEMMA ListChainRules ==
    ASSUME HostShape, NEW s \in Sessions, SessionOK(s), ListChain(s)
    PROVE  SessionOK(s)'
<1> USE DEF Goto, Works, Fault, Mishap, hostVars, historyVars
<1>1. /\ settings' = settings /\ rules' = rules /\ chains' = chains /\ todo' = todo /\ cur' = cur
      /\ closing' = closing /\ pc[s] = "list"
  BY DEF ListChain
<1>2. settings[s].routing
  BY <1>1 DEF HostShape, Idle, Setup
<1>3. CASE PurgeFails(s)
  BY <1>1, <1>3, FailRules
<1>4. CASE pc'[s] = "delete" /\ left' = left
           /\ handles'[s] = {r \in rules : r.chain = cur[s] /\ CarriesOwner(r, s)}
  <2>1. ClosingOK(s)' /\ VisitOK(s)'
    BY <1>1, <1>4 DEF SessionOK, ClosingOK, VisitOK, CarriesOwner
  <2>2. ApplyOK(s)'
    BY <1>1, <1>2, <1>4 DEF SessionOK, ApplyOK, NoRules, RulesIn, Early, CarriesOwner
  <2>3. CleanupOK(s)'
    BY <1>1, <1>4 DEF SessionOK, CleanupOK, RulesIn, CarriesOwner
  <2> QED BY <2>1, <2>2, <2>3 DEF SessionOK
<1> QED BY <1>3, <1>4 DEF ListChain, HostShape, HostTypeOK

LEMMA DeleteRules ==
    ASSUME HostShape, NEW s \in Sessions, SessionOK(s), DeleteRule(s)
    PROVE  SessionOK(s)' /\ chains' = chains /\ rules' \subseteq rules
<1> USE DEF Goto, Works, Fault, Mishap
<1>1. /\ settings' = settings /\ chains' = chains /\ todo' = todo /\ cur' = cur
      /\ closing' = closing /\ pc[s] = "delete" /\ rules' \subseteq rules
  BY DEF DeleteRule
<1>2. CASE PurgeFails(s) /\ rules' = rules
  BY <1>1, <1>2, FailRules
<1>3. CASE \E h \in handles[s] : \E r \in Named(s, h) :
              /\ rules' = rules \ {r} /\ handles'[s] = handles[s] \ {h}
              /\ pc' = pc /\ left' = left
  <2>1. ClosingOK(s)' /\ VisitOK(s)'
    BY <1>1, <1>3 DEF SessionOK, ClosingOK, VisitOK
  <2>2. ApplyOK(s)'
    BY <1>1, <1>3 DEF SessionOK, ApplyOK, NoRules, RulesIn
  <2>3. CleanupOK(s)'
    BY <1>1, <1>3 DEF SessionOK, CleanupOK, RulesIn, Named
  <2> QED BY <1>1, <2>1, <2>2, <2>3 DEF SessionOK
<1> QED BY <1>2, <1>3 DEF DeleteRule, HostShape, HostTypeOK

LEMMA PurgedRules ==
    ASSUME HostShape, NEW s \in Sessions, SessionOK(s), Purged(s)
    PROVE  SessionOK(s)'
<1> USE DEF Goto, Works, hostVars, workVars, historyVars
<1>1. /\ settings' = settings /\ rules' = rules /\ todo' = todo /\ cur' = cur /\ left' = left
      /\ closing' = closing /\ handles' = handles /\ pc[s] = "delete" /\ handles[s] = {}
  BY DEF Purged
<1>2. settings[s].routing
  BY <1>1 DEF HostShape, Idle, Setup
<1>3. pc'[s] = IF s \in closing THEN IF cur[s] = NatChain THEN "ruleset" ELSE "next"
               ELSE IF cur[s] = NatChain THEN "masquerade" ELSE "return"
  BY DEF Purged, HostShape, HostTypeOK
<1>4. ClosingOK(s)' /\ VisitOK(s)'
  BY <1>1, <1>3 DEF SessionOK, ClosingOK, VisitOK
<1>5. ApplyOK(s)'
  BY <1>1, <1>2, <1>3 DEF SessionOK, ApplyOK, NoRules, RulesIn, Early
<1>6. CleanupOK(s)'
  BY <1>1, <1>3 DEF SessionOK, CleanupOK, RulesIn
<1> QED BY <1>4, <1>5, <1>6 DEF SessionOK

LEMMA DownRules ==
    ASSUME HostShape, NEW s \in Sessions, SessionOK(s), Shutdown(s) \/ DelIPRoute(s) \/ DelIPRule(s)
    PROVE  SessionOK(s)' /\ rules' = rules /\ chains' = chains
<1> USE DEF Goto, Works, Fault, Mishap, Leave, hostVars, workVars, historyVars
<1>1. /\ settings' = settings /\ rules' = rules /\ chains' = chains /\ todo' = todo /\ handles' = handles
  BY DEF Shutdown, DelIPRoute, DelIPRule
<1>2. s \in closing'
  BY DEF Shutdown, DelIPRoute, DelIPRule, SessionOK, ClosingOK
<1>3. /\ pc[s] \in {"running", "del_route", "del_rule"}
      /\ IF pc[s] = "running"
         THEN /\ cur'[s] = NatChain
              /\ pc'[s] = IF ~settings[s].routing THEN "close"
                          ELSE IF settings[s].policy THEN "del_route" ELSE "list"
         ELSE cur' = cur /\ pc'[s] = IF pc[s] = "del_route" THEN "del_rule" ELSE "list"
  <2>1. settings[s].routing \in BOOLEAN /\ settings[s].policy \in BOOLEAN
    BY DEF HostShape, HostTypeOK, Settings
  <2> QED BY <2>1 DEF Shutdown, DelIPRoute, DelIPRule, HostShape, HostTypeOK
<1>4. cur'[s] = NatChain /\ NatChain \notin todo[s]
  BY <1>3, ChainsApart DEF SessionOK, VisitOK, HostShape
<1>5. ClosingOK(s)' /\ VisitOK(s)'
  BY <1>1, <1>2, <1>3, <1>4 DEF ClosingOK, VisitOK
<1>6. ApplyOK(s)' /\ CleanupOK(s)'
  <2>1. left[s] \subseteq left'[s]
    BY DEF Shutdown, DelIPRoute, DelIPRule, HostShape
  <2> QED BY <1>1, <1>2, <1>3, <1>4, <2>1 DEF SessionOK, ApplyOK, CleanupOK, NoRules, RulesIn, Early
<1> QED BY <1>1, <1>5, <1>6 DEF SessionOK

\* Crashes and edits add no rule of a session.
LEMMA AroundRules ==
    ASSUME HostShape, RulesInv, (\E n \in Nodes : Crash(n)) \/ EditRuleset \/ ReloadRuleset
    PROVE  RulesInv'
<1> USE DEF Mishap, hostVars, workVars, historyVars
<1>1. /\ settings' = settings /\ todo' = todo /\ cur' = cur /\ handles' = handles
      /\ closing' = closing /\ left' = left
  BY DEF Crash, EditRuleset, ReloadRuleset
<1>2. \A t \in Sessions : pc'[t] \in {pc[t], "crashed"}
  BY DEF Crash, EditRuleset, ReloadRuleset
<1>3. \A r \in rules' : r \in rules \/ r.owner \notin Sessions
  BY HostAssumption DEF Crash, EditRuleset, ReloadRuleset, OperatorRule
<1>4. \A r \in rules' : r.chain \in chains'
  BY DEF Crash, EditRuleset, ReloadRuleset, OperatorRule, RulesInv
<1>5. ASSUME NEW t \in Sessions
      PROVE  SessionOK(t)'
  <2>1. SessionOK(t) /\ pc'[t] \in {pc[t], "crashed"}
    BY <1>2 DEF RulesInv, SessionOK
  <2>2. \A r \in rules' : r.owner = t => r \in rules
    BY <1>3
  <2>3. ClosingOK(t)' /\ VisitOK(t)'
    BY <1>1, <2>1 DEF SessionOK, ClosingOK, VisitOK
  <2>4. ApplyOK(t)'
    BY <1>1, <2>1, <2>2 DEF SessionOK, ApplyOK, NoRules, RulesIn, Early
  <2>5. CleanupOK(t)'
    BY <1>1, <2>1, <2>2 DEF SessionOK, CleanupOK, RulesIn
  <2> QED BY <2>3, <2>4, <2>5 DEF SessionOK
<1> QED BY <1>4, <1>5 DEF RulesInv, SessionOK

LEMMA SessionRules ==
    ASSUME HostShape, RulesInv, NEW s \in Sessions, New(s) \/ Step(s) \/ Shutdown(s)
    PROVE  RulesInv'
<1>1. SessionOK(s) /\ Frame(s)
  BY SessionShape DEF RulesInv, SessionOK
<1>2. SessionOK(s)'
  BY <1>1, LinkRules, ApplyRules, InsertRules, ListRulesetRules, NextChainRules, ListChainRules,
     DeleteRules, PurgedRules, DownRules DEF Step
<1>3. \A r \in rules' : r.chain \in chains'
  <2>1. \A r \in rules' : r \in rules \/ r.chain \in chains
    <3>1. CASE ListRuleset(s) \/ NextChain(s) \/ ListChain(s) \/ Purged(s)
      BY <3>1 DEF ListRuleset, NextChain, ListChain, Purged, hostVars
    <3> QED BY <1>1, <3>1, LinkRules, ApplyRules, InsertRules, DeleteRules, DownRules DEF Step
  <2> QED BY <1>1, <2>1 DEF RulesInv, Frame
<1>4. \A t \in Sessions : SessionOK(t)'
  BY <1>1, <1>2, OthersOK DEF RulesInv, SessionOK
<1> QED BY <1>3, <1>4 DEF RulesInv, SessionOK

LEMMA InitRules == Init => RulesInv
<1> SUFFICES ASSUME Init PROVE RulesInv
  OBVIOUS
<1>1. \A r \in rules : r.chain \in chains /\ r.owner \notin Sessions
  BY HostAssumption DEF Init, OperatorRule
<1>2. \A s \in Sessions : pc[s] = "idle" /\ s \notin closing
  BY DEF Init
<1>3. \A s \in Sessions : ClosingOK(s) /\ VisitOK(s) /\ ApplyOK(s) /\ CleanupOK(s)
  BY <1>1, <1>2 DEF ClosingOK, VisitOK, ApplyOK, CleanupOK, NoRules, RulesIn
<1> QED BY <1>1, <1>3 DEF RulesInv

LEMMA RulesStep == HostShape /\ RulesInv /\ [Next]_vars => RulesInv'
<1> SUFFICES ASSUME HostShape, RulesInv, [Next]_vars PROVE RulesInv'
  OBVIOUS
<1>1. CASE UNCHANGED vars
  BY <1>1 DEF vars, hostVars, workVars, historyVars, RulesInv, ClosingOK, VisitOK, ApplyOK, CleanupOK, NoRules, RulesIn
<1> QED BY <1>1, SessionRules, AroundRules DEF Next

\* Only the shutdown of its owner, the operator, or a handle listed before the
\* ruleset was flushed removes a rule (removeNFTRulesWithCommentPrefix).
THEOREM ForeignRulesUntouched == Spec => ForeignRulesKept
<1> DEFINE ByHandle(r) == /\ rules \ rules' = {r}
                          /\ \E s \in closing : r.chain = cur[s] /\ \E h \in handles[s] \ handles'[s] : h \notin rules
           Kept == \A r \in rules \ rules' :
                      \/ r.owner \in closing \/ EditRuleset \/ ReloadRuleset
                      \/ /\ rules \ rules' = {r}
                         /\ \E s \in closing : r.chain = cur[s] /\ \E h \in handles[s] \ handles'[s] : h \notin rules
<1>1. HostShape /\ RulesInv /\ [Next]_vars => [Kept]_vars
  <2> SUFFICES ASSUME HostShape, RulesInv, Next, NEW r \in rules \ rules', ~EditRuleset, ~ReloadRuleset
               PROVE  r.owner \in closing \/ ByHandle(r)
    OBVIOUS
  <2>1. ~\E n \in Nodes : Crash(n)
    BY DEF Crash, hostVars
  <2>2. PICK s \in Sessions : New(s) \/ Step(s) \/ Shutdown(s)
    BY <2>1 DEF Next
  <2>3. SessionOK(s)
    BY DEF RulesInv, SessionOK
  <2>4. DeleteRule(s)
    <3>1. CASE ListRuleset(s) \/ NextChain(s) \/ ListChain(s) \/ Purged(s)
      BY <3>1 DEF ListRuleset, NextChain, ListChain, Purged, hostVars
    <3> QED BY <2>2, <2>3, <3>1, LinkRules, ApplyRules, InsertRules, DownRules DEF Step
  <2>5. PICK h \in handles[s] : /\ r \in Named(s, h) /\ pc[s] = "delete" /\ rules' = rules \ {r}
                               /\ handles' = [handles EXCEPT ![s] = @ \ {h}]
    BY <2>4 DEF DeleteRule, Named
  <2>6. s \in closing /\ h.owner = s
    BY <2>3, <2>5 DEF SessionOK, VisitOK, ApplyOK
  <2>7. CASE h \in rules
    BY <2>5, <2>6, <2>7 DEF Named
  <2>8. CASE h \notin rules
    <3>1. r.chain = cur[s] /\ rules \ rules' = {r}
      BY <2>5, <2>8 DEF Named
    <3>2. h \in handles[s] \ handles'[s]
      BY <2>5 DEF HostShape, HostTypeOK
    <3> QED BY <2>6, <2>8, <3>1, <3>2
  <2> QED BY <2>7, <2>8
<1> QED BY <1>1, InitShape, ShapeStep, InitRules, RulesStep, PTL DEF Spec, ForeignRulesKept

----------------------------------------------------------------------------
(* Proof of EntriesOK, RoutesOK and LinksOK.                               *)

\* A session that takes a step has not crashed, and forgets no failure.  Which
\* step touches what of the host.
LEMMA StepFacts ==
    ASSUME HostShape, NEW s \in Sessions, New(s) \/ Step(s) \/ Shutdown(s)
    PROVE  /\ pc[s] # "crashed" /\ left[s] \subseteq left'[s]
           /\ ipRules' = ipRules \/ AddIPRule(s) \/ DelIPRule(s)
           /\ ipRoutes' = ipRoutes \/ AddIPRoute(s) \/ DelIPRoute(s)
           /\ pc[s] = "ip_route" => pc'[s] = "running"
           /\ pc[s] = "running" /\ settings[s].routing /\ settings[s].policy => pc'[s] = "del_route"
           /\ pc[s] = "del_route" => DelIPRoute(s)
           /\ pc[s] = "del_rule" => DelIPRule(s)
<1> USE DEF Goto, Works, Fault, Mishap, Forget, Leave, hostVars, workVars, historyVars, RemoveLink, RemoveLinkFails, PurgeFails
<1>0. pc \in [Sessions -> Labels] /\ s \in DOMAIN left
  BY DEF HostShape, HostTypeOK
<1>1. CASE New(s) \/ CleanInterface(s) \/ InitializeWithPeers(s) \/ Undo(s) \/ Close(s)
  BY <1>0, <1>1 DEF New, CleanInterface, InitializeWithPeers, SetUp, Undo, Close
<1>2. CASE Apply(s) \/ ensureIPv4Forwarding(s) \/ AddNatTable(s) \/ AddNatChain(s)
           \/ AddMasquerade(s) \/ insertNFTForwardRule(s) \/ AddIPRule(s) \/ AddIPRoute(s)
  BY <1>0, <1>2 DEF Apply, ensureIPv4Forwarding, AddNatTable, AddNatChain, AddMasquerade, insertNFTForwardRule,
     InsertRule, AddIPRule, AddIPRoute
<1>3. CASE ListRuleset(s) \/ NextChain(s) \/ ListChain(s) \/ DeleteRule(s) \/ Purged(s)
  BY <1>0, <1>3 DEF ListRuleset, NextChain, ListChain, DeleteRule, Purged
<1>4. CASE Shutdown(s) \/ DelIPRoute(s) \/ DelIPRule(s)
  <2>1. settings[s].routing \in BOOLEAN /\ settings[s].policy \in BOOLEAN
    BY DEF HostShape, HostTypeOK, Settings
  <2> QED BY <1>0, <1>4, <2>1 DEF Shutdown, DelIPRoute, DelIPRule
<1> QED BY <1>1, <1>2, <1>3, <1>4 DEF Step

LEMMA SessionEntries ==
    ASSUME HostShape, EntriesOK, NEW s \in Sessions, New(s) \/ Step(s) \/ Shutdown(s)
    PROVE  EntriesOK'
<1> DEFINE Places == {"ip_route", "running", "del_route", "del_rule"}
           Owns(t, e) == e = <<settings[t].iface, settings[t].table>>
<1>1. Frame(s)
  BY SessionShape
<1> SUFFICES ASSUME NEW e \in ipRules'
             PROVE  \E t \in Sessions : Owns(t, e) /\ Answers(t, Places, "rule")'
  BY <1>1 DEF EntriesOK, Frame
<1>2. CASE e \in ipRules
  <2>1. PICK t \in Sessions : Owns(t, e) /\ Answers(t, Places, "rule")
    BY <1>2 DEF EntriesOK
  <2>2. CASE t # s
    BY <1>1, <2>1, <2>2 DEF Frame, Answers
  <2>3. CASE t = s /\ pc[s] = "del_rule"
    <3>1. DelIPRule(s)
      BY <2>3, StepFacts
    <3>2. "rule" \in left'[s]
      BY <2>1, <2>3, <3>1 DEF DelIPRule, Leave, HostShape, Fault, Mishap, Works
    <3> QED BY <2>1, <2>3, <3>2 DEF Answers
  <2>4. CASE t = s /\ pc[s] # "del_rule"
    <3>1. Answers(s, Places, "rule")'
      <4>1. pc[s] = "del_route" => pc'[s] = "del_rule"
        BY StepFacts DEF DelIPRoute, Goto, HostShape, HostTypeOK
      <4> QED BY <1>1, <2>1, <2>4, <4>1, StepFacts DEF Answers, Frame
    <3> QED BY <2>1, <2>4, <3>1
  <2> QED BY <2>2, <2>3, <2>4
<1>3. CASE e \notin ipRules
  <2>1. AddIPRule(s) /\ settings[s].policy /\ pc[s] = "policy" /\ Owns(s, e) /\ pc'[s] = "ip_route"
    <3>1. AddIPRule(s) \/ DelIPRule(s)
      BY <1>3, StepFacts
    <3> QED BY <1>3, <3>1 DEF AddIPRule, DelIPRule, Goto, HostShape, HostTypeOK
  <2>2. settings[s].routing
    BY <2>1 DEF HostShape, Idle, Setup
  <2> QED BY <1>1, <2>1, <2>2 DEF Answers, Frame
<1> QED BY <1>2, <1>3

LEMMA SessionRoutes ==
    ASSUME HostShape, RulesInv, RoutesOK, NEW s \in Sessions, New(s) \/ Step(s) \/ Shutdown(s)
    PROVE  RoutesOK'
<1> DEFINE Owns(t, b, o) == b = settings[t].table /\ o = settings[t].routeOut
           Places == {"running", "del_route"}
<1>1. Frame(s)
  BY SessionShape
<1>2. ipRoutes \in [Tables -> Outs \cup {NoIface}] /\ settings[s].table \in Tables
  BY DEF HostShape, HostTypeOK, Settings
<1> SUFFICES ASSUME NEW b \in Tables, ipRoutes'[b] # NoIface
             PROVE  \E t \in Sessions : Owns(t, b, ipRoutes'[b]) /\ Answers(t, Places, "route")'
  BY <1>1 DEF RoutesOK, Frame
<1>3. CASE ipRoutes'[b] = ipRoutes[b]
  <2>1. PICK t \in Sessions : Owns(t, b, ipRoutes[b]) /\ Answers(t, Places, "route")
    BY <1>3 DEF RoutesOK
  <2>2. CASE t # s
    BY <1>1, <1>3, <2>1, <2>2 DEF Frame, Answers
  <2>3. CASE t = s /\ pc[s] = "del_route"
    <3>1. DelIPRoute(s)
      BY <2>3, StepFacts
    <3>2. "route" \in left'[s]
      BY <1>2, <1>3, <2>1, <2>3, <3>1 DEF DelIPRoute, Leave, HostShape, Fault, Mishap, Works
    <3> QED BY <1>3, <2>1, <2>3, <3>2 DEF Answers
  <2>4. CASE t = s /\ pc[s] # "del_route"
    <3>1. Answers(s, Places, "route")'
      BY <1>1, <2>1, <2>4, StepFacts DEF Answers, Frame
    <3> QED BY <1>3, <2>1, <2>4, <3>1
  <2> QED BY <2>2, <2>3, <2>4
<1>4. CASE ipRoutes'[b] # ipRoutes[b]
  <2>1. /\ AddIPRoute(s) /\ Owns(s, b, ipRoutes'[b]) /\ pc'[s] = "running" /\ pc[s] = "ip_route"
    <3>1. AddIPRoute(s) \/ DelIPRoute(s)
      BY <1>4, StepFacts
    <3> QED BY <1>2, <1>4, <3>1 DEF AddIPRoute, DelIPRoute, Goto, HostShape, HostTypeOK, Fault, Mishap, Works
  <2>2. settings[s].routing /\ settings[s].policy
    BY <2>1 DEF HostShape, Idle, Setup, RulesInv, VisitOK
  <2> QED BY <1>1, <2>1, <2>2 DEF Answers, Frame
<1> QED BY <1>3, <1>4

\* Only the steps on the interface change it, and only Close ends a session.
LEMMA LinkFacts ==
    ASSUME HostShape, NEW s \in Sessions, New(s) \/ Step(s) \/ Shutdown(s)
    PROVE  /\ \A i \in Ifaces : i # settings[s].iface => link'[i] = link[i]
           /\ \/ link'[settings[s].iface] = "absent"
              \/ HoldsLink(s)'
              \/ link' = link /\ ~HoldsLink(s)
           /\ \/ link' = link
              \/ /\ pc[s] \in {"clean", "added", "configured", "addressed", "up", "undo", "abort", "close"}
                 /\ link'[settings[s].iface] = "up" <=> pc[s] = "up"
<1> USE DEF Goto, Works, Fault, Mishap, Forget, Leave, hostVars, workVars, historyVars, RemoveLink, RemoveLinkFails, PurgeFails
<1>0. /\ pc \in [Sessions -> Labels] /\ s \in DOMAIN left /\ settings[s].iface \in Ifaces
      /\ dropped \in [Sessions -> SUBSET {"undo", "close"}]
      /\ link \in [Ifaces -> {"absent", "added", "configured", "addressed", "up"}]
  BY DEF HostShape, HostTypeOK, Settings
<1>1. CASE New(s)
  BY <1>0, <1>1 DEF New, HoldsLink, Alive, Idle
<1>2. CASE CleanInterface(s) \/ Undo(s)
  BY <1>0, <1>2 DEF CleanInterface, Undo, Drop, HoldsLink, Alive, Idle
<1>3. CASE InitializeWithPeers(s)
  BY <1>0, <1>3 DEF InitializeWithPeers, SetUp, HoldsLink, Alive, Idle
<1>4. CASE Close(s)
  BY <1>0, <1>4 DEF Close, Drop, HoldsLink, Alive, Idle
<1>5. CASE Apply(s) \/ ensureIPv4Forwarding(s) \/ AddNatTable(s) \/ AddNatChain(s)
           \/ AddMasquerade(s) \/ insertNFTForwardRule(s) \/ AddIPRule(s) \/ AddIPRoute(s)
  BY <1>0, <1>5 DEF Apply, ensureIPv4Forwarding, AddNatTable, AddNatChain, AddMasquerade, insertNFTForwardRule,
     InsertRule, AddIPRule, AddIPRoute, HoldsLink, Alive, Idle
<1>6. CASE ListRuleset(s) \/ NextChain(s) \/ ListChain(s) \/ DeleteRule(s) \/ Purged(s)
  BY <1>0, <1>6 DEF ListRuleset, NextChain, ListChain, DeleteRule, Purged, HoldsLink, Alive, Idle
<1>7. CASE Shutdown(s) \/ DelIPRoute(s) \/ DelIPRule(s)
  <2>1. settings[s].routing \in BOOLEAN /\ settings[s].policy \in BOOLEAN
    BY DEF HostShape, HostTypeOK, Settings
  <2> QED BY <1>0, <1>7, <2>1 DEF Shutdown, DelIPRoute, DelIPRule, HoldsLink, Alive, Idle
<1> QED BY <1>1, <1>2, <1>3, <1>4, <1>5, <1>6, <1>7 DEF Step

LEMMA SessionLinks ==
    ASSUME HostShape, LinksOK, NEW s \in Sessions, New(s) \/ Step(s) \/ Shutdown(s)
    PROVE  LinksOK'
<1>1. Frame(s) /\ pc[s] # "crashed" /\ left[s] \subseteq left'[s]
  BY SessionShape, StepFacts
<1> SUFFICES ASSUME NEW i \in Ifaces, link'[i] # "absent"
             PROVE  \E t \in Sessions : i = settings[t].iface /\ HoldsLink(t)'
  BY <1>1 DEF LinksOK, Frame
<1>2. CASE link[i] = "absent"
  BY <1>2, LinkFacts
<1>3. CASE link[i] # "absent"
  <2>1. PICK t \in Sessions : i = settings[t].iface /\ HoldsLink(t)
    BY <1>3 DEF LinksOK
  <2>2. CASE t # s
    BY <1>1, <2>1, <2>2 DEF Frame, HoldsLink, Alive
  <2>3. CASE t = s
    BY <2>1, <2>3, LinkFacts
  <2> QED BY <2>2, <2>3
<1> QED BY <1>2, <1>3

LEMMA AroundRest ==
    ASSUME HostShape, EntriesOK, RoutesOK, LinksOK,
           (\E n \in Nodes : Crash(n)) \/ EditRuleset \/ ReloadRuleset
    PROVE  EntriesOK' /\ RoutesOK' /\ LinksOK'
<1>1. /\ settings' = settings /\ link' = link /\ ipRules' = ipRules /\ ipRoutes' = ipRoutes /\ left' = left
      /\ dropped' = dropped
  BY DEF Crash, EditRuleset, ReloadRuleset, hostVars, historyVars
<1>2. \A t \in Sessions : pc'[t] \in {pc[t], "crashed"}
  BY DEF Crash, EditRuleset, ReloadRuleset
<1>3. EntriesOK'
  BY <1>1, <1>2 DEF EntriesOK, Answers
<1>4. RoutesOK'
  BY <1>1, <1>2 DEF RoutesOK, Answers
<1>5. LinksOK'
  BY <1>1, <1>2 DEF LinksOK, HoldsLink, Alive, Idle
<1> QED BY <1>3, <1>4, <1>5

LEMMA HostInvInit == Init => HostInv
<1> SUFFICES ASSUME Init PROVE HostInv
  OBVIOUS
<1>1. EntriesOK /\ RoutesOK /\ LinksOK
  BY DEF Init, EntriesOK, RoutesOK, LinksOK
<1> QED BY <1>1, InitShape, InitRules DEF HostInv

LEMMA HostInvStep == HostInv /\ [Next]_vars => HostInv'
<1> SUFFICES ASSUME HostInv, [Next]_vars PROVE HostInv'
  OBVIOUS
<1>1. HostShape' /\ RulesInv'
  BY ShapeStep, RulesStep DEF HostInv
<1>2. CASE UNCHANGED vars
  BY <1>1, <1>2 DEF vars, hostVars, workVars, historyVars, HostInv, EntriesOK, RoutesOK, LinksOK, Answers, HoldsLink, Alive
<1>3. CASE \E s \in Sessions : New(s) \/ Step(s) \/ Shutdown(s)
  BY <1>1, <1>3, SessionEntries, SessionRoutes, SessionLinks DEF HostInv
<1>4. CASE (\E n \in Nodes : Crash(n)) \/ EditRuleset \/ ReloadRuleset
  BY <1>1, <1>4, AroundRest DEF HostInv
<1> QED BY <1>2, <1>3, <1>4 DEF Next

\* Whatever fails and whoever crashes, every interface, rule and route on the
\* host is accounted for (cleanupLinuxHostRouting, host_routing_linux.go).
THEOREM NothingLeftUnreported == Spec => []NothingUnreported
<1>1. HostInv => NothingUnreported
  <2> SUFFICES ASSUME HostInv PROVE NothingUnreported
    OBVIOUS
  <2>1. \A r \in rules : r.owner \in Sessions => Accountable(r.owner, r.chain)
    <3> SUFFICES ASSUME NEW r \in rules, NEW s \in Sessions, r.owner = s, ~Alive(s), pc[s] # "crashed"
                 PROVE  r.chain \in left[s]
      BY DEF Accountable
    <3>1. ApplyOK(s) /\ CleanupOK(s) /\ ClosingOK(s)
      BY DEF HostInv, RulesInv
    <3>2. r.chain \in AllChains
      BY DEF HostInv, HostShape, HostTypeOK, RulesInv, AllChains
    <3>3. pc[s] \in {"idle", "failed", "stopped"}
      BY DEF Alive, Idle
    <3> QED BY <3>1, <3>2, <3>3 DEF ApplyOK, CleanupOK, ClosingOK, NoRules, RulesIn, Early
  <2>2. \A e \in ipRules : \E s \in Sessions :
           e = <<settings[s].iface, settings[s].table>> /\ Accountable(s, "rule")
    BY DEF HostInv, EntriesOK, Answers, Accountable, Alive, Idle
  <2>3. \A t \in Tables : ipRoutes[t] # NoIface => \E s \in Sessions :
           t = settings[s].table /\ Accountable(s, "route")
    BY DEF HostInv, RoutesOK, Answers, Accountable, Alive, Idle
  <2>4. \A i \in Ifaces : link[i] # "absent" => \E s \in Sessions :
           /\ i = settings[s].iface
           /\ Accountable(s, "link") \/ (pc[s] = "failed" /\ dropped[s] = {"undo", "close"})
    BY DEF HostInv, LinksOK, HoldsLink, Accountable
  <2> QED BY <2>1, <2>2, <2>3, <2>4 DEF NothingUnreported
<1> QED BY <1>1, HostInvInit, HostInvStep, PTL DEF Spec

----------------------------------------------------------------------------
(* Proof of RoutingInv.                                                    *)

\* A step of another session, or of this one outside apply, changes neither the
\* rules a session would add nor where it stands.
LEMMA SamePlace ==
    ASSUME NEW s, settings' = settings, pc'[s] = pc[s], out'[s] = out[s], cur'[s] = cur[s], todo'[s] = todo[s]
    PROVE  /\ NatRule(s)' = NatRule(s)
           /\ \A c, d : ForwardRule(s, c, d)' = ForwardRule(s, c, d)
           /\ (Visiting(s)' <=> Visiting(s)) /\ (BeforeForward(s)' <=> BeforeForward(s))
           /\ (AfterNat(s)' <=> AfterNat(s)) /\ Pending(s)' = Pending(s)
BY DEF NatRule, ForwardRule, Visiting, BeforeForward, AfterNat, Pending

LEMMA OneAliveStep ==
    ASSUME HostInv, OneAlive, NEW s \in Sessions, New(s) \/ Step(s) \/ Shutdown(s)
    PROVE  OneAlive' /\ (Alive(s) \/ New(s))
<1>1. Frame(s)
  BY SessionShape DEF HostInv
<1>2. Alive(s) \/ New(s)
  BY DEF Alive, Idle, Step, Shutdown, CleanInterface, InitializeWithPeers, SetUp, Undo, Close,
     Apply, ensureIPv4Forwarding, AddNatTable, AddNatChain, AddMasquerade, insertNFTForwardRule, AddIPRule,
     AddIPRoute, ListRuleset, NextChain, ListChain, DeleteRule, Purged, DelIPRoute, DelIPRule
<1>3. \A t \in Sessions : t # s => (Alive(t)' <=> Alive(t))
  BY <1>1 DEF Frame, Alive
<1>4. CASE Alive(s)
  BY <1>1, <1>3, <1>4 DEF OneAlive, Frame
<1>5. CASE New(s)
  BY <1>1, <1>3, <1>5 DEF OneAlive, Frame, New
<1> QED BY <1>2, <1>4, <1>5

\* Sessions of the same interface or table are of the same node.
LEMMA Apart ==
    ASSUME SeparateNodes, settings \in Deployments, OneAlive,
           NEW s \in Sessions, NEW t \in Sessions, s # t, Alive(s), Alive(t)
    PROVE  settings[s].iface # settings[t].iface /\ settings[s].table # settings[t].table
BY DEF SeparateNodes, OneAlive

LEMMA LinkUpStep ==
    ASSUME SeparateNodes, HostInv, RoutingInv, NEW s \in Sessions, New(s) \/ Step(s) \/ Shutdown(s)
    PROVE  LinkUp'
<1> DEFINE Later == Setup \ {"apply"}
<1>1. Frame(s) /\ HostShape
  BY SessionShape DEF HostInv
<1>2. /\ settings \in [Sessions -> Settings] /\ pc \in [Sessions -> Labels]
      /\ link \in [Ifaces -> {"absent", "added", "configured", "addressed", "up"}]
  BY <1>1 DEF HostShape, HostTypeOK
<1> SUFFICES ASSUME NEW t \in Sessions, Alive(t)', pc'[t] \notin Later
             PROVE  link'[settings[t].iface] = "up"
  BY <1>1 DEF LinkUp, Frame
<1>3. CASE t # s
  <2>1. Alive(t) /\ pc[t] \notin Later /\ link[settings[t].iface] = "up" /\ settings[t].iface \in Ifaces
    BY <1>1, <1>2, <1>3 DEF Frame, Alive, RoutingInv, LinkUp, Settings
  <2>2. CASE Alive(s)
    BY <1>1, <1>3, <2>1, <2>2, Apart, LinkFacts DEF RoutingInv
  <2>3. CASE New(s)
    BY <2>1, <2>3 DEF New, hostVars
  <2> QED BY <2>2, <2>3, OneAliveStep DEF RoutingInv
<1>4. CASE t = s
  <2>1. CASE pc[s] \in Setup \cup {"idle"} /\ pc[s] # "apply"
    <3>1. pc[s] = "up" /\ link'[settings[s].iface] = "up"
      BY <1>1, <1>2, <1>4, <2>1, StepFacts, ZenonT(60) DEF Setup, Step, Shutdown, New, CleanInterface, InitializeWithPeers,
         SetUp, Undo, Close, Alive, Idle, Goto, Settings,
         Apply, ensureIPv4Forwarding, AddNatTable, AddNatChain, AddMasquerade, insertNFTForwardRule, AddIPRule,
         AddIPRoute, ListRuleset, NextChain, ListChain, DeleteRule, Purged, DelIPRoute, DelIPRule
    <3> QED BY <1>4, <3>1
  <2>2. CASE pc[s] \notin Setup \cup {"idle"} \/ pc[s] = "apply"
    <3>1. Alive(s)
      BY <2>2, OneAliveStep DEF RoutingInv, New, Setup
    <3>2. link[settings[s].iface] = "up"
      BY <2>2, <3>1 DEF RoutingInv, LinkUp
    <3>3. pc[s] # "close"
      BY <1>2, <1>4 DEF Alive, Idle, Step, Shutdown, New, CleanInterface, InitializeWithPeers,
         SetUp, Undo, Close, Goto,
         Apply, ensureIPv4Forwarding, AddNatTable, AddNatChain, AddMasquerade, insertNFTForwardRule, AddIPRule,
         AddIPRoute, ListRuleset, NextChain, ListChain, DeleteRule, Purged, DelIPRoute, DelIPRule
    <3> QED BY <1>1, <1>4, <2>2, <3>2, <3>3, LinkFacts DEF Setup
  <2> QED BY <2>1, <2>2
<1> QED BY <1>3, <1>4

\* A session leaves in place what another one that is alive relies on.
LEMMA OthersKeep ==
    ASSUME SeparateNodes, HostInv, RoutingInv, NEW s \in Sessions, New(s) \/ Step(s) \/ Shutdown(s),
           NEW t \in Sessions, t # s
    PROVE  /\ ipForward => ipForward'
           /\ \A r \in rules : r.owner = t => r \in rules' \/ r.chain \notin owed'[t]
           /\ Alive(t) /\ <<settings[t].iface, settings[t].table>> \in ipRules
                => <<settings[t].iface, settings[t].table>> \in ipRules'
           /\ Alive(t) /\ ipRoutes[settings[t].table] = settings[t].routeOut
                => ipRoutes'[settings[t].table] = settings[t].routeOut
<1> USE DEF Goto, Works, Fault, Mishap, hostVars, historyVars
<1>1. /\ HostShape /\ SessionOK(s) /\ settings \in [Sessions -> Settings]
      /\ ipRoutes \in [Tables -> Outs \cup {NoIface}] /\ settings \in Deployments /\ OneAlive
  BY DEF HostInv, RulesInv, SessionOK, HostShape, HostTypeOK, RoutingInv
<1>2. ipForward => ipForward'
  BY DEF Step, Shutdown, New, CleanInterface, InitializeWithPeers, SetUp, Undo, Close,
     Apply, ensureIPv4Forwarding, AddNatTable, AddNatChain, AddMasquerade, insertNFTForwardRule, AddIPRule,
     AddIPRoute, ListRuleset, NextChain, ListChain, DeleteRule, Purged, DelIPRoute, DelIPRule
<1>3. \A r \in rules : r.owner = t => r \in rules' \/ r.chain \notin owed'[t]
  <2>1. CASE ListRuleset(s) \/ NextChain(s) \/ ListChain(s) \/ Purged(s)
    BY <2>1 DEF ListRuleset, NextChain, ListChain, Purged
  <2>2. CASE DeleteRule(s)
    <3> SUFFICES ASSUME NEW r \in rules, r.owner = t, r \notin rules' PROVE r.chain \notin owed'[t]
      OBVIOUS
    <3>1. PICK h \in handles[s] :
            owed' = [u \in Sessions |-> IF u = r.owner /\ r # h THEN owed[u] \ {r.chain} ELSE owed[u]]
      BY <2>2 DEF DeleteRule, Named
    <3>2. h.owner = s
      BY <1>1, <2>2 DEF DeleteRule, SessionOK, VisitOK
    <3> QED BY <3>1, <3>2
  <2> QED BY <1>1, <2>1, <2>2, LinkRules, ApplyRules, InsertRules, DownRules DEF Step
<1>4. ASSUME Alive(t), <<settings[t].iface, settings[t].table>> \in ipRules
      PROVE  <<settings[t].iface, settings[t].table>> \in ipRules'
  <2>1. CASE DelIPRule(s)
    <3>1. Alive(s)
      BY <2>1 DEF DelIPRule, Alive, Idle
    <3> QED BY <1>1, <1>4, <2>1, <3>1, Apart DEF DelIPRule
  <2>2. CASE AddIPRule(s)
    BY <1>4, <2>2 DEF AddIPRule
  <2> QED BY <1>1, <1>4, <2>1, <2>2, StepFacts
<1>5. ASSUME Alive(t), ipRoutes[settings[t].table] = settings[t].routeOut
      PROVE  ipRoutes'[settings[t].table] = settings[t].routeOut
  <2>1. settings[t].routeOut # NoIface /\ settings[t].table \in Tables /\ settings[s].table \in Tables
    BY <1>1, HostAssumption DEF Settings
  <2>2. CASE DelIPRoute(s)
    <3>1. Alive(s)
      BY <2>2 DEF DelIPRoute, Alive, Idle
    <3> QED BY <1>1, <1>5, <2>1, <2>2, <3>1, Apart DEF DelIPRoute
  <2>3. CASE AddIPRoute(s)
    BY <1>1, <1>5, <2>1, <2>3 DEF AddIPRoute
  <2> QED BY <1>1, <1>5, <2>2, <2>3, StepFacts
<1> QED BY <1>2, <1>3, <1>4, <1>5

LEMMA OthersOwed ==
    ASSUME SeparateNodes, HostInv, RoutingInv, NEW s \in Sessions, New(s) \/ Step(s) \/ Shutdown(s),
           NEW t \in Sessions, t # s
    PROVE  OwedOK(t)'
<1>1. Frame(s)
  BY SessionShape DEF HostInv
<1>2. /\ settings' = settings /\ pc'[t] = pc[t] /\ out'[t] = out[t] /\ todo'[t] = todo[t] /\ cur'[t] = cur[t]
      /\ owed'[t] \subseteq owed[t] /\ (t \in closing' <=> t \in closing)
  BY <1>1 DEF Frame
<1> SUFFICES ASSUME t \notin closing, pc[t] # "crashed" PROVE OwedRules(t)' /\ OwedRest(t)'
  BY <1>2 DEF OwedOK
<1>3. OwedRules(t) /\ OwedRest(t)
  BY DEF RoutingInv, OwedOK
<1>4. /\ NatRule(t) \in rules => NatRule(t) \in rules' \/ NatChain \notin owed'[t]
      /\ \A c, d : ForwardRule(t, c, d) \in rules => ForwardRule(t, c, d) \in rules' \/ c \notin owed'[t]
  BY OthersKeep DEF NatRule, ForwardRule
<1>5. OwedRules(t)'
  BY <1>2, <1>3, <1>4, SamePlace DEF OwedRules
<1>6. OwedRest(t)'
  <2>1. pc[t] \in {"ip_route", "running"} => Alive(t)
    BY DEF Alive, Idle
  <2> QED BY <1>2, <1>3, <2>1, OthersKeep DEF OwedRest
<1> QED BY <1>5, <1>6

LEMMA AroundOwed ==
    ASSUME HostInv, RoutingInv, (\E n \in Nodes : Crash(n)) \/ EditRuleset \/ ReloadRuleset
    PROVE  RoutingInv'
<1> USE DEF Mishap, hostVars, workVars, historyVars
<1>1. /\ settings' = settings /\ link' = link /\ ipForward' = ipForward /\ ipRules' = ipRules
      /\ ipRoutes' = ipRoutes /\ out' = out /\ todo' = todo /\ cur' = cur /\ closing' = closing
  BY DEF Crash, EditRuleset, ReloadRuleset
<1>2. \A t \in Sessions : pc'[t] \in {pc[t], "crashed"}
  BY DEF Crash, EditRuleset, ReloadRuleset
<1>3. OneAlive' /\ LinkUp'
  BY <1>1, <1>2 DEF RoutingInv, OneAlive, LinkUp, Alive, Idle
<1>4. ASSUME NEW t \in Sessions PROVE OwedOK(t)'
  <2> SUFFICES ASSUME t \notin closing, pc'[t] # "crashed" PROVE OwedRules(t)' /\ OwedRest(t)'
    BY <1>1 DEF OwedOK
  <2>1. pc'[t] = pc[t] /\ OwedRules(t) /\ OwedRest(t)
    BY <1>2 DEF RoutingInv, OwedOK
  <2>2. /\ owed'[t] \subseteq owed[t]
        /\ NatChain \in owed'[t] /\ NatRule(t) \in rules => NatRule(t) \in rules'
        /\ \A c \in owed'[t] \cap OperatorChains : \A d :
              ForwardRule(t, c, d) \in rules => ForwardRule(t, c, d) \in rules'
    <3>1. owed \in [Sessions -> SUBSET (OperatorChains \cup {NatChain, "ip_forward", "policy"})]
      BY DEF HostInv, HostShape
    <3>2. NatRule(t).chain = NatChain /\ \A c, d : ForwardRule(t, c, d).chain = c
      BY DEF NatRule, ForwardRule
    <3> QED BY <3>1, <3>2, HostAssumption DEF Crash, EditRuleset, ReloadRuleset
  <2>3. OwedRules(t)'
    <3>1. cur[t] \in OperatorChains \/ cur[t] = NatChain
      BY ChainsApart DEF HostInv, HostShape
    <3>2. pc[t] = "outbound" => cur[t] # NatChain
      BY DEF HostInv, HostShape
    <3> QED BY <1>1, <2>1, <2>2, <3>1, <3>2, SamePlace DEF OwedRules
  <2>4. OwedRest(t)'
    BY <1>1, <2>1, <2>2 DEF OwedRest
  <2> QED BY <2>3, <2>4
<1> QED BY <1>1, <1>3, <1>4 DEF RoutingInv

\* The steps on the interface: nothing is owed yet, or not any more.
LEMMA LinkOwed ==
    ASSUME HostInv, NEW s \in Sessions, OwedOK(s),
           New(s) \/ CleanInterface(s) \/ InitializeWithPeers(s) \/ Undo(s) \/ Close(s)
    PROVE  OwedOK(s)'
<1> USE DEF Goto, Works, Fault, Mishap, Leave, hostVars, workVars, historyVars, RemoveLink, RemoveLinkFails
<1>1. owed' = owed /\ closing' = closing
  BY DEF New, CleanInterface, InitializeWithPeers, SetUp, Undo, Close
<1>2. pc[s] \in Setup \cup {"idle", "close"} /\ pc'[s] \in Setup \cup {"failed", "stopped"}
  BY DEF New, CleanInterface, InitializeWithPeers, SetUp, Undo, Close, Setup, HostInv, HostShape, HostTypeOK
<1>3. CASE pc[s] = "close"
  <2>1. s \in closing
    BY <1>3 DEF HostInv, RulesInv, ClosingOK
  <2> QED BY <1>1, <2>1 DEF OwedOK
<1>4. CASE pc[s] # "close"
  <2> SUFFICES ASSUME s \notin closing PROVE OwedRules(s)' /\ OwedRest(s)'
    BY <1>1 DEF OwedOK
  <2>1. owed'[s] = {}
    BY <1>1, <1>2, <1>4 DEF OwedOK, OwedRest, Setup
  <2> QED BY <1>2, <2>1 DEF OwedRules, OwedRest, Setup, Visiting, AfterNat
<1> QED BY <1>3, <1>4

\* Apply, ip_forward and the node's table and chain.
LEMMA BeginOwed ==
    ASSUME HostInv, NEW s \in Sessions, OwedOK(s),
           Apply(s) \/ ensureIPv4Forwarding(s) \/ AddNatTable(s) \/ AddNatChain(s)
    PROVE  OwedOK(s)'
<1> USE DEF Goto, Works, Fault, Mishap, Forget, hostVars, workVars, historyVars
<1>1. settings' = settings /\ rules' = rules /\ ipRules' = ipRules /\ ipRoutes' = ipRoutes /\ closing' = closing
  BY DEF Apply, ensureIPv4Forwarding, AddNatTable, AddNatChain
<1>2. /\ pc \in [Sessions -> Labels] /\ cur \in [Sessions -> ForwardChains \cup {NatChain}] /\ s \in DOMAIN owed
      /\ settings[s].nat \in BOOLEAN
  BY DEF HostInv, HostShape, HostTypeOK, Settings
<1>3. pc[s] \in {"apply", "ip_forward", "nat_table", "nat_chain"}
  BY DEF Apply, ensureIPv4Forwarding, AddNatTable, AddNatChain
<1>4. s \notin closing /\ OwedRules(s) /\ OwedRest(s)
  BY <1>3 DEF HostInv, RulesInv, ClosingOK, OwedOK
<1>5. CASE Apply(s)
  <2>1. \/ owed'[s] = {} /\ pc'[s] = "running"
        \/ owed'[s] = Promised(s) /\ pc'[s] = "ip_forward"
    BY <1>2, <1>4, <1>5 DEF Apply, OwedRest, Setup
  <2>2. Promised(s) \cap OperatorChains = {}
    BY HostAssumption DEF Promised
  <2>3. OwedRules(s)'
    BY <2>1, <2>2 DEF OwedRules, BeforeForward, AfterNat, Visiting
  <2>4. OwedRest(s)'
    <3>1. /\ NatChain \in Promised(s) => settings[s].nat
          /\ "policy" \in Promised(s) => settings[s].policy
      BY <1>2 DEF Promised, NatChain
    <3> QED BY <1>1, <2>1, <3>1 DEF OwedRest, Setup
  <2> QED BY <2>3, <2>4 DEF OwedOK
<1>6. CASE ~Apply(s)
  <2>1. /\ owed'[s] \subseteq owed[s] /\ owed[s] \cap OperatorChains = {}
        /\ "ip_forward" \in owed'[s] => ipForward'
    BY <1>2, <1>3, <1>4, <1>6 DEF ensureIPv4Forwarding, AddNatTable, AddNatChain, OwedRules, OwedRest, BeforeForward
  <2>2. \/ pc'[s] \in {"nat_table", "nat_chain"}
        \/ pc'[s] = "list" /\ cur'[s] = NatChain
        \/ pc'[s] = "ruleset" /\ NatChain \notin owed'[s]
    BY <1>2, <1>4, <1>6 DEF ensureIPv4Forwarding, AddNatTable, AddNatChain, OwedRest
  <2>3. OwedRules(s)'
    BY <2>1, <2>2 DEF OwedRules, BeforeForward, AfterNat, Visiting
  <2>4. OwedRest(s)'
    BY <1>1, <1>4, <2>1, <2>2 DEF OwedRest, Setup
  <2> QED BY <2>3, <2>4 DEF OwedOK
<1> QED BY <1>5, <1>6

\* A rule is added, or what cannot be added any more is no longer owed.
LEMMA InsertOwed ==
    ASSUME HostInv, NEW s \in Sessions, OwedOK(s), AddMasquerade(s) \/ insertNFTForwardRule(s)
    PROVE  OwedOK(s)'
<1> USE DEF Goto, Works, Fault, Mishap, Forget, hostVars, workVars, historyVars
<1>1. /\ settings' = settings /\ ipRules' = ipRules /\ ipRoutes' = ipRoutes /\ ipForward' = ipForward
      /\ out' = out /\ todo' = todo /\ cur' = cur /\ closing' = closing /\ rules \subseteq rules'
  BY DEF AddMasquerade, insertNFTForwardRule, InsertRule
<1>2. /\ pc \in [Sessions -> Labels] /\ s \in DOMAIN owed /\ ForwardChains \subseteq OperatorChains
      /\ todo[s] \subseteq ForwardChains /\ cur[s] \in ForwardChains \cup {NatChain} /\ NatChain \notin OperatorChains
      /\ pc[s] = "masquerade" => cur[s] = NatChain
      /\ pc[s] \in {"return", "outbound"} => cur[s] # NatChain
  BY ChainsApart DEF HostInv, HostShape, HostTypeOK
<1>3. pc[s] \in {"masquerade", "return", "outbound"}
  BY DEF AddMasquerade, insertNFTForwardRule
<1>4. s \notin closing /\ OwedRules(s) /\ OwedRest(s)
  BY <1>3 DEF HostInv, RulesInv, ClosingOK, OwedOK
<1>5. NatRule(s)' = NatRule(s) /\ \A c, d : ForwardRule(s, c, d)' = ForwardRule(s, c, d)
  BY <1>1 DEF NatRule, ForwardRule
<1>6. owed'[s] \subseteq owed[s] /\ pc'[s] \in {"ruleset", "outbound", "next", "policy"}
  BY <1>2 DEF AddMasquerade, insertNFTForwardRule, InsertRule
<1>7. OwedRules(s)'
  <2>1. CASE AddMasquerade(s)
    <3>1. pc'[s] = "ruleset" /\ (NatRule(s) \in rules' \/ NatChain \notin owed'[s]) /\ pc[s] = "masquerade"
      BY <1>2, <2>1 DEF AddMasquerade, InsertRule
    <3>2. owed[s] \cap OperatorChains = {}
      BY <1>4, <3>1 DEF OwedRules, BeforeForward
    <3> QED BY <1>5, <1>6, <3>1, <3>2 DEF OwedRules, Visiting
  <2>2. CASE insertNFTForwardRule(s)
    <3>1. pc[s] \in {"return", "outbound"} /\ cur[s] # NatChain
      BY <1>2, <2>2 DEF insertNFTForwardRule
    <3>2. /\ NatChain \in owed[s] => NatRule(s) \in rules
          /\ \A c \in (owed[s] \cap OperatorChains) \ ({cur[s]} \cup todo[s]) :
                ForwardRule(s, c, "return") \in rules /\ ForwardRule(s, c, "outbound") \in rules
          /\ pc[s] = "outbound" /\ cur[s] \in owed[s] => ForwardRule(s, cur[s], "return") \in rules
      BY <1>4, <3>1 DEF OwedRules, AfterNat, Visiting, Pending
    <3>3. \/ pc[s] = "return" /\ pc'[s] = "outbound" /\ ForwardRule(s, cur[s], "return") \in rules'
          \/ pc[s] = "outbound" /\ pc'[s] = "next" /\ ForwardRule(s, cur[s], "outbound") \in rules'
          \/ pc'[s] = "policy" /\ owed'[s] \cap ({cur[s]} \cup todo[s]) = {}
      BY <1>2, <2>2, <3>1 DEF insertNFTForwardRule, InsertRule
    <3>4. CASE pc'[s] = "policy"
      BY <1>1, <1>5, <1>6, <3>2, <3>3, <3>4 DEF OwedRules, BeforeForward, AfterNat, Visiting, Pending
    <3>5. CASE pc'[s] # "policy"
      BY <1>1, <1>5, <1>6, <3>1, <3>2, <3>3, <3>5 DEF OwedRules, BeforeForward, AfterNat, Visiting, Pending
    <3> QED BY <3>4, <3>5
  <2> QED BY <2>1, <2>2
<1>8. OwedRest(s)'
  BY <1>1, <1>3, <1>4, <1>6 DEF OwedRest, Setup
<1> QED BY <1>7, <1>8 DEF OwedOK

\* The entry and the route of a policy are both there when apply is done.
LEMMA PolicyOwed ==
    ASSUME SeparateNodes, HostInv, RoutingInv, NEW s \in Sessions, AddIPRule(s) \/ AddIPRoute(s)
    PROVE  OwedOK(s)'
<1> USE DEF Goto, Works, Fault, Mishap, Forget, hostVars, workVars, historyVars
<1>1. /\ settings' = settings /\ ipForward' = ipForward /\ rules' = rules
      /\ out' = out /\ todo' = todo /\ cur' = cur /\ closing' = closing /\ ipRules \subseteq ipRules'
  BY DEF AddIPRule, AddIPRoute
<1>2. /\ pc \in [Sessions -> Labels] /\ s \in DOMAIN owed /\ settings \in [Sessions -> Settings]
      /\ ipRoutes \in [Tables -> Outs \cup {NoIface}] /\ settings[s].table \in Tables /\ settings \in Deployments
  BY DEF HostInv, HostShape, HostTypeOK, Settings, RoutingInv
<1>3. pc[s] \in {"policy", "ip_route"}
  BY DEF AddIPRule, AddIPRoute
<1>4. s \notin closing /\ OwedRules(s) /\ OwedRest(s)
  BY <1>3 DEF HostInv, RulesInv, ClosingOK, OwedOK, RoutingInv
<1>5. NatRule(s)' = NatRule(s) /\ \A c, d : ForwardRule(s, c, d)' = ForwardRule(s, c, d)
  BY <1>1 DEF NatRule, ForwardRule
<1>6. owed'[s] \subseteq owed[s] /\ pc'[s] \in {"ip_route", "running"}
  BY <1>2 DEF AddIPRule, AddIPRoute
<1>7. OwedRules(s)'
  BY <1>1, <1>3, <1>4, <1>5, <1>6 DEF OwedRules, BeforeForward, AfterNat, Visiting, Pending
<1>8. OwedRest(s)'
  <2>1. pc'[s] = "ip_route" => <<settings[s].iface, settings[s].table>> \in ipRules'
    BY <1>2 DEF AddIPRule, AddIPRoute
  <2>2. CASE AddIPRoute(s)
    <3>1. <<settings[s].iface, settings[s].table>> \in ipRules'
      BY <1>1, <1>4, <2>2 DEF AddIPRoute, OwedRest
    <3>2. ipRoutes[settings[s].table] \in {NoIface, settings[s].routeOut}
      <4> SUFFICES ASSUME ipRoutes[settings[s].table] # NoIface
                   PROVE  ipRoutes[settings[s].table] = settings[s].routeOut
        OBVIOUS
      <4>1. PICK t \in Sessions : /\ settings[s].table = settings[t].table
                                  /\ ipRoutes[settings[s].table] = settings[t].routeOut
        BY <1>2 DEF HostInv, RoutesOK
      <4> QED BY <1>2, <4>1 DEF SeparateNodes
    <3>3. "policy" \in owed'[s] => ipRoutes'[settings[s].table] = settings[s].routeOut
      BY <1>2, <2>2, <3>2 DEF AddIPRoute
    <3> QED BY <1>1, <1>3, <1>4, <1>6, <2>1, <3>1, <3>3 DEF OwedRest, Setup
  <2>3. CASE AddIPRule(s)
    <3>1. pc'[s] = "running" => "policy" \notin owed'[s]
      BY <1>2, <1>4, <2>3 DEF AddIPRule, OwedRest
    <3> QED BY <1>1, <1>3, <1>4, <1>6, <2>1, <3>1 DEF OwedRest, Setup
  <2> QED BY <2>2, <2>3
<1> QED BY <1>7, <1>8 DEF OwedOK

\* From chain to chain: a chain is owed while it is pending, and apply finds
\* nothing of its own to delete.
LEMMA VisitOwed ==
    ASSUME HostInv, NEW s \in Sessions, OwedOK(s),
           ListRuleset(s) \/ NextChain(s) \/ ListChain(s) \/ DeleteRule(s) \/ Purged(s)
    PROVE  OwedOK(s)'
<1> USE DEF Goto, Works, Fault, Mishap, Forget, Leave, hostVars, workVars, historyVars, PurgeFails
<1>1. /\ settings' = settings /\ ipRules' = ipRules /\ ipRoutes' = ipRoutes /\ ipForward' = ipForward
      /\ out' = out /\ closing' = closing
  BY DEF ListRuleset, NextChain, ListChain, DeleteRule, Purged
<1> SUFFICES ASSUME s \notin closing PROVE OwedRules(s)' /\ OwedRest(s)'
  BY <1>1 DEF OwedOK
<1>2. /\ pc \in [Sessions -> Labels] /\ s \in DOMAIN owed /\ s \in DOMAIN cur /\ s \in DOMAIN todo
      /\ todo[s] \subseteq OperatorChains /\ cur[s] \in OperatorChains \cup {NatChain}
      /\ NatChain \notin OperatorChains
  BY ChainsApart DEF HostInv, HostShape, HostTypeOK
<1>3. pc[s] \in {"ruleset", "next", "list", "delete"}
  BY DEF ListRuleset, NextChain, ListChain, DeleteRule, Purged
<1>4. OwedRules(s) /\ OwedRest(s)
  BY <1>3 DEF OwedOK
<1>5. NatRule(s)' = NatRule(s) /\ \A c, d : ForwardRule(s, c, d)' = ForwardRule(s, c, d)
  BY <1>1 DEF NatRule, ForwardRule
<1>6. rules' = rules
  <2>1. pc[s] = "delete" => handles[s] = {}
    BY DEF HostInv, RulesInv, ApplyOK
  <2> QED BY <2>1 DEF ListRuleset, NextChain, ListChain, DeleteRule, Purged
<1>7. OwedRest(s)'
  <2>1. /\ pc'[s] \notin Setup \cup {"idle", "ip_forward", "ip_route", "running"}
        /\ \A part \in {NatChain, "ip_forward", "policy"} : part \in owed'[s] => part \in owed[s]
    <3>1. nftForwardBaseChains \cap {NatChain, "ip_forward", "policy"} = {}
      BY HostAssumption DEF nftForwardBaseChains
    <3> QED BY <1>2, <3>1 DEF ListRuleset, NextChain, ListChain, DeleteRule, Purged, Setup
  <2> QED BY <1>1, <1>3, <1>4, <2>1 DEF OwedRest
<1>8. CASE PurgeFails(s) /\ cur' = cur /\ todo' = todo /\ pc[s] \in {"list", "delete"}
  <2>1. IF cur[s] = NatChain THEN pc'[s] = "ruleset" /\ owed'[s] = owed[s] \ {NatChain}
        ELSE pc'[s] = "policy" /\ owed'[s] = owed[s] \ ({cur[s]} \cup todo[s])
    BY <1>2, <1>8
  <2>2. OwedRules(s)'
    BY <1>2, <1>4, <1>5, <1>6, <1>8, <2>1 DEF OwedRules, BeforeForward, AfterNat, Visiting, Pending
  <2> QED BY <1>7, <2>2
<1>9. CASE ListRuleset(s)
  <2>1. owed[s] \cap OperatorChains = {} /\ (NatChain \in owed[s] => NatRule(s) \in rules)
    BY <1>4, <1>9 DEF ListRuleset, OwedRules, BeforeForward, AfterNat
  <2>2. nftForwardBaseChains \subseteq OperatorChains
    BY DEF nftForwardBaseChains
  <2>3. \/ pc'[s] = "next" /\ owed'[s] = owed[s] \cup nftForwardBaseChains /\ todo'[s] = nftForwardBaseChains
        \/ pc'[s] = "policy" /\ owed'[s] = owed[s]
    BY <1>2, <1>9 DEF ListRuleset
  <2>4. OwedRules(s)'
    BY <1>2, <1>5, <1>6, <2>1, <2>2, <2>3 DEF OwedRules, BeforeForward, AfterNat, Visiting, Pending
  <2> QED BY <1>7, <2>4
<1>10. CASE NextChain(s)
  <2>1. /\ owed' = owed /\ pc[s] = "next"
        /\ \/ todo[s] = {} /\ pc'[s] = "policy"
           \/ \E c \in todo[s] : cur'[s] = c /\ todo'[s] = todo[s] \ {c} /\ pc'[s] = "list" /\ c # NatChain
    BY <1>2, <1>10 DEF NextChain
  <2>2. OwedRules(s)'
    BY <1>4, <1>5, <1>6, <2>1 DEF OwedRules, BeforeForward, AfterNat, Visiting, Pending
  <2> QED BY <1>7, <2>2
<1>11. CASE (ListChain(s) \/ Purged(s)) /\ owed' = owed /\ cur' = cur /\ todo' = todo
  <2>1. CASE pc'[s] \in {"list", "delete"}
    BY <1>3, <1>4, <1>5, <1>6, <1>7, <1>11, <2>1
       DEF ListChain, Purged, OwedRules, BeforeForward, AfterNat, Visiting, Pending
  <2>2. CASE Purged(s)
    <3>1. pc[s] = "delete" /\ pc'[s] = IF cur[s] = NatChain THEN "masquerade" ELSE "return"
      BY <1>2, <2>2 DEF Purged
    <3> QED BY <1>4, <1>5, <1>6, <1>7, <1>11, <3>1 DEF OwedRules, BeforeForward, AfterNat, Visiting, Pending
  <2>3. CASE ListChain(s) /\ pc'[s] \notin {"list", "delete"}
    <3>1. PurgeFails(s)
      BY <1>2, <2>3 DEF ListChain
    <3> QED BY <1>8, <1>11, <2>3, <3>1 DEF ListChain
  <2> QED BY <1>11, <2>1, <2>2, <2>3
<1>12. CASE DeleteRule(s)
  <2>1. pc[s] = "delete" => handles[s] = {}
    BY DEF HostInv, RulesInv, ApplyOK
  <2> QED BY <1>12, <2>1 DEF DeleteRule
<1> QED BY <1>8, <1>9, <1>10, <1>11, <1>12 DEF ListChain, Purged

LEMMA SessionOwed ==
    ASSUME SeparateNodes, HostInv, RoutingInv, NEW s \in Sessions, New(s) \/ Step(s) \/ Shutdown(s)
    PROVE  RoutingInv'
<1>1. OwedOK(s) /\ Frame(s)
  BY SessionShape DEF RoutingInv, HostInv
<1>2. CASE Shutdown(s) \/ DelIPRoute(s) \/ DelIPRule(s)
  <2>1. s \in closing'
    BY <1>2 DEF Shutdown, DelIPRoute, DelIPRule, workVars, HostInv, RulesInv, ClosingOK
  <2> QED BY <2>1, <1>1, OneAliveStep, LinkUpStep, OthersOwed DEF RoutingInv, OwedOK, Frame
<1>3. CASE ~(Shutdown(s) \/ DelIPRoute(s) \/ DelIPRule(s))
  <2>1. OwedOK(s)'
    BY <1>1, <1>3, LinkOwed, BeginOwed, InsertOwed, PolicyOwed, VisitOwed DEF Step
  <2> QED BY <2>1, <1>1, OneAliveStep, LinkUpStep, OthersOwed DEF RoutingInv, Frame
<1> QED BY <1>2, <1>3

LEMMA RoutingInvInit == Init => RoutingInv
<1> SUFFICES ASSUME Init PROVE RoutingInv
  OBVIOUS
<1>1. \A s \in Sessions : pc[s] = "idle" /\ owed[s] = {} /\ ~Alive(s)
  BY DEF Init, Alive, Idle
<1>2. OneAlive /\ LinkUp
  BY <1>1 DEF OneAlive, LinkUp
<1>3. \A s \in Sessions : OwedOK(s)
  BY <1>1 DEF OwedOK, OwedRules, OwedRest, Visiting, BeforeForward, AfterNat
<1> QED BY <1>2, <1>3 DEF RoutingInv, Init

\* Whatever other sessions of the host do, a backend that runs keeps the routing
\* it has not reported failed, and its interface is up as long as it has rules
\* (applyLinuxHostRouting, shutdownLocked).
THEOREM RunningStaysRouted ==
    ASSUME SeparateNodes
    PROVE  Spec => []RunningIsRouted
<1>1. HostInv /\ RoutingInv /\ [Next]_vars => RoutingInv'
  <2> SUFFICES ASSUME HostInv, RoutingInv, [Next]_vars PROVE RoutingInv'
    OBVIOUS
  <2>1. CASE UNCHANGED vars
    <3>1. \A t \in Sessions : OwedOK(t)'
      BY <2>1 DEF vars, hostVars, workVars, historyVars, RoutingInv, OwedOK, OwedRules, OwedRest, Visiting,
         BeforeForward, AfterNat, Pending, NatRule, ForwardRule
    <3> QED BY <2>1, <3>1 DEF vars, hostVars, workVars, historyVars, RoutingInv, OneAlive, LinkUp, Alive
  <2> QED BY <2>1, SessionOwed, AroundOwed DEF Next
<1>2. HostInv /\ RoutingInv => RunningIsRouted
  <2> SUFFICES ASSUME HostInv, RoutingInv, NEW s \in Sessions
               PROVE  /\ pc[s] = "running" => \A part \in owed[s] : InPlace(s, part)
                      /\ pc[s] = "running" \/ (Alive(s) /\ \E r \in rules : r.owner = s)
                            => link[settings[s].iface] = "up"
    BY DEF RunningIsRouted
  <2>1. ASSUME pc[s] = "running", NEW part \in owed[s] PROVE InPlace(s, part)
    <3>1. s \notin closing /\ OwedRules(s) /\ OwedRest(s)
      BY <2>1 DEF HostInv, RulesInv, ClosingOK, RoutingInv, OwedOK
    <3>2. Pending(s) = {} /\ AfterNat(s)
      BY <2>1 DEF Pending, Visiting, AfterNat
    <3>3. part \in OperatorChains \/ part \in {NatChain, "ip_forward", "policy"}
      BY <2>1 DEF HostInv, HostShape
    <3>4. OperatorChains \cap {NatChain, "ip_forward", "policy"} = {}
      BY HostAssumption
    <3> QED BY <2>1, <3>1, <3>2, <3>3, <3>4 DEF InPlace, OwedRules, OwedRest, NatChain
  <2>2. ASSUME pc[s] = "running" \/ (Alive(s) /\ \E r \in rules : r.owner = s)
        PROVE  link[settings[s].iface] = "up"
    <3>1. pc[s] \in Early => ~\E r \in rules : r.owner = s
      BY DEF HostInv, RulesInv, HostShape, HostTypeOK, ApplyOK, NoRules, RulesIn, AllChains
    <3> QED BY <2>2, <3>1 DEF RoutingInv, LinkUp, Alive, Idle, Setup, Early
  <2> QED BY <2>1, <2>2
<1> QED BY <1>1, <1>2, HostInvInit, HostInvStep, RoutingInvInit, PTL DEF Spec
============================================================================
