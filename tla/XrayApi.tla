------------------------------- MODULE XrayApi -------------------------------
(***************************************************************************)
(* Config.ApplyAPI: how the node makes a configuration of the panel its    *)
(* own before the core is started.  Its inbound and its routing rules go   *)
(* to the front, the services, the observatory and the policies it relies  *)
(* on are added, and what an earlier run left in the configuration is      *)
(* taken out.  The loop that removes the old inbound shrinks the slice it  *)
(* ranges over, so it is modelled one iteration at a time.                 *)
(***************************************************************************)
EXTENDS Integers, Sequences, FiniteSets, SequencesExt

CONSTANTS
    Strings,        \* what tags, names and addresses are
    Inbounds,       \* possible lists of inbound tags
    Services,       \* possible lists of API services
    Observatories,  \* possible observatories: none, or one with its selectors
    Rules,          \* possible lists of routing rules
    Outbounds,      \* possible lists of outbounds
    Policies,       \* possible policies
    ExcludedTags,   \* excluded inbounds
    TagOrder,       \* all outbound tags, sorted
    LocalAddrs,     \* addresses of the interfaces that are up, sorted, loopback included
    PrivateCIDRs    \* what geoip:private stands for

\* What may be nil in the code is <<>> when it is, and <<x>> when it points to x.
Nil == <<>>

ASSUME ApiAssumption ==
    /\ Inbounds \subseteq Seq(Strings) /\ ExcludedTags \subseteq Strings
    /\ Services \subseteq Seq([name : Strings, plain : BOOLEAN])
    /\ \A obs \in Observatories : obs \in Seq(Seq(Strings)) /\ Len(obs) <= 1
    /\ Rules \subseteq Seq([valid : BOOLEAN, inbound : Strings, outbound : Strings, guard : BOOLEAN,
                            ip : Seq(Strings), source : Seq(Strings)])
    /\ Outbounds \subseteq Seq([tag : Strings, protocol : Strings])
    /\ \A policy \in Policies :
          /\ policy \in [zero : Seq([uplink : BOOLEAN, downlink : BOOLEAN, online : BOOLEAN, null : BOOLEAN]),
                         system : Seq([inbound : BOOLEAN, outbound : BOOLEAN])]
          /\ Len(policy.zero) <= 1 /\ Len(policy.system) <= 1
    /\ {TagOrder, LocalAddrs, PrivateCIDRs} \subseteq Seq(Strings)
    /\ {"", "API", "API_INBOUND"} \subseteq Strings
    /\ "geoip:private" \notin Range(LocalAddrs) \cup Range(PrivateCIDRs)

ApiInbound == "API_INBOUND"

\* The tag of the API is not one of the panel's outbounds; Xray adds its own.
NoApiOutbound == \A outs \in Outbounds : \A k \in DOMAIN outs : outs[k].tag # "API"

VARIABLES
    cfg,        \* the configuration
    given,      \* history: as the panel sent it
    once,       \* history: after the first ApplyAPI
    at,         \* where ApplyAPI is
    iter, live, \* its loop: iteration, and length of c.InboundConfigs
    round       \* how often the configuration has been applied

apiVars == <<cfg, given, once, at, iter, live, round>>

\* The entries of a list that are in a set, in their order.
Keep(list, S) == FlattenSeq([k \in DOMAIN list |-> IF list[k] \in S THEN <<list[k]>> ELSE <<>>])

----------------------------------------------------------------------------
(* API services                                                            *)

requiredAPIServices == <<"HandlerService", "LoggerService", "StatsService">>
SortedServices == <<"HandlerService", "LoggerService", "ObservatoryService", "ReflectionService",
                    "RoutingService", "StatsService">>

\* The canonical name of a service, whatever its spelling; none if it is unknown.
canonicalAPIServices(s) == IF s.name \in Range(SortedServices) THEN s.name ELSE ""

sanitizeAPIServices(userProvided) ==
    LET asked == {canonicalAPIServices(userProvided[k]) : k \in DOMAIN userProvided}
    IN  requiredAPIServices \o Keep(SortedServices, asked \ Range(requiredAPIServices))

----------------------------------------------------------------------------
(* Outbounds and observatories                                             *)

\* A later outbound of the same tag wins.
outboundProtocolByTag(outs) ==
    LET named == {k \in DOMAIN outs : outs[k].tag # "" /\ outs[k].protocol # ""}
        LastOf(t) == CHOOSE k \in named : outs[k].tag = t /\ \A j \in named : outs[j].tag = t => j <= k
    IN  [t \in {outs[k].tag : k \in named} |-> outs[LastOf(t)].protocol]

observatoryExcludedProtocols == {"blackhole", "dns", "loopback"}

defaultObservatory(outs) ==
    LET protocol == outboundProtocolByTag(outs)
    IN  Keep(TagOrder, {t \in DOMAIN protocol : protocol[t] \notin observatoryExcludedProtocols})

sanitizeObservatorySelectors(obs, outs) ==
    LET protocol == outboundProtocolByTag(outs)
        excluded == {t \in DOMAIN protocol : protocol[t] \in observatoryExcludedProtocols}
    IN  [k \in DOMAIN obs |-> Keep(obs[k], Range(obs[k]) \ excluded)]

\* EqualFold: in any spelling, the first of the sorted tags.
blackholeOutboundTag(outs) ==
    LET protocol == outboundProtocolByTag(outs)
        tags == Keep(TagOrder, {t \in DOMAIN protocol : protocol[t] \in {"blackhole", "Blackhole"}})
    IN  IF tags = <<>> THEN "" ELSE Head(tags)

----------------------------------------------------------------------------
(* Routing rules                                                           *)

replaceGeoIPPrivate(values) ==
    FlattenSeq([k \in DOMAIN values |-> IF values[k] = "geoip:private" THEN PrivateCIDRs ELSE <<values[k]>>])

normalizeGeoIPPrivateRules(rules) ==
    [k \in DOMAIN rules |-> [rules[k] EXCEPT !.ip = replaceGeoIPPrivate(@), !.source = replaceGeoIPPrivate(@)]]

\* Mutant: only the rule of the API inbound is taken for the node's own.
filterApiRules(rules) ==
    Keep(rules, {r \in Range(rules) : r.outbound # "API"})

filterRules(rules) ==
    Keep(rules, {r \in Range(rules) : r.outbound # "API" /\ ~r.guard})

apiRule == [valid |-> TRUE, inbound |-> ApiInbound, outbound |-> "API", guard |-> FALSE,
            ip |-> <<>>, source |-> LocalAddrs]

malformedDomainGuardRule(tag) ==
    [valid |-> TRUE, inbound |-> "", outbound |-> tag, guard |-> TRUE, ip |-> <<>>, source |-> <<>>]

----------------------------------------------------------------------------
(* Policies                                                                *)

NodeLevel == [uplink |-> TRUE, downlink |-> TRUE, online |-> FALSE, null |-> FALSE]
NodeSystem == [inbound |-> FALSE, outbound |-> TRUE]

\* Level 0 is there but null in the panel's JSON: checkPolicy follows a nil pointer.
NullLevel(policy) == policy.zero # Nil /\ policy.zero[1].null

\* A policy that is nil has neither part.
checkPolicy(policy) ==
    [zero |-> IF policy.zero = Nil THEN <<NodeLevel>>
              ELSE <<[policy.zero[1] EXCEPT !.uplink = TRUE, !.downlink = TRUE]>>,
     system |-> IF policy.system = Nil THEN <<NodeSystem>> ELSE <<[policy.system[1] EXCEPT !.outbound = TRUE]>>]

----------------------------------------------------------------------------

inboundOf(tag) == [tag |-> tag, node |-> FALSE, exclude |-> tag \in ExcludedTags]
nodeInbound == [tag |-> ApiInbound, node |-> TRUE, exclude |-> FALSE]

\* NewConfig: the panel's configuration, excluded inbounds marked.
NewConfig(tags, services, obs, burst, rules, outs, policy) ==
    [inbounds |-> [k \in DOMAIN tags |-> inboundOf(tags[k])], services |-> services,
     observatory |-> obs, burst |-> burst, rules |-> rules, outbounds |-> outs, policy |-> policy]

ApiInit ==
    /\ \E tags \in Inbounds, services \in Services, obs \in Observatories, burst \in Observatories,
          rules \in Rules, outs \in Outbounds, policy \in Policies :
         cfg = NewConfig(tags, services, obs, burst, rules, outs, policy)
    /\ given = cfg /\ once = cfg
    /\ at = "remove" /\ iter = 1 /\ live = Len(cfg.inbounds) /\ round = 1

\* Mutant: the last inbound takes the place of the one removed.
RemoveSwapped ==
    /\ at = "remove" /\ iter <= Len(cfg.inbounds)
    /\ IF cfg.inbounds[iter].tag # ApiInbound
         THEN UNCHANGED <<cfg, live>>
         ELSE cfg' = [cfg EXCEPT !.inbounds[iter] = cfg.inbounds[live]] /\ live' = live - 1
    /\ iter' = iter + 1
    /\ UNCHANGED <<given, once, at, round>>

\* One iteration of the loop.  The range has the array and the length of the
\* start; c.InboundConfigs shrinks, and the removal shifts the array below it.
RemoveInbound ==
    /\ at = "remove" /\ iter <= Len(cfg.inbounds)
    /\ IF cfg.inbounds[iter].tag # ApiInbound
         THEN iter' = iter + 1 /\ UNCHANGED <<cfg, live, at>>
         ELSE IF iter > live
         THEN at' = "panic" /\ UNCHANGED <<cfg, live, iter>>   \* slice bounds out of range
         ELSE /\ cfg' = [cfg EXCEPT !.inbounds =
                          [k \in DOMAIN @ |-> IF k \in iter..(live - 1) THEN @[k + 1] ELSE @[k]]]
              /\ live' = live - 1 /\ iter' = iter + 1 /\ UNCHANGED at
    /\ UNCHANGED <<given, once, round>>

RemoveDone ==
    /\ at = "remove" /\ iter > Len(cfg.inbounds)
    /\ cfg' = [cfg EXCEPT !.inbounds = SubSeq(@, 1, live)]
    /\ at' = "services"
    /\ UNCHANGED <<given, once, iter, live, round>>

\* Mutant: a burst observatory is taken for none.
InjectBesideBurst(services, c) == "ObservatoryService" \in Range(services) /\ c.observatory = Nil

NeedsObservatory(services, c) ==
    /\ "ObservatoryService" \in Range(services)
    /\ c.observatory = Nil /\ c.burst = Nil

SetServices ==
    /\ at = "services"
    /\ LET services == sanitizeAPIServices(cfg.services)
           obs == IF NeedsObservatory(services, cfg) THEN <<defaultObservatory(cfg.outbounds)>>
                                                     ELSE cfg.observatory
       IN  cfg' = [cfg EXCEPT
                     !.services = [k \in DOMAIN services |-> [name |-> services[k], plain |-> TRUE]],
                     !.observatory = sanitizeObservatorySelectors(obs, cfg.outbounds),
                     !.burst = sanitizeObservatorySelectors(@, cfg.outbounds)]
    /\ at' = "rules"
    /\ UNCHANGED <<given, once, iter, live, round>>

\* A rule that is not valid JSON ends the call with an error, a null level 0 with
\* a panic after the rules are set.
SetRules ==
    /\ at = "rules"
    /\ IF \E k \in DOMAIN cfg.rules : ~cfg.rules[k].valid
         THEN at' = "error" /\ UNCHANGED cfg
         ELSE IF NullLevel(cfg.policy)
         THEN at' = "nil" /\ cfg' = [cfg EXCEPT !.rules = filterRules(normalizeGeoIPPrivateRules(@))]
         ELSE /\ cfg' = [cfg EXCEPT !.rules = filterRules(normalizeGeoIPPrivateRules(@)),
                                    !.policy = checkPolicy(@)]
              /\ at' = "prepend"
    /\ UNCHANGED <<given, once, iter, live, round>>

Prepend ==
    /\ at = "prepend"
    /\ LET block == blackholeOutboundTag(cfg.outbounds)
           guard == IF block = "" THEN <<>> ELSE <<malformedDomainGuardRule(block)>>
       IN  cfg' = [cfg EXCEPT !.inbounds = <<nodeInbound>> \o @, !.rules = <<apiRule>> \o guard \o @]
    /\ at' = "done"
    /\ once' = IF round = 1 THEN cfg' ELSE once
    /\ UNCHANGED <<given, iter, live, round>>

\* The configuration comes back from the panel as the node has made it.
Reapply ==
    /\ at = "done" /\ round = 1
    /\ at' = "remove" /\ iter' = 1 /\ live' = Len(cfg.inbounds) /\ round' = 2
    /\ cfg' = [cfg EXCEPT !.inbounds = [k \in DOMAIN @ |-> inboundOf(@[k].tag)]]
    /\ UNCHANGED <<given, once>>

ApiNext == RemoveInbound \/ RemoveDone \/ SetServices \/ SetRules \/ Prepend \/ Reapply

ApiSpec == ApiInit /\ [][ApiNext]_apiVars

----------------------------------------------------------------------------

\* ApplyAPI is in one of its steps or outcomes, its loop is within the slice it
\* started with, and past it only services that Xray knows are configured.
ApiTypeOK ==
    /\ at \in {"remove", "services", "rules", "prepend", "done", "error", "nil", "panic"}
    /\ round \in {1, 2}
    /\ at = "remove" => iter \in 1..(Len(cfg.inbounds) + 1) /\ live \in 0..Len(cfg.inbounds)
    /\ at \in {"rules", "prepend", "done"} =>
          \A k \in DOMAIN cfg.services : cfg.services[k].name \in Range(SortedServices)

OldApiInbounds == {k \in DOMAIN given.inbounds : given.inbounds[k].tag = ApiInbound}
UserInbounds == Keep(given.inbounds, {inb \in Range(given.inbounds) : inb.tag # ApiInbound})
UserRules(rules) == Keep(rules, {r \in Range(rules) : r.outbound # "API" /\ ~r.guard})
Selectors(obs) == UNION {Range(obs[k]) : k \in DOMAIN obs}

\* With at most one API_INBOUND in the panel's configuration - Xray wants tags
\* to be unique - the loop that shrinks the slice it ranges over takes out that
\* one only, wherever it is, keeps the others in order and stays in bounds.
InboundsKept ==
    Cardinality(OldApiInbounds) <= 1 =>
        /\ at # "panic"
        /\ at = "done" => cfg.inbounds = <<nodeInbound>> \o UserInbounds

\* What the panel asked for is still there: its inbounds, its rules in their
\* order behind the node's, its services, the level settings that are not the
\* node's to set, and every observed tag that Xray can observe.
UserPartsKept ==
    /\ InboundsKept
    /\ at = "done" =>
        /\ LET mine == UserRules(cfg.rules)
               theirs == UserRules(given.rules)
           IN  /\ Len(mine) = Len(theirs)
               /\ \A k \in DOMAIN mine : /\ mine[k].outbound = theirs[k].outbound
                                         /\ Range(theirs[k].ip) \ {"geoip:private"} \subseteq Range(mine[k].ip)
        /\ \A k \in DOMAIN given.services :
              \/ given.services[k].name \notin Range(SortedServices)
              \/ \E j \in DOMAIN cfg.services : cfg.services[j].name = given.services[k].name
        /\ given.policy.zero # Nil => cfg.policy.zero[1].online = given.policy.zero[1].online
        /\ given.policy.system # Nil => cfg.policy.system[1].inbound = given.policy.system[1].inbound
        /\ \A t \in Selectors(given.observatory) :
              t \notin Selectors(cfg.observatory) => \E k \in DOMAIN given.outbounds :
                  given.outbounds[k].tag = t /\ given.outbounds[k].protocol \in observatoryExcludedProtocols

\* What the core and the node's API client need in order to start and to talk:
\* the API rule before every other rule, so that no rule of the user catches
\* its traffic; the node's services, none of them twice; an observatory where
\* one is depended on and only there; no geoip file needed for private addresses.
CoreCanStart ==
    at = "done" =>
        /\ cfg.rules[1] = apiRule
        /\ \A k \in 2..Len(cfg.rules) : cfg.rules[k].outbound # "API"
        /\ Range(requiredAPIServices) \subseteq {cfg.services[k].name : k \in DOMAIN cfg.services}
        /\ \A k, j \in DOMAIN cfg.services : cfg.services[k].name = cfg.services[j].name => k = j
        /\ (\E k \in DOMAIN cfg.services : cfg.services[k].name = "ObservatoryService") =>
              (cfg.observatory # Nil \/ cfg.burst # Nil)
        /\ cfg.observatory # Nil /\ given.observatory = Nil => cfg.burst = Nil
        /\ \A k \in DOMAIN cfg.rules : "geoip:private" \notin Range(cfg.rules[k].ip) \cup Range(cfg.rules[k].source)
        /\ cfg.policy.zero[1].uplink /\ cfg.policy.zero[1].downlink /\ cfg.policy.system[1].outbound

\* A configuration that has been through ApplyAPI once is left as it is by the
\* second time: nothing of the node's own piles up.
ApplyIsIdempotent ==
    at = "done" /\ round = 2 /\ Cardinality(OldApiInbounds) <= 1 => cfg = once

============================================================================
