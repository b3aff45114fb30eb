SPECIFICATION ApiSpec
CONSTANTS
    Strings <- MCStrings
    Inbounds <- MCInbounds
    Services <- MCServices
    Observatories <- MCObservatories
    Rules <- MCRules
    Outbounds <- MCOutbounds
    Policies <- MCPolicies
    ExcludedTags = {"b"}
    TagOrder <- MCTagOrder
    LocalAddrs <- MCLocalAddrs
    PrivateCIDRs <- MCPrivateCIDRs
INVARIANTS UserPartsKept CoreCanStart ApplyIsIdempotent
CHECK_DEADLOCK FALSE
