CONSTANTS
  u1 = u1
  u2 = u2
  k1 = k1
  a = a
  c1 = c1
  NoPeer = NoPeer
  NoKey = NoKey
  NoIP = NoIP
  NoEntry = NoEntry
  Nobody = Nobody
  MaxPeers = 1
  MaxTraffic = 2
  MaxKernelErrors = 0
  UniqueIPs = TRUE
  Dir = {"rx"}
  Email <- MCEmail
  Key <- MCKey
  IP <- MCIP
  AllowedIPs <- MCAllowedIPs
  Caller <- MCCaller
  KeyStr <- MCKeyStr
  ParseKey <- MCParseKey
  KeyString <- MCKeyString
  PeerIP <- MCPeerIP
  ParseCIDR <- MCParseCIDR
  InterfaceIP <- MCIP
  Requests <- MCRequests
SPECIFICATION Spec
PROPERTIES SampledNeverLost
