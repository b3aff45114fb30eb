CONSTANTS
  u1 = u1
  u2 = u2
  k1 = k1
  k2 = k2
  a = a
  b = b
  c1 = c1
  c2 = c2
  NoPeer = NoPeer
  NoKey = NoKey
  NoIP = NoIP
  NoEntry = NoEntry
  Nobody = Nobody
  MaxPeers = 2
  MaxTraffic = 0
  MaxKernelErrors = 1
  UniqueIPs = TRUE
  Dir = {"rx"}
  Email <- MCEmail
  Key <- MCKey
  IP <- MCIP
  AllowedIPs <- MCAllowedIPs
  Caller <- MCCaller
  KeyStr <- MCKeyStr
  ParseKey <- MCParseKey
  KeyString <- MCKeyString
  PeerIP <- MCPeerIP
  ParseCIDR <- MCParseCIDR
  InterfaceIP <- MCInterfaceIP
  Requests <- MCRequests
SPECIFICATION SyncSpec
INVARIANTS WGTypeOK OneToOne StoreMatchesKernel SyncReachesGoal
PROPERTIES UpsertIsLocal ImplementsDirectory StoppedDeviceFrozen SyncMuIsReleased
