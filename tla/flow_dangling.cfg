SPECIFICATION Spec
CONSTANTS
  BitRateFormat <- MCBitRateFormat
  UuidFormat <- MCUuidFormat
  ChargingFormat <- MCChargingFormat
  PlmnIdFormat <- MCPlmnIdFormat
  SdFormat <- MCSdFormat
  Lower <- MCLower
  Rank <- MCRank
  Ipv4Format <- MCIpv4Format
  Ipv6Format <- MCIpv6Format
  Ipv6PrefixFormat <- MCIpv6PrefixFormat
  TacFormat <- MCTacFormat
  Clients = {c1}
  Intents <- SerializedIntents
  InitialDb <- MCInitialDb
  Serialized = TRUE
INVARIANTS
  NssaisPointToDnnLists

