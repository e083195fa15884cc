SPECIFICATION FairSpec
CONSTANTS
  BitRateFormat <- MCBitRateFormat
  UuidFormat <- MCUuidFormat
  ChargingFormat <- MCChargingFormat
  PlmnIdFormat <- MCPlmnIdFormat
  SdFormat <- MCSdFormat
  Lower <- MCLower
  Rank <- MCRank
  Ipv4Format <- MCIpv4Format
  Ipv6Format <- MCIpv6Format
  Ipv6PrefixFormat <- MCIpv6PrefixFormat
  TacFormat <- MCTacFormat
  Streams = {s1, s2}
  Requests <- MCRequests
INVARIANTS
  TypeOK
  RegistryBeforeUse
  LoopInvariant
  AnswerInvariant
  AcceptedTogether
  NothingAcceptedOnFailure
  UnprocessableFirst
  OrderDoesNotDecide
PROPERTIES
  HandlersComeCloser
  Answered
  ServiceSpec
CHECK_DEADLOCK FALSE
