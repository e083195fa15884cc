SPECIFICATION Spec
CONSTANTS
  Values <- MCValues
  Messages <- MCMessages
  InitialDb <- MCInitialDb
  Uninitialized <- MCUninitialized
  ForeignNames <- MCForeignNames
  VendorSpecificFormat <- MCVendorSpecificFormat
  MaxResources = 3
  BitRateFormat <- MCBitRateFormat
  UuidFormat <- MCUuidFormat
  ChargingFormat <- MCChargingFormat
  PlmnIdFormat <- MCPlmnIdFormat
  SdFormat <- MCSdFormat
  Lower <- MCLower
  Rank <- MCRank
  Ipv4Format <- MCIpv4Format
  Ipv6Format <- MCIpv6Format
  Ipv6PrefixFormat <- MCIpv6PrefixFormat
  TacFormat <- MCTacFormat
INVARIANTS
  TypeOK
  StoredReadsBack
  StoredIsFinal
  AnswerKeepsTheData
  NumbersDecide
PROPERTY FlowSpec
