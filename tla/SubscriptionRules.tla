--------------------------- MODULE SubscriptionRules --------------------------
(***************************************************************************)
(* The rules of entities/ValidationData.cpp about subscriptions, the       *)
(* udmStaticData of a subscriber. A udmStaticData is a record              *)
(*                                                                         *)
(*   udmSliceProfileId                 the profile it refers to            *)
(*   udmSliceData                      {} or {plmnIdSets}                  *)
(*   serviceAreaRestriction            [areas, restrictionType,            *)
(*                                      hasMaxNumOfTas]                    *)
(*   forbiddenAreas                    a sequence                          *)
(*   subscribedUeAmbr                  {} or {[uplink, downlink]}          *)
(*   ratRestrictions, coreNetworkTypeRestrictions   sequences              *)
(*   dlPacketCount, ueUsageType        {} or {number}                      *)
(*   roamingOdb                        a string, "" when absent            *)
(*   staticIpAddress                   {} or {[nssaiDnnIpLists]}, a        *)
(*                                     sequence of [snssai, dnnIpList]     *)
(*                                                                         *)
(* and a provJournal is [imsi], with "" for an empty one.                  *)
(***************************************************************************)
EXTENDS SliceProfileRules

CONSTANTS
  Ipv4Format,         \* IPV4_REGEXP
  Ipv6Format,         \* IPV6_REGEXP_1 and IPV6_REGEXP_2
  Ipv6PrefixFormat    \* IPV6_PREFIX_REGEXP_1 and IPV6_PREFIX_REGEXP_2

RestrictionTypes == {"NOT_ALLOWED_AREAS", "ALLOWED_AREAS"}
RatTypes == {"NR", "EUTRA", "WLAN", "VIRTUAL"}
CoreNetworkTypes == {"5GC", "EPC"}
RoamingOdbs == {"OUTSIDE_HOME_PLMN", "OUTSIDE_HOME_PLMN_COUNTRY"}

AreaErrors(u) ==
  LET r == u.serviceAreaRestriction
  IN   Raise(Len(r.areas) > 1, "serviceAreas")
  \cup Raise(Len(u.forbiddenAreas) > 1, "forbiddenAreas")
  \cup Raise(r.restrictionType # "" /\ r.areas = <<>>, "restrictionWithoutAreas")
  \cup Raise(r.hasMaxNumOfTas /\ r.restrictionType = "NOT_ALLOWED_AREAS",
             "maxNumOfTas")
  \cup Raise(Unknown(r.restrictionType, RestrictionTypes), "restrictionType")

ScalarErrors(u) ==
       Raise(\E r \in u.subscribedUeAmbr : r.uplink \notin BitRateFormat, "uplink")
  \cup Raise(\E r \in u.subscribedUeAmbr : r.downlink \notin BitRateFormat, "downlink")
  \cup Raise(~(Range(u.ratRestrictions) \subseteq RatTypes), "ratRestrictions")
  \cup Raise(~(Range(u.coreNetworkTypeRestrictions) \subseteq CoreNetworkTypes),
             "coreNetworkTypeRestrictions")
  \cup Raise(\E n \in u.dlPacketCount : n < -1, "dlPacketCount")
  \cup Raise(Unknown(u.roamingOdb, RoamingOdbs), "roamingOdb")
  \cup Raise(\E n \in u.ueUsageType : n \notin 0..255, "ueUsageType")

\* An address of the static list: [ipType, ip].
IpAddressFormat(a) ==
  CASE a.ipType = "IPv4" -> a.ip \in Ipv4Format
    [] a.ipType = "IPv6" -> a.ip \in Ipv6Format
    [] a.ipType = "IPv6Prefix" -> a.ip \in Ipv6PrefixFormat

\* A dnnIpList is a sequence of [dnn, ipAddress], the latter a sequence.
StaticIpAddressErrors(e) ==
       Raise(e.snssai.sst \notin 0..255, "staticIpSst")
  \cup Raise(Unknown(e.snssai.sd, SdFormat), "staticIpSd")
  \cup Raise(\E l \in Range(e.dnnIpList) : Len(l.ipAddress) \notin 1..2, "ipAddressSize")
  \cup Raise(\E l \in Range(e.dnnIpList) : \E a \in Range(l.ipAddress) : ~IpAddressFormat(a),
             "ipAddress")

\* A: the dnnListIds the nssais of udmSliceData point to, for each identifier.
ReferencedPairs(plmnIdSets) ==
  UNION {{s.plmnIdSetIdentifier} \X ReferencedIds(s) : s \in Range(plmnIdSets)}

\* Seeded fault: an identifier neither B nor C has is skipped.
UdmSliceDataErrorsOfKnown(plmnIdSets, sliceProfile) ==
  LET defined == DnnListIdPairs(plmnIdSets) \cup DnnListIdPairs(sliceProfile.plmnIdSets)
  IN   CommonUnlessEmpty(plmnIdSets, FALSE)
  \cup checkForRepeatedDnnsandNssais(plmnIdSets)
  \cup Raise(\E pair \in ReferencedPairs(plmnIdSets) :
               (\E d \in defined : d[1] = pair[1]) /\ pair \notin defined,
             "dnnListIdNotFound")

\* The rules of udmSliceData; A has to be in B (its own dnnLists) or in C (the
\* dnnLists of the slice profile the subscription refers to).
UdmSliceDataErrors(plmnIdSets, sliceProfile) ==
       CommonUnlessEmpty(plmnIdSets, FALSE)
  \cup checkForRepeatedDnnsandNssais(plmnIdSets)
  \cup Raise(~(ReferencedPairs(plmnIdSets) \subseteq
                 DnnListIdPairs(plmnIdSets) \cup DnnListIdPairs(sliceProfile.plmnIdSets)),
             "dnnListIdNotFound")

checkForCommonUdmSubscriptionRules(u, sliceProfile) ==
       AreaErrors(u)
  \cup ScalarErrors(u)
  \cup (UNION {StaticIpAddressErrors(e) :
                 e \in UNION {Range(s.nssaiDnnIpLists) : s \in u.staticIpAddress}})
  \cup UNION {UdmSliceDataErrors(sets, sliceProfile) : sets \in u.udmSliceData}

-------------------------------------------------------------------------------
(* What is answered for a subscription. The related resources come as sets of  *)
(* at most one: the provJournal of the subscriber, the resource at the path of *)
(* the change, and the slice profile with the id the subscription refers to.   *)

CheckedAgainst(u, sliceProfile, errors) ==
  IF sliceProfile = {} THEN Unprocessable(errors \cup {"noRelatedUdmSliceProfile"})
  ELSE Conflict(errors \cup
         UNION {checkForCommonUdmSubscriptionRules(u, p) : p \in sliceProfile})

checkForCreationUdmSubscriptionRules(u, journal, sliceProfile) ==
  IF journal = {} THEN Unprocessable({"noProvJournal"})
  ELSE CheckedAgainst(u, sliceProfile, Raise(\E j \in journal : j.imsi = "", "noImsi"))

checkForUpdateUdmSubscriptionRules(u, related, sliceProfile) ==
  IF related = {} THEN Unprocessable({"noRelatedResource"})
  ELSE CheckedAgainst(u, sliceProfile, {})

===============================================================================
