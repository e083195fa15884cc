--------------------------- MODULE SubscriptionJson ---------------------------
(***************************************************************************)
(* How ValidatorRapidJsonParser reads a subscription, the udmStaticData of *)
(* a subscriber, and how ValidatorRapidJsonEncoder writes it.              *)
(*                                                                         *)
(* Some elements the parser takes for objects without asking: those of     *)
(* forbiddenAreas, plmnIdSets and ipAddress, staticIpAddress with its      *)
(* nssaiDnnIpLists and their elements, and udmSliceData. What happens with *)
(* anything else is an assertion of rapidjson, and is not modelled.        *)
(***************************************************************************)
EXTENDS SliceProfileJson

-------------------------------------------------------------------------------
(* References to roaming areas, in forbiddenAreas and serviceAreaRestriction   *)

AreaReferenceFaults(j) == Missing(j, {"id"}) \cup Mistyped(j, {"id"}, "string")

AreaReferencesFromJson(j, name) ==
  LET areas == Elements(j, name)
  IN  [i \in DOMAIN areas |-> [id |-> Text(areas[i], "id"), others |-> Carried(areas[i], {})]]

AreaReferenceToJson(a) == Object(a.others, [id |-> TextValue(a.id)])

AreaReferencesToJson(areas) == [i \in DOMAIN areas |-> AreaReferenceToJson(areas[i])]

ServiceAreaRestrictionFaults(j) ==
  Mistyped(j, {"restrictionType"}, "string") \cup Mistyped(j, {"maxNumOfTAs"}, "int")
  \cup ArrayFaults(j, {"areas"}, "object") \cup UNION {AreaReferenceFaults(a) : a \in Objects(j, "areas")}

\* The rules look at the restriction also where there is none.
ServiceAreaRestrictionFromJson(j) ==
  LET present     == HasMember(j, "serviceAreaRestriction")
      restriction == IF present THEN j.object["serviceAreaRestriction"] ELSE EmptyObject
  IN  [present |-> present,
       restrictionType |-> Text(restriction, "restrictionType"),
       areas |-> AreaReferencesFromJson(restriction, "areas"),
       hasMaxNumOfTas |-> HasMember(restriction, "maxNumOfTAs"),
       others |-> Carried(restriction, {"maxNumOfTAs"})]

ServiceAreaRestrictionToJson(r) ==
  Object(r.others, [restrictionType |-> TextValue(r.restrictionType),
                    areas |-> ListValue(AreaReferencesToJson(r.areas))])

-------------------------------------------------------------------------------
(* staticIpAddress                                                             *)

IpTypes == {"IPv4", "IPv6", "IPv6Prefix"}

IpMember(ipType) ==
  CASE ipType = "IPv4" -> "ipv4Addr" [] ipType = "IPv6" -> "ipv6Addr"
    [] ipType = "IPv6Prefix" -> "ipv6Prefix"

\* The first of the three kinds that is there; no other is looked at.
IpTypeOf(j) ==
  CASE HasMember(j, "ipv4Addr") -> "IPv4"
    [] ~HasMember(j, "ipv4Addr") /\ HasMember(j, "ipv6Addr") -> "IPv6"
    [] OTHER -> "IPv6Prefix"

HasAddress(j) == \E t \in IpTypes : HasMember(j, IpMember(t))

IpAddrFromJson(j) ==
  [ipType |-> IpTypeOf(j), ip |-> Text(j, IpMember(IpTypeOf(j))), others |-> Carried(j, {})]

IpAddrToJson(a) == Object(a.others, [n \in {IpMember(a.ipType)} |-> TextValue(a.ip)])

\* The dnn is kept from one element to the next: an element without one gets
\* the one before it.
DnnAt(list, i) ==
  LET given == {k \in 1..i : HasMember(list[k], "dnn")}
  IN  IF given = {} THEN "" ELSE Text(list[Max(given)], "dnn")

DnnIpsFaults(j) ==
  Mistyped(j, {"dnn"}, "string") \cup Mistyped(j, {"ipAddress"}, "array")
  \cup UNION {Mistyped(a, {IpMember(IpTypeOf(a))}, "string") : a \in Range(Elements(j, "ipAddress"))}

\* An element of ipAddress without an address is left out.
WithAddress(elements) ==
  IF \A a \in Range(elements) : HasAddress(a) THEN elements ELSE SelectSeq(elements, HasAddress)

DnnIpsFromJson(list, i) ==
  LET addresses == WithAddress(Elements(list[i], "ipAddress"))
  IN  [dnn |-> DnnAt(list, i),
       ipAddress |-> [k \in DOMAIN addresses |-> IpAddrFromJson(addresses[k])],
       others |-> Carried(list[i], {})]

DnnIpsToJson(d) ==
  Object(d.others,
    [dnn |-> TextValue(d.dnn),
     ipAddress |-> {[array |-> [k \in DOMAIN d.ipAddress |-> IpAddrToJson(d.ipAddress[k])]]}])

NssaiDnnIpsFaults(j) ==
  Mistyped(j, {"nssai"}, "object") \cup (UNION {SnssaiFaults(s) : s \in Member(j, "nssai", "object")})
  \cup ArrayFaults(j, {"dnnIpList"}, "object")
  \cup UNION {DnnIpsFaults(d) : d \in Objects(j, "dnnIpList")}

\* Nobody asks for the nssai: without one the sst is what the memory holds.
SstOf(j, uninitialized) ==
  IF HasMember(j, "nssai") THEN j.object["nssai"].object["sst"].int ELSE uninitialized

NssaiDnnIpsFromJson(j, uninitialized) ==
  LET list == Elements(j, "dnnIpList")
  IN  [snssai |-> [sst |-> SstOf(j, uninitialized),
                   sd |-> IF HasMember(j, "nssai") THEN Text(j.object["nssai"], "sd") ELSE "",
                   others |-> IF HasMember(j, "nssai") THEN Carried(j.object["nssai"], {})
                                                       ELSE NoMembers],
       dnnIpList |-> [i \in DOMAIN list |-> DnnIpsFromJson(list, i)],
       others |-> Carried(j, {})]

NssaiDnnIpsToJson(e) ==
  Object(e.others,
    [nssai |-> {SnssaiToJson(e.snssai.others, e.snssai.sst, e.snssai.sd)},
     dnnIpList |-> {[array |-> [i \in DOMAIN e.dnnIpList |-> DnnIpsToJson(e.dnnIpList[i])]]}])

\* A list that is absent is a null for rapidjson, and no array.
StaticIpAddressFaults(j) ==
  Missing(j, {"nssaiDnnIpLists"}) \cup Mistyped(j, {"nssaiDnnIpLists"}, "array")
  \cup UNION {NssaiDnnIpsFaults(e) : e \in Range(Elements(j, "nssaiDnnIpLists"))}

StaticIpAddressFromJson(j, uninitialized) ==
  LET lists == Elements(j, "nssaiDnnIpLists")
  IN  [nssaiDnnIpLists |-> [i \in DOMAIN lists |-> NssaiDnnIpsFromJson(lists[i], uninitialized)],
       others |-> Carried(j, {})]

StaticIpAddressToJson(s) ==
  Object(s.others, [nssaiDnnIpLists |->
    ListValue([i \in DOMAIN s.nssaiDnnIpLists |-> NssaiDnnIpsToJson(s.nssaiDnnIpLists[i])])])

\* A static IP address that is read as it was written: every address has a
\* text, and so has every dnn but for ones before the first that has.
IsWritten(text) == TextValue(text) = {[string |-> text]}

AddressesWritten(d) == \A k \in DOMAIN d.ipAddress : IsWritten(d.ipAddress[k].ip)

DnnsReadBack(list) ==
  \A i \in DOMAIN list :
    /\ i \in Nat \ {0} /\ 1..i \subseteq DOMAIN list
    /\ IsWritten(list[i].dnn) \/ \A k \in 1..i : TextValue(list[k].dnn) = {}
    /\ AddressesWritten(list[i])

StaticIpReadsBack(s) ==
  \A i \in DOMAIN s.nssaiDnnIpLists : DnnsReadBack(s.nssaiDnnIpLists[i].dnnIpList)

-------------------------------------------------------------------------------
(* udmStaticData                                                               *)

UdmStaticDataFlags == {"mpsPriority", "mcsPriority", "micoAllowed"}

UdmStaticDataNumbers == {"rfspIndex", "subsRegTimer"}

SubscribedUeAmbrFaults(j) == AmbrFaults(j) \cup Empty(j, {"uplink", "downlink"})

UdmSliceProfileIdFaults(j) ==
  Missing(j, {"id"}) \cup Mistyped(j, {"id"}, "string") \cup Empty(j, {"id"})

UdmSliceDataFaults(j) ==
  Mistyped(j, {"plmnIdSets"}, "array")
  \cup UNION {PlmnIdSetFaults(s, TRUE) : s \in Range(Elements(j, "plmnIdSets"))}

UdmStaticDataFaults(j) ==
  Missing(j, {"udmSliceProfileId"})
  \cup Mistyped(j, {"udmSliceProfileId", "subscribedUeAmbr", "serviceAreaRestriction"}, "object")
  \cup Mistyped(j, {"forbiddenAreas"}, "array")
  \cup ArrayFaults(j, {"ratRestrictions", "coreNetworkTypeRestrictions"}, "string")
  \cup Mistyped(j, UdmStaticDataFlags, "bool")
  \cup Mistyped(j, UdmStaticDataNumbers \cup {"dlPacketCount", "ueUsageType"}, "int")
  \cup Mistyped(j, {"roamingOdb"}, "string") \cup Empty(j, {"roamingOdb"})
  \cup (UNION {UdmSliceProfileIdFaults(i) : i \in Member(j, "udmSliceProfileId", "object")})
  \cup (UNION {SubscribedUeAmbrFaults(r) : r \in Member(j, "subscribedUeAmbr", "object")})
  \cup (UNION {AreaReferenceFaults(a) : a \in Range(Elements(j, "forbiddenAreas"))})
  \cup (UNION {ServiceAreaRestrictionFaults(r) : r \in Member(j, "serviceAreaRestriction", "object")})
  \cup (UNION {StaticIpAddressFaults(s) : s \in Member(j, "staticIpAddress", "object")})
  \cup UNION {UdmSliceDataFaults(s) : s \in Member(j, "udmSliceData", "object")}

\* The vendor specific members of udmSliceData are read too, but the encoder
\* never writes them: nothing of them is left in the entity.
getUdmStaticData(j, uninitialized) ==
  LET ids == Member(j, "udmSliceProfileId", "object")
  IN  [udmSliceProfileId |-> IF ids = {} THEN "" ELSE Text(j.object["udmSliceProfileId"], "id"),
       idOthers |-> IF ids = {} THEN NoMembers ELSE Carried(j.object["udmSliceProfileId"], {}),
       subscribedUeAmbr |-> {AmbrFromJson(r) : r \in Member(j, "subscribedUeAmbr", "object")},
       ratRestrictions |-> Texts(j, "ratRestrictions"),
       coreNetworkTypeRestrictions |-> Texts(j, "coreNetworkTypeRestrictions"),
       forbiddenAreas |-> AreaReferencesFromJson(j, "forbiddenAreas"),
       serviceAreaRestriction |-> ServiceAreaRestrictionFromJson(j),
       dlPacketCount |-> Optional(j, "dlPacketCount", "int"),
       ueUsageType |-> Optional(j, "ueUsageType", "int"),
       roamingOdb |-> Text(j, "roamingOdb"),
       staticIpAddress |-> {StaticIpAddressFromJson(s, uninitialized) :
                              s \in Member(j, "staticIpAddress", "object")},
       udmSliceData |-> {getPlmnIdSets(s) : s \in Member(j, "udmSliceData", "object")},
       others |-> Carried(j, UdmStaticDataFlags \cup UdmStaticDataNumbers)]

\* udmSliceProfileId is written whatever there is to write in it.
udmStaticDataToJson(u) ==
  Object(u.others,
    [udmSliceProfileId |-> {Object(u.idOthers, [id |-> TextValue(u.udmSliceProfileId)])},
     subscribedUeAmbr |-> {AmbrToJson(r) : r \in u.subscribedUeAmbr},
     ratRestrictions |-> ListValue(Strings(u.ratRestrictions)),
     coreNetworkTypeRestrictions |-> ListValue(Strings(u.coreNetworkTypeRestrictions)),
     forbiddenAreas |-> ListValue(AreaReferencesToJson(u.forbiddenAreas)),
     serviceAreaRestriction |-> {ServiceAreaRestrictionToJson(r) :
                                   r \in {r \in {u.serviceAreaRestriction} : r.present}},
     dlPacketCount |-> UNION {IntValue(n) : n \in u.dlPacketCount},
     ueUsageType |-> UNION {IntValue(n) : n \in u.ueUsageType},
     roamingOdb |-> TextValue(u.roamingOdb),
     staticIpAddress |-> {StaticIpAddressToJson(s) : s \in u.staticIpAddress},
     udmSliceData |-> {Object(NoMembers, [plmnIdSets |-> plmnIdsToJson(sets)]) :
                         sets \in u.udmSliceData}])

===============================================================================
