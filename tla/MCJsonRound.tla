------------------------------ MODULE MCJsonRound ------------------------------
(***************************************************************************)
(* The bodies that are sent: for each kind of resource one with every      *)
(* attribute and vendor specific members on every level, ones with the     *)
(* mandatory members only, with lists and strings that are empty, with     *)
(* each member of another type, and with numbers at and next to the ends   *)
(* of their ranges.                                                        *)
(***************************************************************************)
EXTENDS JsonLeaves, MCValidationData

MCVendorSpecificFormat == {"vendorSpecific-1"}
MCForeignNames == {"unknown"}

Json(members) == [object |-> members]
None == [name \in {} |-> name]
String(x) == [string |-> x]
Num(i) == [int |-> i]
Bool(b) == [bool |-> b]
Array(list) == [array |-> list]
AllOf(names, value) == [name \in names |-> value]

\* Members a JSON object may have whatever it is.
Extra == "vendorSpecific-1" :> Json("deep" :> Array(<<Bool(TRUE), Num(7)>>))

Change3(operation, path, data) ==
  <<<<"operation", String(operation)>>, <<"resource_path", String(path)>>, <<"data", data>>>>

DataFirst(operation, path, data) ==
  <<<<"data", data>>, <<"operation", String(operation)>>, <<"resource_path", String(path)>>>>

Deletion(path) == <<<<"operation", String("DELETE")>>, <<"resource_path", String(path)>>>>

P1 == Path("udmSliceProfile", "p1")
M1 == Path("udmStaticData", "m1")
S1 == Path("smsStaticData", "m1")
R1 == Path("udmRoamingArea", "r1")

MCInitialDb == Path("provJournal", "m1") :> Json("imsi" :> String("imsi"))

-------------------------------------------------------------------------------
(* Slice profiles                                                              *)

JsonSnssai(sst) == Json("sst" :> Num(sst))

JsonNssai(sst) == Json("nssai" :> JsonSnssai(sst))

FullNssai ==
  Json(Extra @@ ("dnnListId" :> String("Default")) @@ (CHARGING :> String("0A0B"))
         @@ ("nssai" :> Json(Extra @@ ("sst" :> Num(255)) @@ ("sd" :> String("AAAAAA")))))

JsonQos(fiveqi, level, arpLevel) ==
  Json("5qi" :> Num(fiveqi) @@ "priorityLevel" :> Num(level)
         @@ "arp" :> Json("priorityLevel" :> Num(arpLevel)
                            @@ "preemptCap" :> String("NOT_PREEMPT")
                            @@ "preemptVuln" :> String("PREEMPTABLE")))

FullDnn ==
  Json(Extra @@ AllOf(DnnFlags, Bool(TRUE)) @@ "dnn" :> String("net")
    @@ CHARGING :> String("0A0B")
    @@ "pduSessionTypes" :> Json(Extra @@ "defaultSessionType" :> String("IPV4")
         @@ "allowedSessionTypes" :> Array(<<String("IPV6"), String("ETHERNET")>>))
    @@ "sscModes" :> Json(Extra @@ "defaultSscMode" :> String("SSC_MODE_1")
         @@ "allowedSscModes" :> Array(<<String("SSC_MODE_3"), String("SSC_MODE_2")>>))
    @@ "upSecurity" :> Json("upIntegr" :> String("REQUIRED") @@ "upConfid" :> String("PREFERRED"))
    @@ "sessionAmbr" :> Json("uplink" :> String("1 Mbps") @@ "downlink" :> String(""))
    @@ "5gQosProfile" :> JsonQos(0, 127, 15)
    @@ "smfList" :> Array(<<String("uuid")>>))

PlainDnn(extra) == Json(extra @@ "dnn" :> String("net") @@ "defaultDnnIndicator" :> Bool(TRUE))

JsonDnnList(dnns) ==
  Json(Extra @@ "dnnListId" :> String("Default") @@ "dnnDataList" :> Array(dnns))

JsonSet(members) == Json(members @@ "plmnIdSetIdentifier" :> String("Default"))

DefaultNssais(nssais) == "nssai" :> Json("defaultSingleNssais" :> Array(nssais))

JsonProfile(sets) == Json("udmSliceProfileId" :> String("p1") @@ "plmnIdSets" :> Array(sets))

OneDnn(extra) ==
  JsonProfile(<<JsonSet("dnnLists" :> Array(<<JsonDnnList(<<PlainDnn(extra)>>)>>))>>)

OneNssai(nssai) ==
  JsonProfile(<<JsonSet(DefaultNssais(<<nssai>>) @@ "dnnLists" :> Array(<<>>))>>)

FullProfile ==
  Json(Extra @@ "unknown" :> Num(1) @@ "udmSliceProfileId" :> String("p1")
    @@ "plmnIdSets" :> Array(<<
         JsonSet(Extra
           @@ "nssai" :> Json(Extra @@ "defaultSingleNssais" :> Array(<<FullNssai, JsonNssai(0)>>)
                                @@ "singleNssais" :> Array(<<JsonNssai(1)>>))
           @@ "dnnLists" :> Array(<<JsonDnnList(<<FullDnn>>)>>))>>))

\* Read as a profile that answers 200 and is stored, or refused.
ProfilesToStore ==
  {FullProfile, OneNssai(JsonNssai(1)), OneDnn("5gQosProfile" :> JsonQos(255, 1, 1))}

ProfilesToProbe ==
  {OneNssai(JsonNssai(sst)) : sst \in {-1, 256}}
  \cup {OneDnn("5gQosProfile" :> JsonQos(q[1], q[2], q[3])) :
          q \in {<<256, 1, 1>>, <<-1, 1, 1>>, <<1, 0, 1>>, <<1, 128, 1>>,
                 <<1, 1, 0>>, <<1, 1, 16>>}}

ProfilesWithFaults ==
  {Json("udmSliceProfileId" :> Num(1)), OneNssai(Json(None)), OneNssai(Num(1)),
   JsonProfile(<<JsonSet(None)>>), JsonProfile(<<Json("dnnLists" :> Array(<<>>))>>),
   OneNssai(Json("nssai" :> Json("sd" :> Num(1))))}
  \cup {OneDnn(name :> Num(1)) : name \in DnnObjects \cup {"smfList"}}
  \cup {OneDnn("5gQosProfile" :> Json("5qi" :> Num(1) @@ "arp" :> Json("preemptCap" :> Num(1))))}

ProfileWithoutArray == Json("udmSliceProfileId" :> String("p1") @@ "plmnIdSets" :> Num(1))

-------------------------------------------------------------------------------
(* Subscriptions                                                               *)

JsonSubscription(members) ==
  Json(members @@ "udmSliceProfileId" :> Json("id" :> String("p1")))

Area == Json(Extra @@ "id" :> String("r1"))

Address(name, ip) == Json(Extra @@ name :> String(ip))

JsonDnnIps(members, addresses) == Json(members @@ "ipAddress" :> Array(addresses))

\* The second dnnIpList has no dnn of its own.
StaticIp(nssai) ==
  "staticIpAddress" :> Json(Extra @@ "nssaiDnnIpLists" :> Array(<<Json(nssai @@ Extra
    @@ "dnnIpList" :> Array(<<
         JsonDnnIps("dnn" :> String("net"), <<Address("ipv4Addr", "10.0.0.1"),
                                              Address("ipv6Addr", "2001::1")>>),
         JsonDnnIps(Extra, <<Address("ipv6Prefix", "2001::/64")>>)>>))>>))

FullSubscription ==
  JsonSubscription(Extra @@ AllOf(UdmStaticDataFlags, Bool(FALSE)) @@ AllOf(UdmStaticDataNumbers, Num(3))
    @@ "subscribedUeAmbr" :> Json(Extra @@ "uplink" :> String("1 Mbps") @@ "downlink" :> String("1 Mbps"))
    @@ "ratRestrictions" :> Array(<<String("NR"), String("EUTRA")>>)
    @@ "coreNetworkTypeRestrictions" :> Array(<<String("5GC")>>)
    @@ "forbiddenAreas" :> Array(<<Area>>)
    @@ "serviceAreaRestriction" :> Json(Extra @@ "restrictionType" :> String("ALLOWED_AREAS")
         @@ "areas" :> Array(<<Area>>) @@ "maxNumOfTAs" :> Num(2))
    @@ "dlPacketCount" :> Num(-1) @@ "ueUsageType" :> Num(0)
    @@ "roamingOdb" :> String("OUTSIDE_HOME_PLMN")
    @@ StaticIp("nssai" :> Json(Extra @@ "sst" :> Num(0) @@ "sd" :> String("aaaaaa")))
    @@ "udmSliceData" :> Json(Extra @@ "plmnIdSets" :> Array(<<
         JsonSet(DefaultNssais(<<FullNssai>>))>>)))

SubscriptionsToStore ==
  {FullSubscription, JsonSubscription(StaticIp(None)),
   JsonSubscription("udmSliceData" :> Json(None)
                    @@ "staticIpAddress" :> Json("nssaiDnnIpLists" :> Array(<<>>)))}

SubscriptionsToProbe ==
  {JsonSubscription("dlPacketCount" :> Num(-2))}
  \cup {JsonSubscription("ueUsageType" :> Num(i)) : i \in {-1, 256}}

SubscriptionsWithFaults ==
  {Json(None), Json("udmSliceProfileId" :> Json("id" :> String(""))),
   JsonSubscription("subscribedUeAmbr" :> Json("uplink" :> String("") @@ "downlink" :> String("1 Mbps"))),
   JsonSubscription("staticIpAddress" :> Json(None)),
   JsonSubscription(StaticIp("nssai" :> Json(None))),
   JsonSubscription("udmSliceData" :> Json("plmnIdSets" :> Num(1)))}
  \cup {JsonSubscription(name :> Num(1)) :
          name \in {"mpsPriority", "roamingOdb", "forbiddenAreas", "ratRestrictions",
                    "serviceAreaRestriction"}}

-------------------------------------------------------------------------------
(* Roaming areas and SMS subscriptions                                         *)

RoamingArea(areas) == Json("udmRoamingAreaId" :> String("r1") @@ "areaList" :> Array(areas) @@ Extra)

AreasToStore ==
  {RoamingArea(<<Json(Extra @@ "tacs" :> Array(<<String("00AA"), String("00AA")>>)),
                 Json("areaCodes" :> String("code"))>>),
   RoamingArea(<<Json("areaCodes" :> String(""))>>)}

AreasWithFaults ==
  {RoamingArea(<<a>>) : a \in {Num(1), Json(None), Json("tacs" :> Num(1)),
                               Json("tacs" :> Array(<<Num(1)>>)), Json("areaCodes" :> Num(1))}}
  \cup {Json("udmRoamingAreaId" :> Num(1)), Json("areaList" :> Num(1))}

Sms(subscribed, management) ==
  Json(Extra @@ "smsSubscriptionData" :> Json(Extra @@ "smsSubscribed" :> Bool(subscribed))
         @@ "smsManagementSubscriptionData" :> Json(management))

SmsToStore ==
  {Sms(TRUE, "mtSmsSubscribed" :> Bool(TRUE) @@ "mtSmsBarringAll" :> Bool(FALSE)
             @@ "moSmsSubscribed" :> Bool(FALSE) @@ Extra),
   Sms(FALSE, None)}

SmsWithFaults ==
  {Sms(FALSE, "moSmsBarringAll" :> Num(1)), Json("smsSubscriptionData" :> Num(1))}

-------------------------------------------------------------------------------
(* The messages                                                                *)

Writes(path, resources) ==
  {<<Change3(op, path, r)>> : op \in {"CREATE", "UPDATE"}, r \in resources}

Creates(path, resources) == {<<Change3("CREATE", path, r)>> : r \in resources}

\* Bodies nobody can read, changes without data or with the data first, and a
\* profile with a fault the parser reports to nobody.
OddMessages ==
  {<<<<<<"operation", String("CREATE")>>, <<"resource_path", String(S1)>>>>>>,
   <<<<<<"operation", String("UPSERT")>>, <<"resource_path", String(S1)>>>>>>,
   <<<<<<"operation", String("CREATE")>>, <<"resource_path", Num(1)>>>>>>,
   <<Change3("CREATE", S1, String("sms"))>>,
   <<DataFirst("CREATE", P1, OneNssai(JsonNssai(256)))>>,
   <<Change3("CREATE", P1, ProfileWithoutArray)>>,
   <<Change3("CREATE", Path("other", "x"), Json(None))>>}

MCMessages ==
  Writes(P1, ProfilesToStore) \cup Writes(M1, SubscriptionsToStore)
  \cup Writes(R1, AreasToStore) \cup Writes(S1, SmsToStore)
  \cup Creates(P1, ProfilesToProbe \cup ProfilesWithFaults)
  \cup Creates(M1, SubscriptionsToProbe \cup SubscriptionsWithFaults)
  \cup Creates(R1, AreasWithFaults) \cup Creates(S1, SmsWithFaults)
  \cup OddMessages
  \cup {<<Deletion(path)>> : path \in {P1, M1, S1, R1}}
  \cup {<<Change3("UPDATE", P1, FullProfile), Deletion(M1)>>}

RECURSIVE PartsOf(_)
PartsOf(value) ==
  {value} \cup
  CASE Is(value, "object") -> UNION {PartsOf(value.object[n]) : n \in DOMAIN value.object}
    [] Is(value, "array") -> UNION {PartsOf(value.array[i]) : i \in DOMAIN value.array}
    [] OTHER -> {}

MCValues ==
  UNION {PartsOf(d) : d \in UNION {Given(members, "data") :
                              members \in UNION {Range(message) : message \in MCMessages}}}

MCUninitialized == {7, 300}

ASSUME RefinementAssumption == MessagesArePlain /\ DbIsReadAlike(InitialDb) /\ SuitsFlow

ASSUME RangeAssumption == DbInRange(InitialDb)

ASSUME FinalAssumption == DbIsFinal(InitialDb)

===============================================================================
