--------------------------- MODULE SliceProfileJson ---------------------------
(***************************************************************************)
(* How ValidatorRapidJsonParser reads a udmSliceProfile, and the           *)
(* plmnIdSets it shares with the udmSliceData of a subscription, and how   *)
(* ValidatorRapidJsonEncoder writes them. An entity is the record the      *)
(* rules look at, with the members that are only carried along in "others".*)
(***************************************************************************)
EXTENDS ValidationData, JsonValues

-------------------------------------------------------------------------------
(* nssaiDetails, the elements of defaultSingleNssais and of singleNssais       *)

SnssaiFaults(j) ==
  Missing(j, {"sst"}) \cup Mistyped(j, {"sst"}, "int") \cup Mistyped(j, {"sd"}, "string")

NssaiDetailsFaults(j) ==
  Mistyped(j, {"dnnListId", CHARGING}, "string")
  \cup Missing(j, {"nssai"}) \cup Mistyped(j, {"nssai"}, "object")
  \cup UNION {SnssaiFaults(s) : s \in Member(j, "nssai", "object")}

NssaiDetailsFromJson(j) ==
  LET snssai == j.object["nssai"]
  IN  [sst |-> snssai.object["sst"].int, sd |-> Text(snssai, "sd"),
       dnnListId |-> Text(j, "dnnListId"), charging |-> Text(j, CHARGING),
       snssaiOthers |-> Carried(snssai, {}), others |-> Carried(j, {})]

SnssaiToJson(others, sst, sd) == Object(others, [sst |-> IntValue(sst), sd |-> TextValue(sd)])

NssaiDetailsToJson(n) ==
  Object(n.others, [dnnListId |-> TextValue(n.dnnListId),
                    3gppChargingCharacteristics |-> TextValue(n.charging),
                    nssai |-> {SnssaiToJson(n.snssaiOthers, n.sst, n.sd)}])

-------------------------------------------------------------------------------
(* The attributes of a dnnData                                                 *)

PduSessionTypesFaults(j) ==
  Mistyped(j, {"defaultSessionType"}, "string") \cup ArrayFaults(j, {"allowedSessionTypes"}, "string")

PduSessionTypesFromJson(j) ==
  [defaultSessionType |-> Text(j, "defaultSessionType"),
   allowedSessionTypes |-> {Texts(j, "allowedSessionTypes") :
                              list \in Member(j, "allowedSessionTypes", "array")},
   others |-> Carried(j, {})]

PduSessionTypesToJson(t) ==
  Object(t.others, [defaultSessionType |-> TextValue(t.defaultSessionType),
                    allowedSessionTypes |-> UNION {ListValue(Strings(list)) : list \in t.allowedSessionTypes}])

SscModesFaults(j) ==
  Mistyped(j, {"defaultSscMode"}, "string") \cup ArrayFaults(j, {"allowedSscModes"}, "string")

SscModesFromJson(j) ==
  [defaultSscMode |-> Text(j, "defaultSscMode"),
   allowedSscModes |-> Texts(j, "allowedSscModes"), others |-> Carried(j, {})]

SscModesToJson(m) ==
  Object(m.others, [defaultSscMode |-> TextValue(m.defaultSscMode),
                    allowedSscModes |-> ListValue(Strings(m.allowedSscModes))])

UpSecurityFaults(j) == Mistyped(j, {"upIntegr", "upConfid"}, "string")

UpSecurityFromJson(j) ==
  [upIntegr |-> Text(j, "upIntegr"), upConfid |-> Text(j, "upConfid"), others |-> Carried(j, {})]

UpSecurityToJson(s) ==
  Object(s.others, [upIntegr |-> TextValue(s.upIntegr), upConfid |-> TextValue(s.upConfid)])

\* sessionAmbr, and the subscribedUeAmbr of a subscription.
AmbrFaults(j) == Missing(j, {"uplink", "downlink"}) \cup Mistyped(j, {"uplink", "downlink"}, "string")

AmbrFromJson(j) ==
  [uplink |-> Text(j, "uplink"), downlink |-> Text(j, "downlink"), others |-> Carried(j, {})]

AmbrToJson(r) ==
  Object(r.others, [uplink |-> TextValue(r.uplink), downlink |-> TextValue(r.downlink)])

ArpFaults(j) ==
  Missing(j, {"priorityLevel", "preemptCap", "preemptVuln"})
  \cup Mistyped(j, {"priorityLevel"}, "int") \cup Mistyped(j, {"preemptCap", "preemptVuln"}, "string")

FivegQosProfileFaults(j) ==
  Missing(j, {"5qi", "arp"}) \cup Mistyped(j, {"5qi", "priorityLevel"}, "int")
  \cup Mistyped(j, {"arp"}, "object") \cup UNION {ArpFaults(a) : a \in Member(j, "arp", "object")}

FivegQosProfileFromJson(j) ==
  LET arp == j.object["arp"]
  IN  [fiveqi |-> j.object["5qi"].int,
       priorityLevel |-> Optional(j, "priorityLevel", "int"),
       arp |-> [priorityLevel |-> arp.object["priorityLevel"].int,
                preemptCap |-> Text(arp, "preemptCap"), preemptVuln |-> Text(arp, "preemptVuln"),
                others |-> Carried(arp, {})],
       others |-> Carried(j, {})]

ArpToJson(a) ==
  Object(a.others, [priorityLevel |-> IntValue(a.priorityLevel),
                    preemptCap |-> TextValue(a.preemptCap), preemptVuln |-> TextValue(a.preemptVuln)])

FivegQosProfileToJson(q) ==
  Object(q.others, [5qi |-> IntValue(q.fiveqi),
                    priorityLevel |-> UNION {IntValue(level) : level \in q.priorityLevel},
                    arp |-> {ArpToJson(q.arp)}])

-------------------------------------------------------------------------------
(* dnnData                                                                     *)

DnnFlags == {"defaultDnnIndicator", "lboRoamingAllowed", "iwkEpsInd", "ladnIndicator", "sameSmfInd"}

DnnObjects == {"pduSessionTypes", "sscModes", "upSecurity", "sessionAmbr", "5gQosProfile"}

DnnDataFaults(j) ==
  Mistyped(j, {"dnn", CHARGING}, "string") \cup Mistyped(j, DnnFlags, "bool")
  \cup Mistyped(j, DnnObjects, "object") \cup ArrayFaults(j, {"smfList"}, "string")
  \cup (UNION {PduSessionTypesFaults(t) : t \in Member(j, "pduSessionTypes", "object")})
  \cup (UNION {SscModesFaults(m) : m \in Member(j, "sscModes", "object")})
  \cup (UNION {UpSecurityFaults(s) : s \in Member(j, "upSecurity", "object")})
  \cup (UNION {AmbrFaults(r) : r \in Member(j, "sessionAmbr", "object")})
  \cup UNION {FivegQosProfileFaults(q) : q \in Member(j, "5gQosProfile", "object")}

DnnDataFromJson(j) ==
  [dnn |-> Text(j, "dnn"),
   defaultDnnIndicator |-> TRUE \in Optional(j, "defaultDnnIndicator", "bool"),
   attributes |->
     [pduSessionTypes |-> {PduSessionTypesFromJson(t) : t \in Member(j, "pduSessionTypes", "object")},
      sscModes |-> {SscModesFromJson(m) : m \in Member(j, "sscModes", "object")},
      upSecurity |-> {UpSecurityFromJson(s) : s \in Member(j, "upSecurity", "object")},
      sessionAmbr |-> {AmbrFromJson(r) : r \in Member(j, "sessionAmbr", "object")},
      fivegQosProfile |-> {FivegQosProfileFromJson(q) : q \in Member(j, "5gQosProfile", "object")},
      smfList |-> {Texts(j, "smfList") : list \in Member(j, "smfList", "array")},
      charging |-> Text(j, CHARGING)],
   others |-> Carried(j, DnnFlags)]

\* Seeded fault: the smfList is forgotten.
DnnDataToJsonWithoutSmfList(d) ==
  LET a == d.attributes
  IN  Object(d.others,
        [dnn |-> TextValue(d.dnn), 3gppChargingCharacteristics |-> TextValue(a.charging),
         pduSessionTypes |-> {PduSessionTypesToJson(t) : t \in a.pduSessionTypes},
         sscModes |-> {SscModesToJson(m) : m \in a.sscModes},
         5gQosProfile |-> {FivegQosProfileToJson(q) : q \in a.fivegQosProfile},
         sessionAmbr |-> {AmbrToJson(r) : r \in a.sessionAmbr},
         upSecurity |-> {UpSecurityToJson(s) : s \in a.upSecurity}])

DnnDataToJson(d) ==
  LET a == d.attributes
  IN  Object(d.others,
        [dnn |-> TextValue(d.dnn), 3gppChargingCharacteristics |-> TextValue(a.charging),
         pduSessionTypes |-> {PduSessionTypesToJson(t) : t \in a.pduSessionTypes},
         sscModes |-> {SscModesToJson(m) : m \in a.sscModes},
         5gQosProfile |-> {FivegQosProfileToJson(q) : q \in a.fivegQosProfile},
         sessionAmbr |-> {AmbrToJson(r) : r \in a.sessionAmbr},
         upSecurity |-> {UpSecurityToJson(s) : s \in a.upSecurity},
         smfList |-> {[array |-> Strings(list)] : list \in a.smfList}])

-------------------------------------------------------------------------------
(* dnnList and plmnIdSet                                                       *)

DnnListFaults(j) ==
  Missing(j, {"dnnListId"}) \cup Mistyped(j, {"dnnListId"}, "string")
  \cup ArrayFaults(j, {"dnnDataList"}, "object")
  \cup UNION {DnnDataFaults(d) : d \in Objects(j, "dnnDataList")}

DnnListFromJson(j) ==
  LET dnns == Elements(j, "dnnDataList")
  IN  [dnnListId |-> Text(j, "dnnListId"),
       dnnDataList |-> [i \in DOMAIN dnns |-> DnnDataFromJson(dnns[i])], others |-> Carried(j, {})]

\* Seeded fault: what is vendor specific in a dnnList is forgotten.
DnnListToJsonAttributes(l) ==
  Object(NoMembers,
    [dnnListId |-> TextValue(l.dnnListId),
     dnnDataList |-> ListValue([i \in DOMAIN l.dnnDataList |-> DnnDataToJson(l.dnnDataList[i])])])

DnnListToJson(l) ==
  Object(l.others,
    [dnnListId |-> TextValue(l.dnnListId),
     dnnDataList |-> ListValue([i \in DOMAIN l.dnnDataList |-> DnnDataToJson(l.dnnDataList[i])])])

SliceInfoFaults(j) ==
  ArrayFaults(j, {"defaultSingleNssais", "singleNssais"}, "object")
  \cup UNION {NssaiDetailsFaults(n) :
                n \in Objects(j, "defaultSingleNssais") \cup Objects(j, "singleNssais")}

HasDefaultSingleNssais(j) ==
  \E s \in Member(j, "nssai", "object") : Objects(s, "defaultSingleNssais") # {}

\* An nssai has to have a defaultSingleNssais. dnnLists has to be there in a
\* slice profile, but it may be empty.
PlmnIdSetFaults(j, isSliceData) ==
  Missing(j, {"plmnIdSetIdentifier"}) \cup Mistyped(j, {"plmnIdSetIdentifier"}, "string")
  \cup Mistyped(j, {"nssai"}, "object") \cup (UNION {SliceInfoFaults(s) : s \in Member(j, "nssai", "object")})
  \cup Raise(HasMember(j, "nssai") /\ ~HasDefaultSingleNssais(j), "defaultSingleNssais")
  \cup ArrayFaults(j, {"dnnLists"}, "object")
  \cup (UNION {DnnListFaults(l) : l \in Objects(j, "dnnLists")})
  \cup Raise(~isSliceData /\ ~HasMember(j, "dnnLists"), "dnnLists")

NssaisFromJson(j, name) ==
  LET elements == UNION {{Elements(s, name)} : s \in Member(j, "nssai", "object")}
      nssais   == IF elements = {} THEN <<>> ELSE CHOOSE list \in elements : TRUE
  IN  [i \in DOMAIN nssais |-> NssaiDetailsFromJson(nssais[i])]

PlmnIdSetFromJson(j) ==
  LET lists == Elements(j, "dnnLists")
  IN  [plmnIdSetIdentifier |-> Text(j, "plmnIdSetIdentifier"),
       defaultSingleNssais |-> NssaisFromJson(j, "defaultSingleNssais"),
       singleNssais |-> NssaisFromJson(j, "singleNssais"),
       nssaiOthers |-> {Carried(s, {}) : s \in Member(j, "nssai", "object")},
       dnnLists |-> [i \in DOMAIN lists |-> DnnListFromJson(lists[i])],
       others |-> Carried(j, {})]

NssaisToJson(nssais) == [i \in DOMAIN nssais |-> NssaiDetailsToJson(nssais[i])]

SliceInfoToJson(others, set) ==
  Object(others, [defaultSingleNssais |-> ListValue(NssaisToJson(set.defaultSingleNssais)),
                  singleNssais |-> ListValue(NssaisToJson(set.singleNssais))])

PlmnIdSetToJson(s) ==
  Object(s.others,
    [plmnIdSetIdentifier |-> TextValue(s.plmnIdSetIdentifier),
     nssai |-> {SliceInfoToJson(others, s) : others \in s.nssaiOthers},
     dnnLists |-> ListValue([i \in DOMAIN s.dnnLists |-> DnnListToJson(s.dnnLists[i])])])

getPlmnIdSets(j) ==
  LET sets == Elements(j, "plmnIdSets") IN [i \in DOMAIN sets |-> PlmnIdSetFromJson(sets[i])]

plmnIdsToJson(plmnIdSets) ==
  ListValue([i \in DOMAIN plmnIdSets |-> PlmnIdSetToJson(plmnIdSets[i])])

-------------------------------------------------------------------------------
(* udmSliceProfile. A plmnIdSets that is no array sets a parsing error, which  *)
(* nobody looks at any more: the profile is read without sets.                 *)

UdmSliceProfileFaults(j) ==
  Mistyped(j, {"udmSliceProfileId"}, "string")
  \cup UNION {PlmnIdSetFaults(s, FALSE) : s \in Range(Elements(j, "plmnIdSets"))}

getUdmSliceProfile(j) ==
  [udmSliceProfileId |-> Text(j, "udmSliceProfileId"), plmnIdSets |-> getPlmnIdSets(j),
   others |-> Carried(j, {})]

udmSliceProfileToJson(profile) ==
  Object(profile.others, [udmSliceProfileId |-> TextValue(profile.udmSliceProfileId),
                          plmnIdSets |-> plmnIdsToJson(profile.plmnIdSets)])

===============================================================================
