------------------------------ MODULE JsonValues ------------------------------
(***************************************************************************)
(* JSON values as the parser takes them from rapidjson and the encoder     *)
(* gives them to it. A value is a record with one field, named for its     *)
(* type:                                                                   *)
(*                                                                         *)
(*   [string |-> text]      [int |-> a number IsInt() takes]               *)
(*   [bool |-> TRUE]        [number |-> any other number]                  *)
(*   [array |-> a sequence of values]                                      *)
(*   [object |-> a function from names to values]                          *)
(*                                                                         *)
(* The parser checks each member as it reads it and goes on after an       *)
(* error; whoever calls it drops what was read when there was one. So      *)
(* there are two operators for each kind of object: its faults, which are  *)
(* the names the errors are about, and the entity that is read from it,    *)
(* which means something only when there is no fault. A member that is     *)
(* absent leaves the entity's field as its constructor made it.            *)
(***************************************************************************)
EXTENDS Integers, Sequences, Functions

CONSTANT VendorSpecificFormat    \* the names VENDOR_SPECIFIC_REGEXP matches

CHARGING == "3gppChargingCharacteristics"

\* The names of the members the entities have attributes for.
MemberNames ==
  {"sst", "sd", "dnnListId", CHARGING, "nssai", "defaultSessionType", "allowedSessionTypes",
   "defaultSscMode", "allowedSscModes", "upIntegr", "upConfid", "uplink", "downlink",
   "priorityLevel", "preemptCap", "preemptVuln", "5qi", "arp", "dnn", "defaultDnnIndicator",
   "lboRoamingAllowed", "iwkEpsInd", "ladnIndicator", "sameSmfInd", "pduSessionTypes", "sscModes",
   "upSecurity", "sessionAmbr", "5gQosProfile", "smfList", "dnnDataList", "defaultSingleNssais",
   "singleNssais", "plmnIdSetIdentifier", "dnnLists", "plmnIdSets", "udmSliceProfileId"}
  \cup
  {"id", "restrictionType", "areas", "maxNumOfTAs", "ipv4Addr", "ipv6Addr", "ipv6Prefix",
   "ipAddress", "dnnIpList", "nssaiDnnIpLists", "mpsPriority", "mcsPriority", "micoAllowed",
   "rfspIndex", "subsRegTimer", "subscribedUeAmbr", "serviceAreaRestriction", "forbiddenAreas",
   "ratRestrictions", "coreNetworkTypeRestrictions", "dlPacketCount", "ueUsageType", "roamingOdb",
   "staticIpAddress", "udmSliceData"}
  \cup
  {"areaCodes", "tacs", "areaList", "udmRoamingAreaId", "smsSubscriptionData",
   "smsManagementSubscriptionData", "smsSubscribed", "mtSmsSubscribed", "mtSmsBarringAll",
   "mtSmsBarringRoaming", "moSmsSubscribed", "moSmsBarringAll", "moSmsBarringRoaming"}

\* The regular expression asks for "vendorSpecific-" at the start.
ASSUME VendorSpecificAssumption == VendorSpecificFormat \cap MemberNames = {}

-------------------------------------------------------------------------------
(* Reading                                                                     *)

HasMember(j, name) == name \in DOMAIN j.object

Is(value, type) == type \in DOMAIN value

\* The member, in a set: {} when it is absent or of another type.
Member(j, name, type) ==
  {j.object[n] : n \in {n \in {name} : HasMember(j, n) /\ Is(j.object[n], type)}}

\* not<Type>FieldError, for members that may be absent.
Mistyped(j, names, type) == {n \in names : HasMember(j, n) /\ ~Is(j.object[n], type)}

\* unfoundMandatoryFieldError
Missing(j, names) == names \ DOMAIN j.object

\* emptyFieldError
Empty(j, names) == {n \in names : [string |-> ""] \in Member(j, n, "string")}

\* The elements of an array: none when it is absent.
Elements(j, name) ==
  IF Member(j, name, "array") = {} THEN <<>> ELSE j.object[name].array

Objects(j, name) == {v \in Range(Elements(j, name)) : Is(v, "object")}

\* A member that has to be an array of one type.
ArrayFaults(j, names, type) ==
  Mistyped(j, names, "array") \cup
  {n \in names : \E v \in Range(Elements(j, n)) : ~Is(v, type)}

\* A string that is absent is empty.
Text(j, name) == IF Member(j, name, "string") = {} THEN "" ELSE j.object[name].string

Texts(j, name) == [i \in DOMAIN Elements(j, name) |-> Elements(j, name)[i].string]

\* A number, or a flag, that may be absent: {} or {value}.
Optional(j, name, type) == {v[type] : v \in Member(j, name, type)}

\* Members no rule looks at go from the request to the answer as they are:
\* those named, and the vendor specific ones.
Carried(j, names) ==
  [n \in DOMAIN j.object \cap (names \cup VendorSpecificFormat) |-> j.object[n]]

-------------------------------------------------------------------------------
(* Writing. What an object is written from are the members that are carried    *)
(* along, a function from names to values, and a record with a set for each    *)
(* name: {} when the member is not written, else {value}.                      *)

\* AddMember, for each member there is. No name is added twice.
Object(others, members) ==
  [object |-> [n \in DOMAIN others \cup {n \in DOMAIN members : members[n] # {}} |->
                 IF n \in DOMAIN others THEN others[n] ELSE CHOOSE v \in members[n] : TRUE]]

NoMembers == <<>>

EmptyObject == [object |-> NoMembers]

\* Seeded fault: a zero is taken for an absent number.
IntValueUnlessZero(number) == IF number = 0 THEN {} ELSE {[int |-> number]}

IntValue(number) == {[int |-> number]}

\* strToJson: an empty string is not written.
TextValue(text) == IF text = "" THEN {} ELSE {[string |-> text]}

\* An empty list is not written.
ListValue(values) == IF values = <<>> THEN {} ELSE {[array |-> values]}

\* Strings, as JSON values.
Strings(texts) == [i \in DOMAIN texts |-> [string |-> texts[i]]]

===============================================================================
