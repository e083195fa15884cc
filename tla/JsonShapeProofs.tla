---------------------------- MODULE JsonShapeProofs ----------------------------
(***************************************************************************)
(* That what the parser reads from a body without a fault is an entity the *)
(* lemmas of JsonProofs are about, that computeMutations keeps it one, and *)
(* that so whatever the validator accepts can be read from the answer.     *)
(***************************************************************************)
EXTENDS JsonProofs, RuleProofs

(***************************************************************************)
(* A member is there at most once.                                         *)
(***************************************************************************)
LEMMA OneMember ==
  ASSUME NEW j, NEW name, NEW type
  PROVE  AtMostOne(Member(j, name, type))
  BY DEF AtMostOne, Member

LEMMA TextsAre ==
  ASSUME NEW j, NEW name
  PROVE  IsFcn(Texts(j, name))
  BY DEF IsFcn, Texts

(***************************************************************************)
(* The entities of a slice profile.                                        *)
(***************************************************************************)
LEMMA NssaiDetailsShaped ==
  ASSUME NEW j
  PROVE  NssaiDetailsShape(NssaiDetailsFromJson(j))
<1> DEFINE n == NssaiDetailsFromJson(j)
<1>1. AreCarried(n.snssaiOthers, {}) /\ AreCarried(n.others, {})
  BY CarriedAre DEF NssaiDetailsFromJson
<1>2. n = [sst |-> n.sst, sd |-> n.sd, dnnListId |-> n.dnnListId, charging |-> n.charging,
           snssaiOthers |-> n.snssaiOthers, others |-> n.others]
  BY DEF NssaiDetailsFromJson
<1> QED
  BY <1>1, <1>2 DEF NssaiDetailsShape

LEMMA PduSessionTypesShaped ==
  ASSUME NEW j
  PROVE  PduSessionTypesShape(PduSessionTypesFromJson(j))
<1> DEFINE t == PduSessionTypesFromJson(j)
<1>1. AreCarried(t.others, {})
  BY CarriedAre DEF PduSessionTypesFromJson
<1>2. t = [defaultSessionType |-> t.defaultSessionType,
           allowedSessionTypes |-> t.allowedSessionTypes, others |-> t.others]
  BY DEF PduSessionTypesFromJson
<1>3. \A list \in t.allowedSessionTypes : list = Texts(j, "allowedSessionTypes")
  BY DEF PduSessionTypesFromJson
<1> QED
  BY <1>1, <1>2, <1>3, TextsAre DEF PduSessionTypesShape, AtMostOne

LEMMA SscModesShaped ==
  ASSUME NEW j
  PROVE  SscModesShape(SscModesFromJson(j))
  BY CarriedAre, TextsAre DEF SscModesFromJson, SscModesShape

LEMMA UpSecurityShaped ==
  ASSUME NEW j
  PROVE  UpSecurityShape(UpSecurityFromJson(j))
  BY CarriedAre DEF UpSecurityFromJson, UpSecurityShape

LEMMA AmbrShaped ==
  ASSUME NEW j
  PROVE  AmbrShape(AmbrFromJson(j))
  BY CarriedAre DEF AmbrFromJson, AmbrShape

LEMMA FivegQosProfileShaped ==
  ASSUME NEW j
  PROVE  FivegQosProfileShape(FivegQosProfileFromJson(j))
<1> DEFINE q == FivegQosProfileFromJson(j)
<1>1. AreCarried(q.others, {}) /\ AreCarried(q.arp.others, {})
  BY CarriedAre DEF FivegQosProfileFromJson
<1>2. q = [fiveqi |-> q.fiveqi, priorityLevel |-> q.priorityLevel, arp |-> q.arp,
           others |-> q.others]
  BY DEF FivegQosProfileFromJson
<1>3. q.arp = [priorityLevel |-> q.arp.priorityLevel, preemptCap |-> q.arp.preemptCap,
               preemptVuln |-> q.arp.preemptVuln, others |-> q.arp.others]
  BY DEF FivegQosProfileFromJson
<1>4. AtMostOne(q.priorityLevel)
  <2>1. q.priorityLevel = Optional(j, "priorityLevel", "int")
    BY DEF FivegQosProfileFromJson
  <2> QED
    BY <2>1, OneMember DEF AtMostOne, Optional
<1> QED
  BY <1>1, <1>2, <1>3, <1>4 DEF FivegQosProfileShape, ArpShape

(***************************************************************************)
(* What is read from each of at most one value is at most one.             *)
(***************************************************************************)
LEMMA AttributesShaped ==
  ASSUME NEW j
  PROVE  AttributesShape(DnnDataFromJson(j).attributes)
<1> DEFINE a == DnnDataFromJson(j).attributes
<1>0. a = [pduSessionTypes |-> {PduSessionTypesFromJson(t) : t \in Member(j, "pduSessionTypes", "object")},
           sscModes |-> {SscModesFromJson(m) : m \in Member(j, "sscModes", "object")},
           upSecurity |-> {UpSecurityFromJson(s) : s \in Member(j, "upSecurity", "object")},
           sessionAmbr |-> {AmbrFromJson(r) : r \in Member(j, "sessionAmbr", "object")},
           fivegQosProfile |-> {FivegQosProfileFromJson(q) : q \in Member(j, "5gQosProfile", "object")},
           smfList |-> {Texts(j, "smfList") : list \in Member(j, "smfList", "array")},
           charging |-> Text(j, CHARGING)]
  BY Zenon DEF DnnDataFromJson
<1>1. AtMostOne(a.pduSessionTypes) /\ \A t \in a.pduSessionTypes : PduSessionTypesShape(t)
  BY <1>0, OneMember, PduSessionTypesShaped DEF AtMostOne
<1>2. AtMostOne(a.sscModes) /\ \A m \in a.sscModes : SscModesShape(m)
  BY <1>0, OneMember, SscModesShaped DEF AtMostOne
<1>3. AtMostOne(a.upSecurity) /\ \A s \in a.upSecurity : UpSecurityShape(s)
  BY <1>0, OneMember, UpSecurityShaped DEF AtMostOne
<1>4. AtMostOne(a.sessionAmbr) /\ \A r \in a.sessionAmbr : AmbrShape(r)
  BY <1>0, OneMember, AmbrShaped DEF AtMostOne
<1>5. AtMostOne(a.fivegQosProfile) /\ \A q \in a.fivegQosProfile : FivegQosProfileShape(q)
  BY <1>0, OneMember, FivegQosProfileShaped DEF AtMostOne
<1>6. AtMostOne(a.smfList) /\ \A list \in a.smfList : IsFcn(list)
  BY <1>0, OneMember, TextsAre DEF AtMostOne
<1>7. a = [pduSessionTypes |-> a.pduSessionTypes, sscModes |-> a.sscModes,
           upSecurity |-> a.upSecurity, sessionAmbr |-> a.sessionAmbr,
           fivegQosProfile |-> a.fivegQosProfile, smfList |-> a.smfList, charging |-> a.charging]
  BY <1>0
<1> HIDE DEF a
<1>8. AttributesShape(a)
  BY <1>1, <1>2, <1>3, <1>4, <1>5, <1>6, <1>7 DEF AttributesShape
<1> QED
  BY <1>8 DEF a

LEMMA DnnDataShaped ==
  ASSUME NEW j, Mistyped(j, DnnFlags, "bool") = {}
  PROVE  DnnDataShape(DnnDataFromJson(j))
<1> DEFINE d == DnnDataFromJson(j)
<1>1. d = [dnn |-> d.dnn, defaultDnnIndicator |-> d.defaultDnnIndicator,
           attributes |-> d.attributes, others |-> d.others]
  BY DEF DnnDataFromJson
<1>2. /\ AttributesShape(d.attributes)
      /\ d.others = Carried(j, DnnFlags)
      /\ d.defaultDnnIndicator = (TRUE \in Optional(j, "defaultDnnIndicator", "bool"))
  BY AttributesShaped DEF DnnDataFromJson
<1>3. /\ DOMAIN d.others = DOMAIN j.object \cap (DnnFlags \cup VendorSpecificFormat)
      /\ \A n \in DOMAIN d.others : d.others[n] = j.object[n]
  BY <1>2 DEF Carried
<1> HIDE DEF d
<1>4. \A n \in DnnFlags \cap DOMAIN d.others : Is(d.others[n], "bool")
  BY <1>3 DEF Mistyped, HasMember
<1>5. Optional(j, "defaultDnnIndicator", "bool")
      = {d.others[x]["bool"] : x \in {"defaultDnnIndicator"} \cap DOMAIN d.others}
  <2>1. "defaultDnnIndicator" \in DnnFlags
    BY DEF DnnFlags
  <2>2. Member(j, "defaultDnnIndicator", "bool")
        = {d.others[x] : x \in {"defaultDnnIndicator"} \cap DOMAIN d.others}
    BY <1>3, <1>4, <2>1 DEF Member, HasMember
  <2> QED
    BY <2>2 DEF Optional
<1>6. AreCarried(d.others, DnnFlags)
  BY <1>2, CarriedAre
<1>7. DnnDataShape(d)
  BY <1>1, <1>2, <1>4, <1>5, <1>6 DEF DnnDataShape
<1> QED
  BY <1>7 DEF d

LEMMA DnnListShaped ==
  ASSUME NEW j, DnnListFaults(j) = {}
  PROVE  DnnListShape(DnnListFromJson(j))
<1> DEFINE l == DnnListFromJson(j)
           dnns == Elements(j, "dnnDataList")
<1>1. \A i \in DOMAIN dnns : Mistyped(dnns[i], DnnFlags, "bool") = {}
  <2>1. ArrayFaults(j, {"dnnDataList"}, "object") = {}
    BY DEF DnnListFaults
  <2>2. \A i \in DOMAIN dnns : dnns[i] \in Objects(j, "dnnDataList")
    BY <2>1 DEF ArrayFaults, Objects, Range
  <2>3. \A d \in Objects(j, "dnnDataList") : DnnDataFaults(d) = {}
    BY DEF DnnListFaults
  <2> QED
    BY <2>2, <2>3 DEF DnnDataFaults
<1>2. /\ l = [dnnListId |-> l.dnnListId, dnnDataList |-> l.dnnDataList, others |-> l.others]
      /\ l.dnnDataList = [i \in DOMAIN dnns |-> DnnDataFromJson(dnns[i])]
      /\ AreCarried(l.others, {})
  BY CarriedAre DEF DnnListFromJson
<1> HIDE DEF l, dnns
<1>3. IsFcn(l.dnnDataList) /\ \A i \in DOMAIN l.dnnDataList : DnnDataShape(l.dnnDataList[i])
  BY <1>1, <1>2, DnnDataShaped DEF IsFcn
<1>4. DnnListShape(l)
  BY <1>2, <1>3 DEF DnnListShape
<1> QED
  BY <1>4 DEF l

(***************************************************************************)
(* A set that passes its parser has no nssai, or one with default nssais.  *)
(***************************************************************************)
LEMMA NssaisShaped ==
  ASSUME NEW j, NEW name
  PROVE  NssaisShape(NssaisFromJson(j, name))
<1> DEFINE elements == UNION {{Elements(s, name)} : s \in Member(j, "nssai", "object")}
           nssais == IF elements = {} THEN <<>> ELSE CHOOSE list \in elements : TRUE
<1>1. NssaisFromJson(j, name) = [i \in DOMAIN nssais |-> NssaiDetailsFromJson(nssais[i])]
  BY Zenon DEF NssaisFromJson
<1> HIDE DEF nssais
<1> QED
  BY <1>1, NssaiDetailsShaped DEF NssaisShape, IsFcn

LEMMA SliceInfoShaped ==
  ASSUME NEW j, NEW isSliceData, PlmnIdSetFaults(j, isSliceData) = {}
  PROVE  SliceInfoShape(PlmnIdSetFromJson(j))
<1> DEFINE set == PlmnIdSetFromJson(j)
           N == Member(j, "nssai", "object")
<1>1. /\ set.defaultSingleNssais = NssaisFromJson(j, "defaultSingleNssais")
      /\ set.singleNssais = NssaisFromJson(j, "singleNssais")
      /\ set.nssaiOthers = {Carried(s, {}) : s \in N}
  BY DEF PlmnIdSetFromJson
<1> HIDE DEF set
<1>2. NssaisShape(set.defaultSingleNssais) /\ NssaisShape(set.singleNssais)
  BY <1>1, NssaisShaped
<1>3. AtMostOne(N)
  BY OneMember
<1>4. AtMostOne(set.nssaiOthers) /\ \A others \in set.nssaiOthers : AreCarried(others, {})
  <2> HIDE DEF N
  <2> QED
    BY <1>1, <1>3, CarriedAre DEF AtMostOne
<1>5. CASE N = {}
  <2>1. set.nssaiOthers = {} /\ set.defaultSingleNssais = <<>> /\ set.singleNssais = <<>>
    BY <1>1, <1>5, NoNssais
  <2>2. SliceInfoShape(set)
    BY <1>2, <1>4, <2>1 DEF SliceInfoShape
  <2> QED
    BY <2>2 DEF set
<1>6. CASE N # {}
  <2>1. PICK s : s \in N
    BY <1>6
  <2>2. N = {s}
    BY <1>3, <2>1 DEF AtMostOne
  <2>3. HasMember(j, "nssai")
    BY <2>1 DEF Member
  <2>4. HasDefaultSingleNssais(j)
    BY <2>3 DEF PlmnIdSetFaults, Raise
  <2>5. Objects(s, "defaultSingleNssais") # {}
    BY <2>2, <2>4 DEF HasDefaultSingleNssais
  <2>6. DOMAIN Elements(s, "defaultSingleNssais") # {}
    BY <2>5 DEF Objects, Range
  <2>7. DOMAIN set.defaultSingleNssais # {}
    BY <1>1, <2>2, <2>6, NssaisOfNssai
  <2>8. set.nssaiOthers # {}
    BY <1>1, <2>1
  <2>9. SliceInfoShape(set)
    BY <1>2, <1>4, <2>7, <2>8 DEF SliceInfoShape
  <2> QED
    BY <2>9 DEF set
<1> QED
  BY <1>5, <1>6

LEMMA PlmnIdSetShaped ==
  ASSUME NEW j, NEW isSliceData, PlmnIdSetFaults(j, isSliceData) = {}
  PROVE  PlmnIdSetShape(PlmnIdSetFromJson(j))
<1> DEFINE set == PlmnIdSetFromJson(j)
           lists == Elements(j, "dnnLists")
<1>1. \A i \in DOMAIN lists : DnnListFaults(lists[i]) = {}
  <2>1. ArrayFaults(j, {"dnnLists"}, "object") = {}
    BY DEF PlmnIdSetFaults
  <2>2. \A i \in DOMAIN lists : lists[i] \in Objects(j, "dnnLists")
    BY <2>1 DEF ArrayFaults, Objects, Range
  <2>3. \A l \in Objects(j, "dnnLists") : DnnListFaults(l) = {}
    BY DEF PlmnIdSetFaults
  <2> QED
    BY <2>2, <2>3
<1>2. /\ set = [plmnIdSetIdentifier |-> set.plmnIdSetIdentifier,
                defaultSingleNssais |-> set.defaultSingleNssais, singleNssais |-> set.singleNssais,
                nssaiOthers |-> set.nssaiOthers, dnnLists |-> set.dnnLists, others |-> set.others]
      /\ set.dnnLists = [i \in DOMAIN lists |-> DnnListFromJson(lists[i])]
      /\ AreCarried(set.others, {})
  BY CarriedAre DEF PlmnIdSetFromJson
<1>3. SliceInfoShape(set)
  BY SliceInfoShaped
<1> HIDE DEF set, lists
<1>4. IsFcn(set.dnnLists) /\ \A i \in DOMAIN set.dnnLists : DnnListShape(set.dnnLists[i])
  BY <1>1, <1>2, DnnListShaped DEF IsFcn
<1>5. PlmnIdSetShape(set)
  BY <1>2, <1>3, <1>4 DEF PlmnIdSetShape
<1> QED
  BY <1>5 DEF set

LEMMA PlmnIdSetsShaped ==
  ASSUME NEW j, NEW isSliceData,
         UNION {PlmnIdSetFaults(s, isSliceData) : s \in Range(Elements(j, "plmnIdSets"))} = {}
  PROVE  PlmnIdSetsShape(getPlmnIdSets(j))
<1> DEFINE sets == Elements(j, "plmnIdSets")
<1>1. \A i \in DOMAIN sets : PlmnIdSetFaults(sets[i], isSliceData) = {}
  BY DEF Range
<1>2. getPlmnIdSets(j) = [i \in DOMAIN sets |-> PlmnIdSetFromJson(sets[i])]
  BY DEF getPlmnIdSets
<1> HIDE DEF sets
<1> QED
  BY <1>1, <1>2, PlmnIdSetShaped DEF PlmnIdSetsShape, IsFcn

LEMMA UdmSliceProfileShaped ==
  ASSUME NEW j, UdmSliceProfileFaults(j) = {}
  PROVE  UdmSliceProfileShape(getUdmSliceProfile(j))
<1>1. UNION {PlmnIdSetFaults(s, FALSE) : s \in Range(Elements(j, "plmnIdSets"))} = {}
  BY DEF UdmSliceProfileFaults
<1>2. PlmnIdSetsShape(getPlmnIdSets(j))
  BY <1>1, PlmnIdSetsShaped
<1> QED
  BY <1>2, CarriedAre DEF UdmSliceProfileShape, getUdmSliceProfile

(***************************************************************************)
(* The entities of a subscription.                                         *)
(***************************************************************************)
LEMMA AreasShaped ==
  ASSUME NEW j, NEW name
  PROVE  AreasShape(AreaReferencesFromJson(j, name))
<1> DEFINE areas == Elements(j, name)
<1>1. AreaReferencesFromJson(j, name)
      = [i \in DOMAIN areas |-> [id |-> Text(areas[i], "id"), others |-> Carried(areas[i], {})]]
  BY DEF AreaReferencesFromJson
<1> HIDE DEF areas
<1> QED
  BY <1>1, CarriedAre DEF AreasShape, IsFcn

LEMMA NothingIsRead ==
  ASSUME NEW j, DOMAIN j.object = {}, NEW names
  PROVE  /\ \A name, type : Member(j, name, type) = {}
         /\ \A name : ~HasMember(j, name)
         /\ \A name : Elements(j, name) = <<>>
         /\ \A name : Text(j, name) = ""
         /\ Carried(j, names) = NoMembers
<1>1. \A name, type : Member(j, name, type) = {}
  BY DEF Member, HasMember
<1>2. \A name : ~HasMember(j, name)
  BY DEF HasMember
<1>3. \A name : Elements(j, name) = <<>>
  BY <1>1 DEF Elements
<1>4. \A name : Text(j, name) = ""
  BY <1>1 DEF Text
<1>5. IsFcn(Carried(j, names)) /\ DOMAIN Carried(j, names) = {}
  BY DEF Carried, IsFcn
<1>6. Carried(j, names) = NoMembers
  BY <1>5, EmptyList DEF NoMembers
<1> QED
  BY <1>1, <1>2, <1>3, <1>4, <1>6

LEMMA ServiceAreaRestrictionShaped ==
  ASSUME NEW j, Mistyped(j, {"serviceAreaRestriction"}, "object") = {},
         \A r \in Member(j, "serviceAreaRestriction", "object") : ServiceAreaRestrictionFaults(r) = {}
  PROVE  ServiceAreaRestrictionShape(ServiceAreaRestrictionFromJson(j))
<1> DEFINE present == HasMember(j, "serviceAreaRestriction")
           restriction == IF present THEN j.object["serviceAreaRestriction"] ELSE EmptyObject
           r == ServiceAreaRestrictionFromJson(j)
<1>1. /\ r = [present |-> r.present, restrictionType |-> r.restrictionType, areas |-> r.areas,
              hasMaxNumOfTas |-> r.hasMaxNumOfTas, others |-> r.others]
      /\ r.present = present
      /\ r.restrictionType = Text(restriction, "restrictionType")
      /\ r.areas = AreaReferencesFromJson(restriction, "areas")
      /\ r.hasMaxNumOfTas = HasMember(restriction, "maxNumOfTAs")
      /\ r.others = Carried(restriction, {"maxNumOfTAs"})
  BY DEF ServiceAreaRestrictionFromJson
<1>2. Mistyped(restriction, {"maxNumOfTAs"}, "int") = {}
  <2>1. CASE present
    <3>1. restriction \in Member(j, "serviceAreaRestriction", "object")
      BY <2>1 DEF Mistyped, Member
    <3>2. ServiceAreaRestrictionFaults(restriction) = {}
      BY <3>1
    <3> QED
      BY <3>2 DEF ServiceAreaRestrictionFaults
  <2>2. CASE ~present
    <3>1. DOMAIN restriction.object = {}
      BY <2>2 DEF EmptyObject, NoMembers
    <3> QED
      BY <3>1 DEF Mistyped, HasMember
  <2> QED
    BY <2>1, <2>2
<1>3. ~present => DOMAIN restriction.object = {}
  BY DEF EmptyObject, NoMembers
<1>4. present \in BOOLEAN
  BY DEF HasMember
<1> HIDE DEF r, restriction, present
<1>5. AreasShape(r.areas) /\ AreCarried(r.others, {"maxNumOfTAs"})
  BY <1>1, AreasShaped, CarriedAre
<1>6. r.hasMaxNumOfTas = ("maxNumOfTAs" \in DOMAIN r.others)
  <2>1. DOMAIN r.others = DOMAIN restriction.object \cap ({"maxNumOfTAs"} \cup VendorSpecificFormat)
    BY <1>1 DEF Carried
  <2>2. ("maxNumOfTAs" \in DOMAIN r.others) <=> ("maxNumOfTAs" \in DOMAIN restriction.object)
    BY <2>1
  <2> QED
    BY <1>1, <2>2 DEF HasMember
<1>7. \A n \in {"maxNumOfTAs"} \cap DOMAIN r.others : Is(r.others[n], "int")
  BY <1>1, <1>2 DEF Carried, Mistyped, HasMember
<1>8. ~r.present => r.restrictionType = "" /\ r.areas = <<>> /\ r.others = NoMembers
  <2> SUFFICES ASSUME ~present
               PROVE  r.restrictionType = "" /\ r.areas = <<>> /\ r.others = NoMembers
    BY <1>1
  <2>1. DOMAIN restriction.object = {}
    BY <1>3
  <2>2. r.restrictionType = "" /\ r.others = NoMembers
    BY <1>1, <2>1, NothingIsRead
  <2>3. DOMAIN r.areas = {}
    <3>1. Elements(restriction, "areas") = <<>>
      BY <2>1, NothingIsRead
    <3> QED
      BY <1>1, <3>1 DEF AreaReferencesFromJson
  <2>4. r.areas = <<>>
    BY <1>5, <2>3, EmptyList DEF AreasShape
  <2> QED
    BY <2>2, <2>4
<1>9. ServiceAreaRestrictionShape(r)
  BY <1>1, <1>4, <1>5, <1>6, <1>7, <1>8 DEF ServiceAreaRestrictionShape
<1> QED
  BY <1>9 DEF r

LEMMA IpAddrShaped ==
  ASSUME NEW j
  PROVE  IpAddrShape(IpAddrFromJson(j))
<1>1. IpTypeOf(j) \in IpTypes
  BY DEF IpTypeOf, IpTypes
<1> QED
  BY <1>1, CarriedAre DEF IpAddrFromJson, IpAddrShape

LEMMA DnnIpsShaped ==
  ASSUME NEW list, NEW i
  PROVE  DnnIpsShape(DnnIpsFromJson(list, i))
<1> DEFINE addresses == WithAddress(Elements(list[i], "ipAddress"))
           d == DnnIpsFromJson(list, i)
<1>1. /\ d = [dnn |-> d.dnn, ipAddress |-> d.ipAddress, others |-> d.others]
      /\ d.ipAddress = [k \in DOMAIN addresses |-> IpAddrFromJson(addresses[k])]
      /\ AreCarried(d.others, {})
  BY CarriedAre DEF DnnIpsFromJson
<1> HIDE DEF d, addresses
<1>2. IsFcn(d.ipAddress) /\ \A k \in DOMAIN d.ipAddress : IpAddrShape(d.ipAddress[k])
  BY <1>1, IpAddrShaped DEF IsFcn
<1>3. DnnIpsShape(d)
  BY <1>1, <1>2 DEF DnnIpsShape
<1> QED
  BY <1>3 DEF d

LEMMA NssaiDnnIpsShaped ==
  ASSUME NEW j, NEW uninitialized
  PROVE  NssaiDnnIpsShape(NssaiDnnIpsFromJson(j, uninitialized))
<1> DEFINE list == Elements(j, "dnnIpList")
           nssai == j.object["nssai"]
           e == NssaiDnnIpsFromJson(j, uninitialized)
<1>1. /\ e = [snssai |-> e.snssai, dnnIpList |-> e.dnnIpList, others |-> e.others]
      /\ e.snssai = [sst |-> e.snssai.sst, sd |-> e.snssai.sd, others |-> e.snssai.others]
      /\ e.snssai.others = IF HasMember(j, "nssai") THEN Carried(nssai, {}) ELSE NoMembers
      /\ e.dnnIpList = [i \in DOMAIN list |-> DnnIpsFromJson(list, i)]
      /\ AreCarried(e.others, {})
  BY CarriedAre DEF NssaiDnnIpsFromJson
<1> HIDE DEF e, list, nssai
<1>2. AreCarried(e.snssai.others, {})
  BY <1>1, CarriedAre, NothingIsCarried
<1>3. IsFcn(e.dnnIpList) /\ \A i \in DOMAIN e.dnnIpList : DnnIpsShape(e.dnnIpList[i])
  BY <1>1, DnnIpsShaped DEF IsFcn
<1>4. NssaiDnnIpsShape(e)
  BY <1>1, <1>2, <1>3 DEF NssaiDnnIpsShape
<1> QED
  BY <1>4 DEF e

LEMMA StaticIpAddressShaped ==
  ASSUME NEW j, NEW uninitialized
  PROVE  StaticIpAddressShape(StaticIpAddressFromJson(j, uninitialized))
<1> DEFINE lists == Elements(j, "nssaiDnnIpLists")
           s == StaticIpAddressFromJson(j, uninitialized)
<1>1. /\ s = [nssaiDnnIpLists |-> s.nssaiDnnIpLists, others |-> s.others]
      /\ s.nssaiDnnIpLists = [i \in DOMAIN lists |-> NssaiDnnIpsFromJson(lists[i], uninitialized)]
      /\ AreCarried(s.others, {})
  BY CarriedAre DEF StaticIpAddressFromJson
<1> HIDE DEF s, lists
<1>2. /\ IsFcn(s.nssaiDnnIpLists)
      /\ \A i \in DOMAIN s.nssaiDnnIpLists : NssaiDnnIpsShape(s.nssaiDnnIpLists[i])
  BY <1>1, NssaiDnnIpsShaped DEF IsFcn
<1>3. StaticIpAddressShape(s)
  BY <1>1, <1>2 DEF StaticIpAddressShape
<1> QED
  BY <1>3 DEF s

(***************************************************************************)
(* A subscription that passes its parser, or that is read from the data of *)
(* a change without any, which no parser looks at.                         *)
(***************************************************************************)
LEMMA UdmStaticDataParts ==
  ASSUME NEW j, UdmStaticDataFaults(j) = {} \/ DOMAIN j.object = {}
  PROVE  /\ Mistyped(j, {"serviceAreaRestriction"}, "object") = {}
         /\ Mistyped(j, UdmStaticDataFlags, "bool") = {}
         /\ Mistyped(j, UdmStaticDataNumbers, "int") = {}
         /\ \A r \in Member(j, "serviceAreaRestriction", "object") :
              ServiceAreaRestrictionFaults(r) = {}
         /\ \A s \in Member(j, "udmSliceData", "object") : UdmSliceDataFaults(s) = {}
<1>1. CASE UdmStaticDataFaults(j) = {}
  <2>1. /\ Mistyped(j, {"udmSliceProfileId", "subscribedUeAmbr", "serviceAreaRestriction"}, "object") = {}
        /\ Mistyped(j, UdmStaticDataFlags, "bool") = {}
        /\ Mistyped(j, UdmStaticDataNumbers \cup {"dlPacketCount", "ueUsageType"}, "int") = {}
        /\ UNION {ServiceAreaRestrictionFaults(r) :
                    r \in Member(j, "serviceAreaRestriction", "object")} = {}
        /\ UNION {UdmSliceDataFaults(s) : s \in Member(j, "udmSliceData", "object")} = {}
    BY <1>1, Zenon DEF UdmStaticDataFaults
  <2>2. /\ Mistyped(j, {"serviceAreaRestriction"}, "object") = {}
        /\ Mistyped(j, UdmStaticDataNumbers, "int") = {}
    BY <2>1 DEF Mistyped
  <2> QED
    BY <2>1, <2>2
<1>2. CASE DOMAIN j.object = {}
  BY <1>2, NothingIsRead DEF Mistyped
<1> QED
  BY <1>1, <1>2

LEMMA UdmStaticDataShaped ==
  ASSUME NEW j, UdmStaticDataFaults(j) = {} \/ DOMAIN j.object = {}, NEW uninitialized
  PROVE  UdmStaticDataShape(getUdmStaticData(j, uninitialized))
<1> DEFINE u == getUdmStaticData(j, uninitialized)
           ids == Member(j, "udmSliceProfileId", "object")
<1>1. u = [udmSliceProfileId |-> u.udmSliceProfileId, idOthers |-> u.idOthers,
           subscribedUeAmbr |-> u.subscribedUeAmbr, ratRestrictions |-> u.ratRestrictions,
           coreNetworkTypeRestrictions |-> u.coreNetworkTypeRestrictions,
           forbiddenAreas |-> u.forbiddenAreas,
           serviceAreaRestriction |-> u.serviceAreaRestriction,
           dlPacketCount |-> u.dlPacketCount, ueUsageType |-> u.ueUsageType,
           roamingOdb |-> u.roamingOdb, staticIpAddress |-> u.staticIpAddress,
           udmSliceData |-> u.udmSliceData, others |-> u.others]
  BY DEF getUdmStaticData
<1>2. /\ u.idOthers = IF ids = {} THEN NoMembers ELSE Carried(j.object["udmSliceProfileId"], {})
      /\ u.subscribedUeAmbr = {AmbrFromJson(r) : r \in Member(j, "subscribedUeAmbr", "object")}
      /\ u.ratRestrictions = Texts(j, "ratRestrictions")
      /\ u.coreNetworkTypeRestrictions = Texts(j, "coreNetworkTypeRestrictions")
      /\ u.forbiddenAreas = AreaReferencesFromJson(j, "forbiddenAreas")
      /\ u.serviceAreaRestriction = ServiceAreaRestrictionFromJson(j)
      /\ u.dlPacketCount = Optional(j, "dlPacketCount", "int")
      /\ u.ueUsageType = Optional(j, "ueUsageType", "int")
      /\ u.staticIpAddress = {StaticIpAddressFromJson(s, uninitialized) :
                                s \in Member(j, "staticIpAddress", "object")}
      /\ u.udmSliceData = {getPlmnIdSets(s) : s \in Member(j, "udmSliceData", "object")}
      /\ u.others = Carried(j, UdmStaticDataCarried)
  BY DEF getUdmStaticData, UdmStaticDataCarried
<1> HIDE DEF u, ids
<1>3. AreCarried(u.idOthers, {})
  BY <1>2, CarriedAre, NothingIsCarried
<1>4. AtMostOne(u.subscribedUeAmbr) /\ \A r \in u.subscribedUeAmbr : AmbrShape(r)
  BY <1>2, OneMember, AmbrShaped DEF AtMostOne
<1>5. IsFcn(u.ratRestrictions) /\ IsFcn(u.coreNetworkTypeRestrictions)
  BY <1>2, TextsAre
<1>6. AreasShape(u.forbiddenAreas)
  BY <1>2, AreasShaped
<1>7. ServiceAreaRestrictionShape(u.serviceAreaRestriction)
  BY <1>2, UdmStaticDataParts, ServiceAreaRestrictionShaped
<1>8. AtMostOne(u.dlPacketCount) /\ AtMostOne(u.ueUsageType)
  BY <1>2, OneMember DEF AtMostOne, Optional
<1>9. AtMostOne(u.staticIpAddress) /\ \A s \in u.staticIpAddress : StaticIpAddressShape(s)
  BY <1>2, OneMember, StaticIpAddressShaped DEF AtMostOne
<1>10. AtMostOne(u.udmSliceData) /\ \A sets \in u.udmSliceData : PlmnIdSetsShape(sets)
  <2>1. \A s \in Member(j, "udmSliceData", "object") : PlmnIdSetsShape(getPlmnIdSets(s))
    <3> SUFFICES ASSUME NEW s \in Member(j, "udmSliceData", "object")
                 PROVE  PlmnIdSetsShape(getPlmnIdSets(s))
      OBVIOUS
    <3>1. UdmSliceDataFaults(s) = {}
      BY UdmStaticDataParts
    <3>2. UNION {PlmnIdSetFaults(x, TRUE) : x \in Range(Elements(s, "plmnIdSets"))} = {}
      BY <3>1 DEF UdmSliceDataFaults
    <3> QED
      BY <3>2, PlmnIdSetsShaped
  <2> QED
    BY <1>2, <2>1, OneMember DEF AtMostOne
<1>11. AreCarried(u.others, UdmStaticDataCarried)
  BY <1>2, CarriedAre
<1>12. /\ \A n \in UdmStaticDataFlags \cap DOMAIN u.others : Is(u.others[n], "bool")
       /\ \A n \in UdmStaticDataNumbers \cap DOMAIN u.others : Is(u.others[n], "int")
  <2>1. \A n \in DOMAIN u.others : n \in DOMAIN j.object /\ u.others[n] = j.object[n]
    BY <1>2 DEF Carried
  <2>2. /\ Mistyped(j, UdmStaticDataFlags, "bool") = {}
        /\ Mistyped(j, UdmStaticDataNumbers, "int") = {}
    BY UdmStaticDataParts
  <2> QED
    BY <2>1, <2>2 DEF Mistyped, HasMember
<1>13. UdmStaticDataShape(u)
  BY <1>1, <1>3, <1>4, <1>5, <1>6, <1>7, <1>8, <1>9, <1>10, <1>11, <1>12 DEF UdmStaticDataShape
<1> QED
  BY <1>13 DEF u

(***************************************************************************)
(* Roaming areas and SMS subscriptions.                                    *)
(***************************************************************************)
LEMMA AreaShaped ==
  ASSUME NEW j
  PROVE  AreaShape(AreaFromJson(j))
  BY CarriedAre, TextsAre DEF AreaFromJson, AreaShape

LEMMA UdmRoamingAreaShaped ==
  ASSUME NEW j
  PROVE  UdmRoamingAreaShape(getUdmRoamingAreas(j))
<1> DEFINE areas == Elements(j, "areaList")
           area == getUdmRoamingAreas(j)
<1>1. /\ area = [udmRoamingAreaId |-> area.udmRoamingAreaId, areaList |-> area.areaList,
                 others |-> area.others]
      /\ area.areaList = [i \in DOMAIN areas |-> AreaFromJson(areas[i])]
      /\ AreCarried(area.others, {})
  BY CarriedAre DEF getUdmRoamingAreas
<1> HIDE DEF area, areas
<1>2. IsFcn(area.areaList) /\ \A i \in DOMAIN area.areaList : AreaShape(area.areaList[i])
  BY <1>1, AreaShaped DEF IsFcn
<1>3. UdmRoamingAreaShape(area)
  BY <1>1, <1>2 DEF UdmRoamingAreaShape
<1> QED
  BY <1>3 DEF area

LEMMA SmsShaped ==
  ASSUME NEW j
  PROVE  SmsShape(getOptionalSmsStaticData(j))
<1> DEFINE Of(a) == {s \in SmsSections : a \in AttributesOf(s)}
           read(a) == UNION {Optional(s, a, "bool") :
                               s \in UNION {Member(j, section, "object") : section \in Of(a)}}
           sms == getOptionalSmsStaticData(j)
<1>1. sms = [a \in SmsAttributes \cup {"sections", "others"} |->
               CASE a \in SmsAttributes -> read(a)
                 [] a = "sections" ->
                      [section \in SmsSections |->
                         {Carried(s, {}) : s \in Member(j, section, "object")}]
                 [] a = "others" -> Carried(j, {})]
  BY DEF getOptionalSmsStaticData
<1> HIDE DEF sms
<1>2. /\ sms = [a \in SmsAttributes \cup {"sections", "others"} |-> sms[a]]
      /\ \A a \in SmsAttributes : sms[a] = read(a)
      /\ sms.sections = [section \in SmsSections |->
                           {Carried(s, {}) : s \in Member(j, section, "object")}]
      /\ sms.others = Carried(j, {})
  <2>1. "sections" \notin SmsAttributes /\ "others" \notin SmsAttributes
    BY DEF SmsAttributes
  <2> HIDE DEF read
  <2> QED
    BY <1>1, <2>1
<1>3. \A a \in SmsAttributes : \E section \in SmsSections : Of(a) = {section}
  BY DEF SmsSections, AttributesOf, SmsAttributes
<1>4. ASSUME NEW a \in SmsAttributes, NEW section \in SmsSections, a \in AttributesOf(section)
      PROVE  read(a) = UNION {Optional(s, a, "bool") : s \in Member(j, section, "object")}
  <2>1. Of(a) = {section}
    BY <1>3, <1>4
  <2> QED
    BY <2>1
<1>5. \A a \in SmsAttributes : AtMostOne(sms[a])
  <2> SUFFICES ASSUME NEW a \in SmsAttributes PROVE AtMostOne(read(a))
    BY <1>2
  <2>1. PICK section \in SmsSections : a \in AttributesOf(section)
    BY <1>3
  <2>2. read(a) = UNION {Optional(s, a, "bool") : s \in Member(j, section, "object")}
    BY <1>4, <2>1
  <2> HIDE DEF read
  <2>3. \A s : AtMostOne(Optional(s, a, "bool"))
    BY OneMember DEF AtMostOne, Optional
  <2> QED
    BY <2>2, <2>3, OneMember DEF AtMostOne
<1>6. ASSUME NEW section \in SmsSections
      PROVE  /\ AtMostOne(sms.sections[section])
             /\ \A carried \in sms.sections[section] : AreCarried(carried, {})
             /\ sms.sections[section] = {} => \A a \in AttributesOf(section) : sms[a] = {}
  <2>1. sms.sections[section] = {Carried(s, {}) : s \in Member(j, section, "object")}
    BY <1>2
  <2>2. AttributesOf(section) \subseteq SmsAttributes
    BY DEF AttributesOf, SmsAttributes
  <2>3. sms.sections[section] = {} => \A a \in AttributesOf(section) : sms[a] = {}
    <3> SUFFICES ASSUME sms.sections[section] = {}, NEW a \in AttributesOf(section)
                 PROVE  sms[a] = {}
      OBVIOUS
    <3>1. Member(j, section, "object") = {}
      BY <2>1
    <3>2. read(a) = UNION {Optional(s, a, "bool") : s \in Member(j, section, "object")}
      BY <1>4, <2>2
    <3> HIDE DEF read
    <3> QED
      BY <1>2, <2>2, <3>1, <3>2
  <2> QED
    BY <2>1, <2>3, OneMember, CarriedAre DEF AtMostOne
<1>7. sms.sections = [section \in SmsSections |-> sms.sections[section]]
  BY <1>2
<1>8. AreCarried(sms.others, {})
  BY <1>2, CarriedAre
<1>9. SmsShape(sms)
  BY <1>2, <1>5, <1>6, <1>7, <1>8 DEF SmsShape
<1> QED
  BY <1>9 DEF sms

(***************************************************************************)
(* computeMutations gives an nssai a dnnListId, and changes nothing else.  *)
(***************************************************************************)
LEMMA IncludedNssais ==
  ASSUME NEW nssais, NssaisShape(nssais)
  PROVE  /\ NssaisShape(includeNssai(nssais))
         /\ DOMAIN includeNssai(nssais) = DOMAIN nssais
         /\ nssais = <<>> => includeNssai(nssais) = <<>>
<1> DEFINE included == includeNssai(nssais)
<1>1. /\ IsFcn(included)
      /\ DOMAIN included = DOMAIN nssais
      /\ \A i \in DOMAIN nssais :
           included[i] = IF nssais[i].dnnListId = ""
                         THEN [nssais[i] EXCEPT !.dnnListId = DEFAULT_VALUE] ELSE nssais[i]
  BY DEF includeNssai, IsFcn
<1> HIDE DEF included
<1>2. ASSUME NEW n, NssaiDetailsShape(n)
      PROVE  NssaiDetailsShape([n EXCEPT !.dnnListId = DEFAULT_VALUE])
  BY <1>2 DEF NssaiDetailsShape
<1>3. \A i \in DOMAIN included : NssaiDetailsShape(included[i])
  BY <1>1, <1>2 DEF NssaisShape
<1>4. nssais = <<>> => included = <<>>
  BY <1>1, EmptyList
<1>5. NssaisShape(included)
  BY <1>1, <1>3 DEF NssaisShape
<1> QED
  BY <1>1, <1>4, <1>5 DEF included

LEMMA MutatedSet ==
  ASSUME NEW set, PlmnIdSetShape(set)
  PROVE  LET mutated == [set EXCEPT !.defaultSingleNssais = includeNssai(@),
                                    !.singleNssais = includeNssai(@)]
         IN  PlmnIdSetShape(mutated) /\ mutated.dnnLists = set.dnnLists
<1> DEFINE D == includeNssai(set.defaultSingleNssais)
           S == includeNssai(set.singleNssais)
           mutated == [set EXCEPT !.defaultSingleNssais = includeNssai(@),
                                  !.singleNssais = includeNssai(@)]
<1>1. SliceInfoShape(set)
  BY DEF PlmnIdSetShape
<1>2. /\ NssaisShape(D) /\ DOMAIN D = DOMAIN set.defaultSingleNssais
      /\ NssaisShape(S)
      /\ set.defaultSingleNssais = <<>> => D = <<>>
      /\ set.singleNssais = <<>> => S = <<>>
  BY <1>1, IncludedNssais DEF SliceInfoShape
<1>3. set = [plmnIdSetIdentifier |-> set.plmnIdSetIdentifier,
             defaultSingleNssais |-> set.defaultSingleNssais, singleNssais |-> set.singleNssais,
             nssaiOthers |-> set.nssaiOthers, dnnLists |-> set.dnnLists, others |-> set.others]
  BY DEF PlmnIdSetShape
<1>4. mutated = [plmnIdSetIdentifier |-> set.plmnIdSetIdentifier,
                 defaultSingleNssais |-> D, singleNssais |-> S,
                 nssaiOthers |-> set.nssaiOthers, dnnLists |-> set.dnnLists, others |-> set.others]
  <2>1. mutated = [[set EXCEPT !.defaultSingleNssais = D] EXCEPT !.singleNssais = S]
    BY Zenon
  <2>2. ASSUME NEW id, NEW x, NEW y, NEW nssaiOthers, NEW lists, NEW others, NEW d
        PROVE  [[plmnIdSetIdentifier |-> id, defaultSingleNssais |-> x, singleNssais |-> y,
                 nssaiOthers |-> nssaiOthers, dnnLists |-> lists, others |-> others]
                  EXCEPT !.defaultSingleNssais = d]
               = [plmnIdSetIdentifier |-> id, defaultSingleNssais |-> d, singleNssais |-> y,
                  nssaiOthers |-> nssaiOthers, dnnLists |-> lists, others |-> others]
    OBVIOUS
  <2>3. ASSUME NEW id, NEW x, NEW y, NEW nssaiOthers, NEW lists, NEW others, NEW s
        PROVE  [[plmnIdSetIdentifier |-> id, defaultSingleNssais |-> x, singleNssais |-> y,
                 nssaiOthers |-> nssaiOthers, dnnLists |-> lists, others |-> others]
                  EXCEPT !.singleNssais = s]
               = [plmnIdSetIdentifier |-> id, defaultSingleNssais |-> x, singleNssais |-> s,
                  nssaiOthers |-> nssaiOthers, dnnLists |-> lists, others |-> others]
    OBVIOUS
  <2> HIDE DEF D, S, mutated
  <2> QED
    BY <1>3, <2>1, <2>2, <2>3, Zenon
<1> HIDE DEF D, S, mutated
<1>5. SliceInfoShape(mutated)
  BY <1>1, <1>2, <1>4 DEF SliceInfoShape
<1>6. /\ mutated = [plmnIdSetIdentifier |-> mutated.plmnIdSetIdentifier,
                    defaultSingleNssais |-> mutated.defaultSingleNssais,
                    singleNssais |-> mutated.singleNssais, nssaiOthers |-> mutated.nssaiOthers,
                    dnnLists |-> mutated.dnnLists, others |-> mutated.others]
      /\ mutated.dnnLists = set.dnnLists
      /\ mutated.others = set.others
  BY <1>4
<1>7. PlmnIdSetShape(mutated)
  BY <1>5, <1>6 DEF PlmnIdSetShape
<1> QED
  BY <1>6, <1>7 DEF mutated

LEMMA MutatedSets ==
  ASSUME NEW sets, PlmnIdSetsShape(sets), AllDnnListsPass(sets)
  PROVE  PlmnIdSetsShape(MutateSets(sets)) /\ AllDnnListsPass(MutateSets(sets))
<1> DEFINE mutated(i) == [sets[i] EXCEPT !.defaultSingleNssais = includeNssai(@),
                                         !.singleNssais = includeNssai(@)]
<1>1. MutateSets(sets) = [i \in DOMAIN sets |-> mutated(i)]
  BY DEF MutateSets
<1>2. \A i \in DOMAIN sets : PlmnIdSetShape(mutated(i)) /\ mutated(i).dnnLists = sets[i].dnnLists
  BY MutatedSet DEF PlmnIdSetsShape
<1> HIDE DEF mutated
<1>3. PlmnIdSetsShape(MutateSets(sets))
  BY <1>1, <1>2 DEF PlmnIdSetsShape, IsFcn
<1>4. AllDnnListsPass(MutateSets(sets))
  BY <1>1, <1>2 DEF AllDnnListsPass, DnnListsPass
<1> QED
  BY <1>3, <1>4

(***************************************************************************)
(* What a change that passes its rules has that its JSON needs.            *)
(***************************************************************************)
LEMMA CommonRulesPass ==
  ASSUME NEW sets, NEW isSliceProfile, CommonUnlessEmpty(sets, isSliceProfile) = {}
  PROVE  AllDnnListsPass(sets)
<1>1. CASE sets = <<>>
  BY <1>1 DEF AllDnnListsPass
<1>2. CASE sets # <<>>
  <2>1. checkForCommonUdmSliceProfileRules(sets, isSliceProfile) = {}
    BY <1>2 DEF CommonUnlessEmpty
  <2>2. (UNION {PlmnIdSetErrors(s, isSliceProfile) : s \in Range(sets)}) = {}
    BY <2>1 DEF checkForCommonUdmSliceProfileRules
  <2>3. \A i \in DOMAIN sets : PlmnIdSetErrors(sets[i], isSliceProfile) = {}
    BY <2>2 DEF Range
  <2>4. ASSUME NEW set, PlmnIdSetErrors(set, isSliceProfile) = {}
        PROVE  DnnListsPass(set)
    <3>1. (UNION {DnnListErrors(l) : l \in Range(set.dnnLists)}) = {}
      BY <2>4 DEF PlmnIdSetErrors
    <3> QED
      BY <3>1 DEF DnnListsPass, Range
  <2> QED
    BY <2>3, <2>4 DEF AllDnnListsPass
<1> QED
  BY <1>1, <1>2

LEMMA ConflictValid ==
  ASSUME NEW errors
  PROVE  Conflict(errors).valid <=> errors = {}
  BY Zenon DEF Conflict

LEMMA UnprocessableNotValid ==
  ASSUME NEW errors
  PROVE  ~Unprocessable(errors).valid
  BY DEF Unprocessable

LEMMA SliceProfileCommon ==
  ASSUME NEW c, NEW related, UdmSliceProfileRules(c, related).valid
  PROVE  CommonUnlessEmpty(c.data.plmnIdSets, TRUE) = {}
<1> DEFINE sets == c.data.plmnIdSets
<1>1. CommonUnlessEmpty(sets, TRUE) = {}
  <2>1. CASE c.operation = "CREATE"
    <3>1. Conflict(CommonUnlessEmpty(sets, TRUE) \cup checkForRepeatedDnnsandNssais(sets)).valid
      BY <2>1, Zenon DEF UdmSliceProfileRules, checkForCreationUdmSliceProfileRules
    <3> QED
      BY <3>1, ConflictValid
  <2>2. CASE c.operation # "CREATE"
    <3> DEFINE stored == RelatedResource(related, c.path)
    <3>1. checkForUpdateUdmSliceProfileRules(c.data, stored).valid
      BY <2>2 DEF UdmSliceProfileRules
    <3> HIDE DEF stored
    <3>2. stored # {}
      BY <3>1, UnprocessableNotValid DEF checkForUpdateUdmSliceProfileRules
    <3>3. Conflict(CommonUnlessEmpty(sets, TRUE)
                   \cup UNION {checkForUpdateSpecificUdmSliceProfileRules(sets, r) :
                                 r \in stored}).valid
      BY <3>1, <3>2, Zenon DEF checkForUpdateUdmSliceProfileRules
    <3> QED
      BY <3>3, ConflictValid
  <2> QED
    BY <2>1, <2>2
<1> QED
  BY <1>1

LEMMA SliceProfilePasses ==
  ASSUME NEW c, NEW related, UdmSliceProfileRules(c, related).valid
  PROVE  AllDnnListsPass(c.data.plmnIdSets)
  BY SliceProfileCommon, CommonRulesPass

LEMMA CheckedAgainstPasses ==
  ASSUME NEW u, NEW profiles, NEW errors, CheckedAgainst(u, profiles, errors).valid
  PROVE  \E p \in profiles : checkForCommonUdmSubscriptionRules(u, p) = {}
<1>1. profiles # {}
  BY UnprocessableNotValid DEF CheckedAgainst
<1>2. Conflict(errors \cup UNION {checkForCommonUdmSubscriptionRules(u, p) : p \in profiles}).valid
  BY <1>1, Zenon DEF CheckedAgainst
<1>3. \A p \in profiles : checkForCommonUdmSubscriptionRules(u, p) = {}
  BY <1>2, ConflictValid
<1> QED
  BY <1>1, <1>3

LEMMA SubscriptionCommon ==
  ASSUME NEW c, NEW related, UdmStaticDataRules(c, related).valid
  PROVE  \E p : checkForCommonUdmSubscriptionRules(c.data, p) = {}
<1> DEFINE u == c.data
           profiles == getRelatedUdmSliceProfile(related, u.udmSliceProfileId)
<1>1. CASE c.operation = "CREATE"
  <2> DEFINE journal == ProvJournal(related, c.path)
  <2>1. checkForCreationUdmSubscriptionRules(u, journal, profiles).valid
    BY <1>1 DEF UdmStaticDataRules
  <2> HIDE DEF journal, profiles
  <2>2. PICK errors : CheckedAgainst(u, profiles, errors).valid
    BY <2>1, UnprocessableNotValid DEF checkForCreationUdmSubscriptionRules
  <2> QED
    BY <2>2, CheckedAgainstPasses
<1>2. CASE c.operation # "CREATE"
  <2> DEFINE stored == RelatedResource(related, c.path)
  <2>1. checkForUpdateUdmSubscriptionRules(u, stored, profiles).valid
    BY <1>2 DEF UdmStaticDataRules
  <2> HIDE DEF stored, profiles
  <2>2. CheckedAgainst(u, profiles, {}).valid
    BY <2>1, UnprocessableNotValid DEF checkForUpdateUdmSubscriptionRules
  <2> QED
    BY <2>2, CheckedAgainstPasses
<1> QED
  BY <1>1, <1>2

LEMMA SubscriptionPasses ==
  ASSUME NEW c, NEW related, UdmStaticDataRules(c, related).valid
  PROVE  \A sets \in c.data.udmSliceData : AllDnnListsPass(sets)
<1>1. PICK p : checkForCommonUdmSubscriptionRules(c.data, p) = {}
  BY SubscriptionCommon
<1>2. \A sets \in c.data.udmSliceData : UdmSliceDataErrors(sets, p) = {}
  BY <1>1 DEF checkForCommonUdmSubscriptionRules
<1>3. \A sets \in c.data.udmSliceData : CommonUnlessEmpty(sets, FALSE) = {}
  BY <1>2 DEF UdmSliceDataErrors
<1> QED
  BY <1>3, CommonRulesPass

LEMMA RoamingAreaPasses ==
  ASSUME NEW c, NEW related, UdmRoamingAreaRules(c, related).valid
  PROVE  checkForCommonUdmRoamingAreaRules(c.data) = {}
  BY ConflictValid, UnprocessableNotValid
  DEF UdmRoamingAreaRules, checkForCreationUdmRoamingAreaRules, checkForUpdateUdmRoamingAreaRules

(***************************************************************************)
(* What the answer has for a change.                                       *)
(***************************************************************************)
LEMMA MutatedChange ==
  ASSUME NEW c, c.operation # "DELETE",
         c = [operation |-> c.operation, path |-> c.path, data |-> c.data]
  PROVE  LET m == computeMutations(c)
         IN  /\ m.operation = c.operation
             /\ m.path = c.path
             /\ c.path.kind = "udmSliceProfile" =>
                  m.data = [c.data EXCEPT !.plmnIdSets = MutateSets(c.data.plmnIdSets)]
             /\ c.path.kind = "udmStaticData" =>
                  m.data = [c.data EXCEPT !.udmSliceData =
                              {MutateSets(sets) : sets \in c.data.udmSliceData}]
             /\ c.path.kind \notin {"udmSliceProfile", "udmStaticData"} => m.data = c.data
<1> DEFINE m == computeMutations(c)
<1>1. DOMAIN c = {"operation", "path", "data"}
  OBVIOUS
<1>2. CASE c.path.kind = "udmSliceProfile"
  <2> DEFINE d == [c.data EXCEPT !.plmnIdSets = MutateSets(c.data.plmnIdSets)]
  <2>1. m = [c EXCEPT !.data.plmnIdSets = MutateSets(@)]
    BY <1>1, <1>2, Zenon DEF computeMutations
  <2>2. m = [c EXCEPT !.data = d]
    BY <1>1, <2>1
  <2> HIDE DEF d
  <2>3. m.operation = c.operation /\ m.path = c.path /\ m.data = d
    BY <2>2
  <2> QED
    BY <1>2, <2>3 DEF d
<1>3. CASE c.path.kind = "udmStaticData"
  <2> DEFINE d == [c.data EXCEPT !.udmSliceData = {MutateSets(sets) : sets \in c.data.udmSliceData}]
  <2>1. m = [c EXCEPT !.data.udmSliceData = {MutateSets(sets) : sets \in @}]
    BY <1>1, <1>3, Zenon DEF computeMutations
  <2>2. m = [c EXCEPT !.data = d]
    BY <1>1, <2>1
  <2> HIDE DEF d
  <2>3. m.operation = c.operation /\ m.path = c.path /\ m.data = d
    BY <2>2
  <2> QED
    BY <1>3, <2>3 DEF d
<1>4. CASE c.path.kind \notin {"udmSliceProfile", "udmStaticData"}
  <2>1. m = c
    BY <1>1, <1>4 DEF computeMutations
  <2> QED
    BY <1>4, <2>1
<1> QED
  BY <1>2, <1>3, <1>4

LEMMA MutatedProfile ==
  ASSUME NEW p, UdmSliceProfileShape(p), NEW sets, PlmnIdSetsShape(sets)
  PROVE  LET m == [p EXCEPT !.plmnIdSets = sets]
         IN  UdmSliceProfileShape(m) /\ m.plmnIdSets = sets
<1> DEFINE m == [p EXCEPT !.plmnIdSets = sets]
<1>1. ASSUME NEW id, NEW x, NEW others
      PROVE  [[udmSliceProfileId |-> id, plmnIdSets |-> x, others |-> others]
                EXCEPT !.plmnIdSets = sets]
             = [udmSliceProfileId |-> id, plmnIdSets |-> sets, others |-> others]
  OBVIOUS
<1>2. m = [udmSliceProfileId |-> p.udmSliceProfileId, plmnIdSets |-> sets, others |-> p.others]
  <2> DEFINE r == [udmSliceProfileId |-> p.udmSliceProfileId, plmnIdSets |-> p.plmnIdSets,
                   others |-> p.others]
  <2>1. p = r
    BY DEF UdmSliceProfileShape
  <2>2. [r EXCEPT !.plmnIdSets = sets]
        = [udmSliceProfileId |-> p.udmSliceProfileId, plmnIdSets |-> sets, others |-> p.others]
    BY <1>1
  <2> HIDE DEF r
  <2> QED
    BY <2>1, <2>2
<1>3. AreCarried(p.others, {})
  BY DEF UdmSliceProfileShape
<1> HIDE DEF m
<1>4. UdmSliceProfileShape(m) /\ m.plmnIdSets = sets
  BY <1>2, <1>3 DEF UdmSliceProfileShape
<1> QED
  BY <1>4 DEF m

LEMMA MutatedSubscription ==
  ASSUME NEW u, UdmStaticDataShape(u), NEW data, AtMostOne(data),
         \A sets \in data : PlmnIdSetsShape(sets)
  PROVE  LET m == [u EXCEPT !.udmSliceData = data]
         IN  /\ UdmStaticDataShape(m)
             /\ m.udmSliceData = data
             /\ m.staticIpAddress = u.staticIpAddress
<1> DEFINE m == [u EXCEPT !.udmSliceData = data]
<1>1. ASSUME NEW a, NEW b, NEW c, NEW d, NEW e, NEW f, NEW g, NEW h, NEW i, NEW k, NEW l, NEW s,
             NEW others
      PROVE  [[udmSliceProfileId |-> a, idOthers |-> b, subscribedUeAmbr |-> c,
               ratRestrictions |-> d, coreNetworkTypeRestrictions |-> e, forbiddenAreas |-> f,
               serviceAreaRestriction |-> g, dlPacketCount |-> h, ueUsageType |-> i,
               roamingOdb |-> k, staticIpAddress |-> l, udmSliceData |-> s, others |-> others]
                EXCEPT !.udmSliceData = data]
             = [udmSliceProfileId |-> a, idOthers |-> b, subscribedUeAmbr |-> c,
                ratRestrictions |-> d, coreNetworkTypeRestrictions |-> e, forbiddenAreas |-> f,
                serviceAreaRestriction |-> g, dlPacketCount |-> h, ueUsageType |-> i,
                roamingOdb |-> k, staticIpAddress |-> l, udmSliceData |-> data, others |-> others]
  OBVIOUS
<1>2. m = [udmSliceProfileId |-> u.udmSliceProfileId, idOthers |-> u.idOthers,
           subscribedUeAmbr |-> u.subscribedUeAmbr, ratRestrictions |-> u.ratRestrictions,
           coreNetworkTypeRestrictions |-> u.coreNetworkTypeRestrictions,
           forbiddenAreas |-> u.forbiddenAreas,
           serviceAreaRestriction |-> u.serviceAreaRestriction,
           dlPacketCount |-> u.dlPacketCount, ueUsageType |-> u.ueUsageType,
           roamingOdb |-> u.roamingOdb, staticIpAddress |-> u.staticIpAddress,
           udmSliceData |-> data, others |-> u.others]
  <2> DEFINE With(x) ==
               [udmSliceProfileId |-> u.udmSliceProfileId, idOthers |-> u.idOthers,
                subscribedUeAmbr |-> u.subscribedUeAmbr, ratRestrictions |-> u.ratRestrictions,
                coreNetworkTypeRestrictions |-> u.coreNetworkTypeRestrictions,
                forbiddenAreas |-> u.forbiddenAreas,
                serviceAreaRestriction |-> u.serviceAreaRestriction,
                dlPacketCount |-> u.dlPacketCount, ueUsageType |-> u.ueUsageType,
                roamingOdb |-> u.roamingOdb, staticIpAddress |-> u.staticIpAddress,
                udmSliceData |-> x, others |-> u.others]
  <2>1. u = With(u.udmSliceData)
    BY DEF UdmStaticDataShape
  <2>2. [With(u.udmSliceData) EXCEPT !.udmSliceData = data] = With(data)
    BY <1>1
  <2> DEFINE r == With(u.udmSliceData)
  <2>3. u = r /\ [r EXCEPT !.udmSliceData = data] = With(data)
    BY <2>1, <2>2
  <2> HIDE DEF r
  <2> QED
    BY <2>3
<1> HIDE DEF m
<1>3. m = [udmSliceProfileId |-> m.udmSliceProfileId, idOthers |-> m.idOthers,
           subscribedUeAmbr |-> m.subscribedUeAmbr, ratRestrictions |-> m.ratRestrictions,
           coreNetworkTypeRestrictions |-> m.coreNetworkTypeRestrictions,
           forbiddenAreas |-> m.forbiddenAreas,
           serviceAreaRestriction |-> m.serviceAreaRestriction,
           dlPacketCount |-> m.dlPacketCount, ueUsageType |-> m.ueUsageType,
           roamingOdb |-> m.roamingOdb, staticIpAddress |-> m.staticIpAddress,
           udmSliceData |-> m.udmSliceData, others |-> m.others]
  BY <1>2
<1>4. /\ m.idOthers = u.idOthers /\ m.subscribedUeAmbr = u.subscribedUeAmbr
      /\ m.ratRestrictions = u.ratRestrictions
      /\ m.coreNetworkTypeRestrictions = u.coreNetworkTypeRestrictions
      /\ m.forbiddenAreas = u.forbiddenAreas
      /\ m.serviceAreaRestriction = u.serviceAreaRestriction
      /\ m.dlPacketCount = u.dlPacketCount /\ m.ueUsageType = u.ueUsageType
      /\ m.staticIpAddress = u.staticIpAddress
      /\ m.udmSliceData = data
      /\ m.others = u.others
  BY <1>2
<1>5. UdmStaticDataShape(m)
  BY <1>3, <1>4 DEF UdmStaticDataShape
<1> QED
  BY <1>4, <1>5 DEF m

(***************************************************************************)
(* A resource of a kind with rules, as the parser makes it and the rules   *)
(* leave it.                                                               *)
(***************************************************************************)
ReadableResource(kind, resource) ==
  \/ /\ kind = "udmSliceProfile"
     /\ UdmSliceProfileShape(resource) /\ AllDnnListsPass(resource.plmnIdSets)
  \/ /\ kind = "udmStaticData"
     /\ UdmStaticDataShape(resource)
     /\ \A sets \in resource.udmSliceData : AllDnnListsPass(sets)
  \/ /\ kind = "udmRoamingArea"
     /\ UdmRoamingAreaShape(resource) /\ checkForCommonUdmRoamingAreaRules(resource) = {}
  \/ kind = "smsStaticData" /\ SmsShape(resource)

KindsWithRules == {"udmSliceProfile", "udmStaticData", "udmRoamingArea", "smsStaticData"}

LEMMA ResourceReadsBack ==
  ASSUME NEW kind, NEW resource, ReadableResource(kind, resource)
  PROVE  LET j == ResourceToJson(kind, resource)
         IN  /\ Is(j, "object")
             /\ ResourceFaults(kind, j) \subseteq EmptiedNames
             /\ StaticIpIsWritten(kind, resource) =>
                  \A memory : ResourceFromJson(kind, j, memory) = resource
<1> DEFINE j == ResourceToJson(kind, resource)
<1>1. CASE kind = "udmSliceProfile"
  <2>1. j = udmSliceProfileToJson(resource) /\ ResourceFaults(kind, j) = UdmSliceProfileFaults(j)
        /\ \A memory : ResourceFromJson(kind, j, memory) = getUdmSliceProfile(j)
    BY <1>1 DEF ResourceToJson, ResourceFaults, ResourceFromJson
  <2> HIDE DEF j
  <2> QED
    BY <1>1, <2>1, UdmSliceProfileRead DEF ReadableResource, j
<1>2. CASE kind = "udmStaticData"
  <2>1. j = udmStaticDataToJson(resource) /\ ResourceFaults(kind, j) = UdmStaticDataFaults(j)
        /\ \A memory : ResourceFromJson(kind, j, memory) = getUdmStaticData(j, memory)
    BY <1>2 DEF ResourceToJson, ResourceFaults, ResourceFromJson
  <2> HIDE DEF j
  <2> QED
    BY <1>2, <2>1, UdmStaticDataRead DEF ReadableResource, StaticIpIsWritten, j
<1>3. CASE kind = "udmRoamingArea"
  <2>1. j = udmRoamingAreaToJson(resource) /\ ResourceFaults(kind, j) = UdmRoamingAreaFaults(j)
        /\ \A memory : ResourceFromJson(kind, j, memory) = getUdmRoamingAreas(j)
    BY <1>3 DEF ResourceToJson, ResourceFaults, ResourceFromJson
  <2> HIDE DEF j
  <2> QED
    BY <1>3, <2>1, UdmRoamingAreaRead DEF ReadableResource, j
<1>4. CASE kind = "smsStaticData"
  <2>1. j = smsStaticDataToJson(resource) /\ ResourceFaults(kind, j) = SmsStaticDataFaults(j)
        /\ \A memory : ResourceFromJson(kind, j, memory) = getOptionalSmsStaticData(j)
    BY <1>4 DEF ResourceToJson, ResourceFaults, ResourceFromJson
  <2> HIDE DEF j
  <2> QED
    BY <1>4, <2>1, SmsRead DEF ReadableResource, j
<1> QED
  BY <1>1, <1>2, <1>3, <1>4 DEF ReadableResource

(***************************************************************************)
(* What a change holds is what was read from faultless data, or from none. *)
(***************************************************************************)
LEMMA DataOfChange ==
  ASSUME NEW members, NEW uninitialized, ChangeFaults(members) = {}
  PROVE  LET c == ChangeFromJson(members, uninitialized)
         IN  /\ c = [operation |-> c.operation, path |-> c.path, data |-> c.data]
             /\ c.path = PathOf(members)
             /\ \E j : /\ ResourceFaults(c.path.kind, j) = {} \/ DOMAIN j.object = {}
                       /\ c.data = ResourceFromJson(c.path.kind, j, uninitialized)
<1> DEFINE kind == PathOf(members).kind
           data == IF DataRead(members) = {} THEN EmptyObject
                   ELSE CHOOSE d \in DataRead(members) : TRUE
           c == ChangeFromJson(members, uninitialized)
<1>1. /\ c = [operation |-> c.operation, path |-> c.path, data |-> c.data]
      /\ c.path = PathOf(members)
      /\ c.data = ResourceFromJson(kind, data, uninitialized)
  BY DEF ChangeFromJson
<1>2. ResourceFaults(kind, data) = {} \/ DOMAIN data.object = {}
  <2>1. CASE DataRead(members) = {}
    <3>1. DOMAIN EmptyObject.object = {}
      BY DEF EmptyObject, NoMembers
    <3> QED
      BY <2>1, <3>1
  <2>2. CASE DataRead(members) # {}
    <3>1. data \in DataRead(members)
      BY <2>2
    <3> HIDE DEF data, kind
    <3>2. UNION {ResourceFaults(kind, d) : d \in DataRead(members)} = {}
      BY DEF ChangeFaults, kind
    <3> QED
      BY <3>1, <3>2
  <2> QED
    BY <2>1, <2>2
<1> HIDE DEF data, c
<1> QED
  BY <1>1, <1>2 DEF c

LEMMA PassingResource ==
  ASSUME NEW c, NEW related, c.operation # "DELETE", CheckChange(c, related).valid,
         NEW j, ResourceFaults(c.path.kind, j) = {} \/ DOMAIN j.object = {},
         NEW uninitialized, c.data = ResourceFromJson(c.path.kind, j, uninitialized)
  PROVE  /\ ReadableResource(c.path.kind, c.data)
         /\ c.path.kind \in PathKinds
<1>1. CASE c.path.kind = "udmSliceProfile"
  <2>1. CheckChange(c, related) = UdmSliceProfileRules(c, related)
    BY <1>1 DEF CheckChange
  <2>2. c.data = getUdmSliceProfile(j)
    BY <1>1 DEF ResourceFromJson
  <2>3. UdmSliceProfileFaults(j) = {}
    <3>1. CASE DOMAIN j.object = {}
      <4>1. Elements(j, "plmnIdSets") = <<>>
        BY <3>1, NothingIsRead
      <4>2. Range(Elements(j, "plmnIdSets")) = {}
        BY <4>1 DEF Range
      <4>3. Mistyped(j, {"udmSliceProfileId"}, "string") = {}
        BY <3>1 DEF Mistyped, HasMember
      <4> QED
        BY <4>2, <4>3 DEF UdmSliceProfileFaults
    <3> QED
      BY <1>1, <3>1 DEF ResourceFaults
  <2>4. UdmSliceProfileShape(c.data)
    BY <2>2, <2>3, UdmSliceProfileShaped
  <2> QED
    BY <1>1, <2>1, <2>4, SliceProfilePasses DEF ReadableResource, PathKinds
<1>2. CASE c.path.kind = "udmStaticData"
  <2>1. CheckChange(c, related) = UdmStaticDataRules(c, related)
    BY <1>2 DEF CheckChange
  <2>2. c.data = getUdmStaticData(j, uninitialized)
    BY <1>2 DEF ResourceFromJson
  <2>3. UdmStaticDataFaults(j) = {} \/ DOMAIN j.object = {}
    BY <1>2 DEF ResourceFaults
  <2>4. UdmStaticDataShape(c.data)
    BY <2>2, <2>3, UdmStaticDataShaped
  <2> QED
    BY <1>2, <2>1, <2>4, SubscriptionPasses DEF ReadableResource, PathKinds
<1>3. CASE c.path.kind = "udmRoamingArea"
  <2>1. CheckChange(c, related) = UdmRoamingAreaRules(c, related)
    BY <1>3 DEF CheckChange
  <2>2. c.data = getUdmRoamingAreas(j)
    BY <1>3 DEF ResourceFromJson
  <2>3. UdmRoamingAreaShape(c.data)
    BY <2>2, UdmRoamingAreaShaped
  <2> QED
    BY <1>3, <2>1, <2>3, RoamingAreaPasses DEF ReadableResource, PathKinds
<1>4. CASE c.path.kind = "smsStaticData"
  <2>1. c.data = getOptionalSmsStaticData(j)
    BY <1>4 DEF ResourceFromJson
  <2> QED
    BY <1>4, <2>1, SmsShaped DEF ReadableResource, PathKinds
<1>5. CASE c.path.kind \notin {"udmSliceProfile", "udmStaticData", "udmRoamingArea", "smsStaticData"}
  <2>1. CheckChange(c, related) = Unprocessable({"unexpectedPath"})
    BY <1>5 DEF CheckChange
  <2> QED
    BY <2>1, UnprocessableNotValid
<1> QED
  BY <1>1, <1>2, <1>3, <1>4, <1>5

LEMMA MutatedResource ==
  ASSUME NEW c, c.operation # "DELETE",
         c = [operation |-> c.operation, path |-> c.path, data |-> c.data],
         ReadableResource(c.path.kind, c.data)
  PROVE  LET m == computeMutations(c)
         IN  /\ m.operation = c.operation
             /\ m.path = c.path
             /\ ReadableResource(c.path.kind, m.data)
             /\ StaticIpIsWritten(c.path.kind, m.data) <=> StaticIpIsWritten(c.path.kind, c.data)
<1> DEFINE m == computeMutations(c)
           kind == c.path.kind
           data == c.data
<1>1. /\ m.operation = c.operation
      /\ m.path = c.path
      /\ kind = "udmSliceProfile" =>
           m.data = [data EXCEPT !.plmnIdSets = MutateSets(data.plmnIdSets)]
      /\ kind = "udmStaticData" =>
           m.data = [data EXCEPT !.udmSliceData = {MutateSets(sets) : sets \in data.udmSliceData}]
      /\ kind \notin {"udmSliceProfile", "udmStaticData"} => m.data = data
  BY MutatedChange
<1>2. ReadableResource(kind, data)
  OBVIOUS
<1> HIDE DEF m, kind, data
<1>3. ASSUME kind = "udmSliceProfile"
      PROVE  /\ ReadableResource(kind, m.data)
             /\ StaticIpIsWritten(kind, m.data) <=> StaticIpIsWritten(kind, data)
  <2>1. m.data = [data EXCEPT !.plmnIdSets = MutateSets(data.plmnIdSets)]
    BY <1>1, <1>3
  <2>2. UdmSliceProfileShape(data) /\ AllDnnListsPass(data.plmnIdSets)
    BY <1>3, <1>2 DEF ReadableResource
  <2> DEFINE sets == MutateSets(data.plmnIdSets)
  <2>3. PlmnIdSetsShape(sets) /\ AllDnnListsPass(sets)
    BY <2>2, MutatedSets DEF UdmSliceProfileShape
  <2> HIDE DEF sets
  <2>4. UdmSliceProfileShape(m.data) /\ m.data.plmnIdSets = sets
    BY <2>1, <2>2, <2>3, MutatedProfile DEF sets
  <2>5. ReadableResource(kind, m.data)
    BY <1>3, <2>3, <2>4 DEF ReadableResource
  <2> QED
    BY <1>3, <2>5 DEF StaticIpIsWritten
<1>4. ASSUME kind = "udmStaticData"
      PROVE  /\ ReadableResource(kind, m.data)
             /\ StaticIpIsWritten(kind, m.data) <=> StaticIpIsWritten(kind, data)
  <2> DEFINE new == {MutateSets(sets) : sets \in data.udmSliceData}
  <2>1. m.data = [data EXCEPT !.udmSliceData = new]
    BY <1>1, <1>4, Zenon
  <2>2. UdmStaticDataShape(data) /\ \A sets \in data.udmSliceData : AllDnnListsPass(sets)
    BY <1>4, <1>2 DEF ReadableResource
  <2>3. AtMostOne(data.udmSliceData) /\ \A sets \in data.udmSliceData : PlmnIdSetsShape(sets)
    BY <2>2 DEF UdmStaticDataShape
  <2>4. AtMostOne(new) /\ \A sets \in new : PlmnIdSetsShape(sets) /\ AllDnnListsPass(sets)
    BY <2>2, <2>3, MutatedSets DEF AtMostOne
  <2> HIDE DEF new
  <2>5. /\ UdmStaticDataShape(m.data)
        /\ m.data.udmSliceData = new
        /\ m.data.staticIpAddress = data.staticIpAddress
    BY <2>1, <2>2, <2>4, MutatedSubscription
  <2>6. ReadableResource(kind, m.data)
    BY <1>4, <2>4, <2>5 DEF ReadableResource
  <2> QED
    BY <2>5, <2>6 DEF StaticIpIsWritten
<1>5. ASSUME kind \notin {"udmSliceProfile", "udmStaticData"}
      PROVE  /\ ReadableResource(kind, m.data)
             /\ StaticIpIsWritten(kind, m.data) <=> StaticIpIsWritten(kind, data)
  <2>1. m.data = data
    BY <1>1, <1>5
  <2> QED
    BY <1>2, <2>1
<1> QED
  BY <1>1, <1>3, <1>4, <1>5 DEF m, kind, data

(***************************************************************************)
(* Whatever data a change has, if it can be read and passes the rules, the *)
(* data of its answer can be read too, but for mandatory members that were *)
(* empty, and what is read is what the rules were applied to, with the     *)
(* dnnListIds of computeMutations: the parser of the next request and the  *)
(* rules of this one speak of the same resource. Where a static IP address *)
(* has an element with an empty dnn after one with another, or an empty    *)
(* address, it does not (StaticIpIsWritten).                               *)
(***************************************************************************)
THEOREM AcceptedDataReadsBack ==
  ASSUME NEW members, NEW uninitialized, NEW related, ChangeFaults(members) = {},
         LET c == ChangeFromJson(members, uninitialized)
         IN  c.operation # "DELETE" /\ CheckChange(c, related).valid
  PROVE  LET c == ChangeFromJson(members, uninitialized)
             m == computeMutations(c)
             j == ResourceToJson(c.path.kind, m.data)
         IN  /\ m.operation = c.operation
             /\ m.path = c.path
             /\ c.path.kind \in KindsWithRules
             /\ Is(j, "object")
             /\ ResourceFaults(c.path.kind, j) \subseteq EmptiedNames
             /\ StaticIpIsWritten(c.path.kind, c.data) =>
                  \A memory : ResourceFromJson(c.path.kind, j, memory) = m.data
<1> DEFINE c == ChangeFromJson(members, uninitialized)
           m == computeMutations(c)
<1>1. /\ c = [operation |-> c.operation, path |-> c.path, data |-> c.data]
      /\ \E j : /\ ResourceFaults(c.path.kind, j) = {} \/ DOMAIN j.object = {}
                /\ c.data = ResourceFromJson(c.path.kind, j, uninitialized)
  BY DataOfChange
<1>2. c.operation # "DELETE" /\ CheckChange(c, related).valid
  OBVIOUS
<1> HIDE DEF c
<1>3. ReadableResource(c.path.kind, c.data) /\ c.path.kind \in KindsWithRules
  BY <1>1, <1>2, PassingResource DEF ReadableResource, KindsWithRules
<1>5. /\ m.operation = c.operation
      /\ m.path = c.path
      /\ ReadableResource(c.path.kind, m.data)
      /\ StaticIpIsWritten(c.path.kind, m.data) <=> StaticIpIsWritten(c.path.kind, c.data)
  BY <1>1, <1>2, <1>3, MutatedResource
<1> HIDE DEF m
<1>6. LET j == ResourceToJson(c.path.kind, m.data)
      IN  /\ Is(j, "object")
          /\ ResourceFaults(c.path.kind, j) \subseteq EmptiedNames
          /\ StaticIpIsWritten(c.path.kind, m.data) =>
               \A memory : ResourceFromJson(c.path.kind, j, memory) = m.data
  BY <1>5, ResourceReadsBack
<1> QED
  BY <1>3, <1>5, <1>6 DEF c, m

===============================================================================
