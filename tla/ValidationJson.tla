---------------------------- MODULE ValidationJson ----------------------------
(***************************************************************************)
(* How a request is read from its body and how the changes of an answer    *)
(* are written: ValidatorRapidJsonParser::getValidationData, the parser of *)
(* SMS subscriptions, and ValidatorRapidJsonEncoder.                       *)
(*                                                                         *)
(* A body is [changes, related]. A change is the sequence of its members,  *)
(* pairs <<name, value>>: they are read in their order, and the order      *)
(* matters. The value of resource_path is [string |-> path] with a path of *)
(* ValidationData. related is relatedResources, a function from paths to   *)
(* JSON objects.                                                           *)
(***************************************************************************)
EXTENDS SubscriptionJson

-------------------------------------------------------------------------------
(* udmRoamingArea: an element of its areaList is an areaCodes, or a list tacs. *)

AreaFaults(j) ==
  IF HasMember(j, "areaCodes") THEN Mistyped(j, {"areaCodes"}, "string")
  ELSE Missing(j, {"tacs"}) \cup ArrayFaults(j, {"tacs"}, "string")

\* An area is an areaCodes from the start.
AreaFromJson(j) ==
  IF ~HasMember(j, "areaCodes") /\ HasMember(j, "tacs")
  THEN [type |-> "tacs", tacs |-> Texts(j, "tacs"), others |-> Carried(j, {})]
  ELSE [type |-> "areaCodes", areaCodes |-> Text(j, "areaCodes"), others |-> Carried(j, {})]

AreaToJson(a) ==
  IF a.type = "tacs" THEN Object(a.others, [tacs |-> ListValue(Strings(a.tacs))])
                     ELSE Object(a.others, [areaCodes |-> TextValue(a.areaCodes)])

UdmRoamingAreaFaults(j) ==
  Mistyped(j, {"udmRoamingAreaId"}, "string") \cup ArrayFaults(j, {"areaList"}, "object")
  \cup UNION {AreaFaults(a) : a \in Objects(j, "areaList")}

getUdmRoamingAreas(j) ==
  LET areas == Elements(j, "areaList")
  IN  [udmRoamingAreaId |-> Text(j, "udmRoamingAreaId"),
       areaList |-> [i \in DOMAIN areas |-> AreaFromJson(areas[i])], others |-> Carried(j, {})]

udmRoamingAreaToJson(area) ==
  Object(area.others,
    [udmRoamingAreaId |-> TextValue(area.udmRoamingAreaId),
     areaList |-> ListValue([i \in DOMAIN area.areaList |-> AreaToJson(area.areaList[i])])])

-------------------------------------------------------------------------------
(* smsStaticData: the attributes SmsRules looks at are in two sections.        *)

SmsSections == {"smsSubscriptionData", "smsManagementSubscriptionData"}

AttributesOf(section) ==
  IF section = "smsSubscriptionData" THEN {"smsSubscribed"} ELSE SmsAttributes \ {"smsSubscribed"}

Sections(j) == UNION {Member(j, section, "object") : section \in SmsSections}

SmsStaticDataFaults(j) ==
  Mistyped(j, SmsSections, "object") \cup UNION {Mistyped(s, SmsAttributes, "bool") : s \in Sections(j)}

\* sections: what there is in a section besides the attributes, {} without it.
getOptionalSmsStaticData(j) ==
  LET At(attribute) == {s \in SmsSections : attribute \in AttributesOf(s)}
  IN  [a \in SmsAttributes \cup {"sections", "others"} |->
         CASE a \in SmsAttributes ->
                UNION {Optional(s, a, "bool") :
                         s \in UNION {Member(j, section, "object") : section \in At(a)}}
           [] a = "sections" ->
                [section \in SmsSections |-> {Carried(s, {}) : s \in Member(j, section, "object")}]
           [] a = "others" -> Carried(j, {})]

SectionToJson(carried, sms, section) ==
  Object(carried, [a \in AttributesOf(section) |-> {[bool |-> b] : b \in sms[a]}])

smsStaticDataToJson(sms) ==
  Object(sms.others, [section \in SmsSections |->
    {SectionToJson(carried, sms, section) : carried \in sms.sections[section]}])

-------------------------------------------------------------------------------
(* A resource, by the kind of its path. Of a journal the rules look at the     *)
(* imsi only, and nothing in it is an error.                                   *)

getProvJournal(j) == [imsi |-> Text(j, "imsi")]

ResourceFaults(kind, j) ==
  CASE kind = "udmStaticData" -> UdmStaticDataFaults(j)
    [] kind = "udmSliceProfile" -> UdmSliceProfileFaults(j)
    [] kind = "udmRoamingArea" -> UdmRoamingAreaFaults(j)
    [] kind = "smsStaticData" -> SmsStaticDataFaults(j)
    [] OTHER -> {}

ResourceFromJson(kind, j, uninitialized) ==
  CASE kind = "udmStaticData" -> getUdmStaticData(j, uninitialized)
    [] kind = "udmSliceProfile" -> getUdmSliceProfile(j)
    [] kind = "udmRoamingArea" -> getUdmRoamingAreas(j)
    [] kind = "smsStaticData" -> getOptionalSmsStaticData(j)
    [] kind = "provJournal" -> getProvJournal(j)
    [] kind = "other" -> NoMembers

ResourceToJson(kind, resource) ==
  CASE kind = "udmStaticData" -> udmStaticDataToJson(resource)
    [] kind = "udmSliceProfile" -> udmSliceProfileToJson(resource)
    [] kind = "udmRoamingArea" -> udmRoamingAreaToJson(resource)
    [] kind = "smsStaticData" -> smsStaticDataToJson(resource)
    [] OTHER -> EmptyObject

\* What is left out of a static IP address is filled from what stands before it.
StaticIpIsWritten(kind, resource) ==
  kind = "udmStaticData" => \A s \in resource.staticIpAddress : StaticIpReadsBack(s)

-------------------------------------------------------------------------------
(* The changes of a body                                                       *)

NoPath == [kind |-> "other", id |-> ""]

\* The position of a member, in a set: {} when there is none.
PositionOf(members, name) == {i \in DOMAIN members : members[i][1] = name}

Given(members, name) == {members[i][2] : i \in PositionOf(members, name)}

\* A change the schema lets through: it has an operation and a path, and as an
\* object no member twice. What is read of a change is said of such ones.
HasSchemaOfChange(members) ==
  /\ Given(members, "operation") # {}
  /\ Given(members, "resource_path") # {}
  /\ \A i, k \in DOMAIN members : members[i][1] = members[k][1] => i = k

\* What the body is refused for, with 400.
MalformedChange(members) ==
  \/ \E v \in Given(members, "operation") : ~Is(v, "string") \/ v.string \notin Operations
  \/ \E v \in Given(members, "resource_path") : ~Is(v, "string") \/ v.string = NoPath
  \/ \E v \in Given(members, "data") : ~Is(v, "object")

PathOf(members) ==
  LET paths == {v.string : v \in {v \in Given(members, "resource_path") : Is(v, "string")}}
  IN  IF paths = {} THEN NoPath ELSE CHOOSE p \in paths : TRUE

\* The data is read as what the path read so far says: nothing of it when the
\* path comes after it.
DataRead(members) ==
  {members[d][2] : d \in {d \in PositionOf(members, "data") :
                            \E p \in PositionOf(members, "resource_path") : p < d}}

ChangeFaults(members) ==
  UNION {ResourceFaults(PathOf(members).kind, data) : data \in DataRead(members)}

\* A change without data holds a resource as its constructor makes it.
ChangeFromJson(members, uninitialized) ==
  LET kind == PathOf(members).kind
      data == IF DataRead(members) = {} THEN EmptyObject
              ELSE CHOOSE d \in DataRead(members) : TRUE
  IN  [operation |-> (CHOOSE v \in Given(members, "operation") : TRUE).string,
       path |-> PathOf(members), data |-> ResourceFromJson(kind, data, uninitialized)]

\* A DELETE is answered without data.
ChangeToJson(change) ==
  <<<<"operation", [string |-> change.operation]>>, <<"resource_path", [string |-> change.path]>>>>
  \o (IF change.operation = "DELETE" THEN <<>>
      ELSE <<<<"data", ResourceToJson(change.path.kind, change.data)>>>>)

-------------------------------------------------------------------------------
(* The body of a request, and what the handler makes of it                     *)

Malformed(body) == \E i \in DOMAIN body.changes : MalformedChange(body.changes[i])

getChangesToValidate(body, uninitialized) ==
  [i \in DOMAIN body.changes |-> ChangeFromJson(body.changes[i], uninitialized)]

\* A related resource of a kind nobody asks for is not read.
getRelatedResources(body, uninitialized) ==
  [p \in {p \in DOMAIN body.related : p.kind # "other"} |->
     ResourceFromJson(p.kind, body.related[p], uninitialized)]

\* Everything in the body is in the same list of errors, the changes and the
\* related resources.
BodyFaults(body) ==
  (UNION {ChangeFaults(body.changes[i]) : i \in DOMAIN body.changes})
  \cup UNION {ResourceFaults(p.kind, body.related[p]) : p \in DOMAIN body.related}

\* A request of ValidationData. What is read after a fault is of no use.
getValidationData(body, uninitialized) ==
  LET readable == ~Malformed(body) /\ BodyFaults(body) = {}
  IN  [uri |-> "/", format |-> IF Malformed(body) THEN "malformed" ELSE "ok",
       errors |-> IF Malformed(body) THEN {} ELSE BodyFaults(body),
       changes |-> IF readable THEN getChangesToValidate(body, uninitialized) ELSE <<>>,
       related |-> IF readable THEN getRelatedResources(body, uninitialized) ELSE <<>>]

\* The answer, with its changes as they are written.
validatorResponseToJson(answer) ==
  [answer EXCEPT !.changes = [i \in DOMAIN @ |-> ChangeToJson(@[i])]]

\* Names the parser takes for mandatory when they are there with nothing in
\* them, and the encoder leaves out then.
EmptiedNames ==
  {"plmnIdSetIdentifier", "dnnListId", "dnnLists", "uplink", "downlink", "id", "areaCodes", "tacs",
   "nssaiDnnIpLists"}

===============================================================================
