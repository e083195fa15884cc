------------------------------ MODULE JsonProofs ------------------------------
(***************************************************************************)
(* That the parser reads from what the encoder writes the entity that was  *)
(* written, for any entity the validator accepts.                          *)
(***************************************************************************)
EXTENDS ValidationJson, TLAPS

(***************************************************************************)
(* The value of a name, in a set: {} when the member is absent. What the   *)
(* operators of the parser say of a member depends on it alone.            *)
(***************************************************************************)
At(j, name) == {j.object[n] : n \in {name} \cap DOMAIN j.object}

IsFcn(f) == f = [x \in DOMAIN f |-> f[x]]

AtMostOne(values) == \A v, w \in values : v = w

LEMMA HasMemberAt ==
  ASSUME NEW j, NEW name
  PROVE  HasMember(j, name) <=> At(j, name) # {}
  BY DEF HasMember, At

LEMMA ValueAt ==
  ASSUME NEW j, NEW name, NEW v, At(j, name) = {v}
  PROVE  j.object[name] = v
  BY DEF At

LEMMA MemberAt ==
  ASSUME NEW j, NEW name, NEW type
  PROVE  Member(j, name, type) = {v \in At(j, name) : Is(v, type)}
  BY DEF Member, At, HasMember

LEMMA MistypedAt ==
  ASSUME NEW j, NEW names, NEW type
  PROVE  Mistyped(j, names, type) = {n \in names : \E v \in At(j, n) : ~Is(v, type)}
  BY DEF Mistyped, At, HasMember

LEMMA MissingAt ==
  ASSUME NEW j, NEW names
  PROVE  Missing(j, names) = {n \in names : At(j, n) = {}}
  BY DEF Missing, At

LEMMA Types ==
  /\ \A x : Is([string |-> x], "string") /\ ~Is([string |-> x], "array") /\ ~Is([string |-> x], "object")
  /\ \A x : Is([int |-> x], "int")
  /\ \A x : Is([bool |-> x], "bool")
  /\ \A x : Is([array |-> x], "array")
  /\ \A x : Is([object |-> x], "object")
  BY DEF Is

(***************************************************************************)
(* Members that are carried along.                                         *)
(***************************************************************************)
AreCarried(others, names) == IsFcn(others) /\ DOMAIN others \subseteq names \cup VendorSpecificFormat

LEMMA CarriedAre ==
  ASSUME NEW j, NEW names
  PROVE  AreCarried(Carried(j, names), names)
  BY DEF Carried, AreCarried, IsFcn

LEMMA NothingIsCarried ==
  ASSUME NEW names
  PROVE  AreCarried(NoMembers, names)
  BY DEF NoMembers, AreCarried, IsFcn

(***************************************************************************)
(* What is found in an object that has been written.                       *)
(***************************************************************************)
LEMMA ObjectWritten ==
  ASSUME NEW others, NEW names, AreCarried(others, names),
         NEW members, \A n \in DOMAIN members : n \in MemberNames /\ n \notin names
  PROVE  LET j == Object(others, members)
         IN  /\ Is(j, "object")
             /\ Carried(j, names) = others
             /\ \A n \in names : At(j, n) = {others[x] : x \in {n} \cap DOMAIN others}
             /\ \A n \in DOMAIN members : /\ At(j, n) \subseteq members[n]
                                          /\ At(j, n) = {} => members[n] = {}
                                          /\ AtMostOne(members[n]) => At(j, n) = members[n]
             /\ \A n \in MemberNames : n \notin names /\ n \notin DOMAIN members => At(j, n) = {}
<1> DEFINE N == DOMAIN others \cup {n \in DOMAIN members : members[n] # {}}
           f == [n \in N |-> IF n \in DOMAIN others THEN others[n] ELSE CHOOSE v \in members[n] : TRUE]
           j == Object(others, members)
<1>1. j = [object |-> f]
  BY DEF Object
<1>2. j.object = f /\ DOMAIN f = N /\ Is(j, "object")
  BY <1>1, Types
<1>3. \A n \in DOMAIN members : n \notin DOMAIN others
  BY VendorSpecificAssumption DEF AreCarried
<1>4. \A n \in N : f[n] = IF n \in DOMAIN others THEN others[n] ELSE CHOOSE v \in members[n] : TRUE
  OBVIOUS
<1>5. N = DOMAIN others \cup {n \in DOMAIN members : members[n] # {}}
  OBVIOUS
<1> HIDE DEF f, j, N
<1>6. Carried(j, names) = others
  <2>1. N \cap (names \cup VendorSpecificFormat) = DOMAIN others
    BY <1>5, VendorSpecificAssumption DEF AreCarried
  <2>2. Carried(j, names) = [n \in DOMAIN others |-> f[n]]
    BY <1>2, <2>1 DEF Carried
  <2>3. \A n \in DOMAIN others : f[n] = others[n]
    BY <1>4, <1>5
  <2> QED
    BY <2>2, <2>3 DEF AreCarried, IsFcn
<1>7. \A n : At(j, n) = {f[x] : x \in {n} \cap N}
  BY <1>2 DEF At
<1>8. \A n \in names : At(j, n) = {others[x] : x \in {n} \cap DOMAIN others}
  BY <1>4, <1>5, <1>7
<1>9. ASSUME NEW n \in DOMAIN members
      PROVE  /\ At(j, n) \subseteq members[n]
             /\ At(j, n) = {} => members[n] = {}
             /\ AtMostOne(members[n]) => At(j, n) = members[n]
  <2>1. CASE members[n] = {}
    BY <1>3, <1>5, <1>7, <2>1
  <2>2. CASE members[n] # {}
    <3>1. At(j, n) = {f[n]} /\ f[n] \in members[n]
      BY <1>3, <1>4, <1>5, <1>7, <2>2
    <3> QED
      BY <3>1 DEF AtMostOne
  <2> QED
    BY <2>1, <2>2
<1>10. \A n \in MemberNames : n \notin names /\ n \notin DOMAIN members => At(j, n) = {}
  BY <1>5, <1>7, VendorSpecificAssumption DEF AreCarried
<1> QED
  BY <1>2, <1>6, <1>8, <1>9, <1>10 DEF j

LEMMA WrittenOnce ==
  ASSUME NEW others, AreCarried(others, {}),
         NEW members, \A n \in DOMAIN members : n \in MemberNames /\ AtMostOne(members[n])
  PROVE  LET j == Object(others, members)
         IN  /\ Is(j, "object")
             /\ Carried(j, {}) = others
             /\ \A n \in DOMAIN members : At(j, n) = members[n]
             /\ \A n \in MemberNames : n \notin DOMAIN members => At(j, n) = {}
  BY ObjectWritten

LEMMA Once ==
  /\ \A text : AtMostOne(TextValue(text))
  /\ \A values : AtMostOne(ListValue(values))
  /\ \A n : AtMostOne(IntValue(n))
  /\ \A v : AtMostOne({v})
  BY DEF AtMostOne, TextValue, ListValue, IntValue

(***************************************************************************)
(* A text, a list and a number, from the member that was written for them. *)
(***************************************************************************)
LEMMA TextRead ==
  ASSUME NEW j, NEW name, NEW text, At(j, name) = TextValue(text)
  PROVE  /\ Text(j, name) = text
         /\ \A v \in At(j, name) : Is(v, "string")
<1>1. CASE text = ""
  BY <1>1, MemberAt DEF TextValue, Text
<1>2. CASE text # ""
  <2>1. At(j, name) = {[string |-> text]}
    BY <1>2 DEF TextValue
  <2>2. [string |-> text] \in Member(j, name, "string")
    BY <2>1, MemberAt, Types
  <2>3. j.object[name] = [string |-> text]
    BY <2>1, ValueAt
  <2>4. [string |-> text].string = text
    OBVIOUS
  <2>5. Text(j, name) = text
    BY <2>2, <2>3, <2>4, Zenon DEF Text
  <2> QED
    BY <2>1, <2>5, Types
<1> QED
  BY <1>1, <1>2

LEMMA ElementsRead ==
  ASSUME NEW j, NEW name, NEW values, At(j, name) = ListValue(values) \/ At(j, name) = {[array |-> values]}
  PROVE  /\ Elements(j, name) = values
         /\ \A v \in At(j, name) : Is(v, "array")
<1>1. CASE At(j, name) = {}
  BY <1>1, MemberAt DEF ListValue, Elements
<1>2. CASE At(j, name) # {}
  <2>1. At(j, name) = {[array |-> values]}
    BY <1>2 DEF ListValue
  <2>2. [array |-> values] \in Member(j, name, "array")
    BY <2>1, MemberAt, Types
  <2>3. j.object[name] = [array |-> values]
    BY <2>1, ValueAt
  <2>4. [array |-> values].array = values
    OBVIOUS
  <2>5. Elements(j, name) = values
    BY <2>2, <2>3, <2>4, Zenon DEF Elements
  <2> QED
    BY <2>1, <2>5, Types
<1> QED
  BY <1>1, <1>2

LEMMA IntRead ==
  ASSUME NEW j, NEW name, NEW number, At(j, name) = IntValue(number)
  PROVE  /\ j.object[name].int = number
         /\ At(j, name) # {}
         /\ \A v \in At(j, name) : Is(v, "int")
<1>1. At(j, name) = {[int |-> number]}
  BY DEF IntValue
<1>2. j.object[name] = [int |-> number]
  BY <1>1, ValueAt
<1> QED
  BY <1>1, <1>2, Types

LEMMA TextsRead ==
  ASSUME NEW j, NEW name, NEW list, IsFcn(list),
         At(j, name) = ListValue(Strings(list)) \/ At(j, name) = {[array |-> Strings(list)]}
  PROVE  /\ Texts(j, name) = list
         /\ ArrayFaults(j, {name}, "string") = {}
<1>1. Elements(j, name) = Strings(list) /\ \A v \in At(j, name) : Is(v, "array")
  BY ElementsRead
<1>2. DOMAIN Strings(list) = DOMAIN list /\ \A i \in DOMAIN list : Strings(list)[i] = [string |-> list[i]]
  BY DEF Strings
<1>3. \A i \in DOMAIN list : Strings(list)[i].string = list[i] /\ Is(Strings(list)[i], "string")
  BY <1>2, Types
<1>4. Texts(j, name) = list
  BY <1>1, <1>2, <1>3 DEF Texts, IsFcn
<1>5. Mistyped(j, {name}, "array") = {}
  BY <1>1, MistypedAt
<1> QED
  BY <1>1, <1>2, <1>3, <1>4, <1>5 DEF ArrayFaults, Range

LEMMA ListRead ==
  ASSUME NEW j, NEW name, NEW values,
         At(j, name) = ListValue(values) \/ At(j, name) = {[array |-> values]},
         \A i \in DOMAIN values : Is(values[i], "object")
  PROVE  /\ Elements(j, name) = values
         /\ ArrayFaults(j, {name}, "object") = {}
         /\ Mistyped(j, {name}, "array") = {}
         /\ Objects(j, name) = {values[i] : i \in DOMAIN values}
<1>1. Elements(j, name) = values /\ \A v \in At(j, name) : Is(v, "array")
  BY ElementsRead
<1>2. Mistyped(j, {name}, "array") = {}
  BY <1>1, MistypedAt
<1> QED
  BY <1>1, <1>2 DEF ArrayFaults, Objects, Range

\* A list that is written also when it is empty.
LEMMA OptionalTextsRead ==
  ASSUME NEW j, NEW name, NEW lists, AtMostOne(lists), \A list \in lists : IsFcn(list),
         At(j, name) = {[array |-> Strings(list)] : list \in lists}
  PROVE  /\ {Texts(j, name) : list \in Member(j, name, "array")} = lists
         /\ ArrayFaults(j, {name}, "string") = {}
<1>1. Member(j, name, "array") = At(j, name)
  BY MemberAt, Types
<1>2. CASE lists = {}
  <2>1. At(j, name) = {} /\ Member(j, name, "array") = {}
    BY <1>1, <1>2
  <2>2. Elements(j, name) = <<>> /\ Mistyped(j, {name}, "array") = {}
    BY <2>1, MistypedAt DEF Elements
  <2>3. ArrayFaults(j, {name}, "string") = {}
    <3>1. Range(<<>>) = {}
      BY DEF Range
    <3> QED
      BY <2>2, <3>1 DEF ArrayFaults
  <2> QED
    BY <1>2, <2>1, <2>3
<1>3. ASSUME NEW list \in lists
      PROVE  /\ {Texts(j, name) : l \in Member(j, name, "array")} = lists
             /\ ArrayFaults(j, {name}, "string") = {}
  <2>1. lists = {list}
    BY DEF AtMostOne
  <2>2. At(j, name) = {[array |-> Strings(list)]}
    BY <2>1
  <2>3. Texts(j, name) = list /\ ArrayFaults(j, {name}, "string") = {}
    BY <2>2, TextsRead
  <2>4. Member(j, name, "array") # {}
    BY <1>1, <2>2
  <2> QED
    BY <2>1, <2>3, <2>4
<1> QED
  BY <1>2, <1>3

LEMMA EmptyList ==
  ASSUME NEW list, IsFcn(list), DOMAIN list = {}
  PROVE  list = <<>>
<1>1. list = [i \in 1..0 |-> list[i]]
  BY DEF IsFcn
<1> QED
  BY <1>1

LEMMA NumbersRead ==
  ASSUME NEW j, NEW name, NEW numbers, At(j, name) = UNION {IntValue(n) : n \in numbers}
  PROVE  Optional(j, name, "int") = numbers /\ \A v \in At(j, name) : Is(v, "int")
<1>1. At(j, name) = {[int |-> n] : n \in numbers}
  BY DEF IntValue
<1>2. Member(j, name, "int") = {[int |-> n] : n \in numbers}
  BY <1>1, MemberAt, Types
<1>3. \A n : [int |-> n]["int"] = n
  OBVIOUS
<1>4. Optional(j, name, "int") = {w["int"] : w \in {[int |-> n] : n \in numbers}}
  BY <1>2, Zenon DEF Optional
<1>5. ASSUME NEW x \in numbers PROVE x \in Optional(j, name, "int")
  <2>1. [int |-> x] \in {[int |-> n] : n \in numbers} /\ [int |-> x]["int"] = x
    BY <1>3
  <2> QED
    BY <1>4, <2>1, Zenon
<1>6. ASSUME NEW x \in Optional(j, name, "int") PROVE x \in numbers
  <2>1. PICK w \in {[int |-> n] : n \in numbers} : x = w["int"]
    BY <1>4
  <2> QED
    BY <1>3, <2>1
<1> QED
  BY <1>1, <1>5, <1>6, Types

LEMMA BooleansRead ==
  ASSUME NEW j, NEW name, NEW values, At(j, name) = {[bool |-> b] : b \in values}
  PROVE  Optional(j, name, "bool") = values
<1>1. Member(j, name, "bool") = {[bool |-> b] : b \in values}
  BY MemberAt, Types
<1>2. \A b : [bool |-> b]["bool"] = b
  OBVIOUS
<1>3. Optional(j, name, "bool") = {w["bool"] : w \in {[bool |-> b] : b \in values}}
  BY <1>1, Zenon DEF Optional
<1>4. ASSUME NEW x \in values PROVE x \in Optional(j, name, "bool")
  <2>1. [bool |-> x] \in {[bool |-> b] : b \in values} /\ [bool |-> x]["bool"] = x
    BY <1>2
  <2> QED
    BY <1>3, <2>1, Zenon
<1>5. ASSUME NEW x \in Optional(j, name, "bool") PROVE x \in values
  <2>1. PICK w \in {[bool |-> b] : b \in values} : x = w["bool"]
    BY <1>3
  <2> QED
    BY <1>2, <2>1
<1> QED
  BY <1>4, <1>5

-------------------------------------------------------------------------------
(***************************************************************************)
(* nssaiDetails                                                            *)
(***************************************************************************)
LEMMA SnssaiRead ==
  ASSUME NEW others, AreCarried(others, {}), NEW sst, NEW sd
  PROVE  LET j == SnssaiToJson(others, sst, sd)
         IN  /\ Is(j, "object")
             /\ SnssaiFaults(j) = {}
             /\ j.object["sst"].int = sst
             /\ Text(j, "sd") = sd
             /\ Carried(j, {}) = others
<1> DEFINE M == [sst |-> IntValue(sst), sd |-> TextValue(sd)]
           j == SnssaiToJson(others, sst, sd)
<1>1. DOMAIN M = {"sst", "sd"} /\ M["sst"] = IntValue(sst) /\ M["sd"] = TextValue(sd)
  OBVIOUS
<1>2. j = Object(others, M)
  BY DEF SnssaiToJson
<1> HIDE DEF M, j
<1>3. \A x \in DOMAIN M : x \in MemberNames
  BY <1>1 DEF MemberNames
<1>4. /\ Is(j, "object")
      /\ Carried(j, {}) = others
      /\ At(j, "sst") = {[int |-> sst]}
      /\ At(j, "sd") = TextValue(sd)
  BY <1>1, <1>2, <1>3, ObjectWritten, Once DEF IntValue
<1>5. j.object["sst"] = [int |-> sst]
  BY <1>4, ValueAt
<1>6. Text(j, "sd") = sd /\ \A v \in At(j, "sd") : Is(v, "string")
  BY <1>4, TextRead
<1>7. SnssaiFaults(j) = {}
  <2>1. Missing(j, {"sst"}) = {} /\ Mistyped(j, {"sst"}, "int") = {}
    <3>1. At(j, "sst") # {} /\ \A v \in At(j, "sst") : Is(v, "int")
      BY <1>4, Types
    <3> QED
      BY <3>1, MissingAt, MistypedAt
  <2>2. Mistyped(j, {"sd"}, "string") = {}
    BY <1>6, MistypedAt
  <2> QED
    BY <2>1, <2>2 DEF SnssaiFaults
<1> QED
  BY <1>4, <1>5, <1>6, <1>7 DEF j

NssaiDetailsShape(n) ==
  /\ n = [sst |-> n.sst, sd |-> n.sd, dnnListId |-> n.dnnListId, charging |-> n.charging,
          snssaiOthers |-> n.snssaiOthers, others |-> n.others]
  /\ AreCarried(n.snssaiOthers, {}) /\ AreCarried(n.others, {})

LEMMA NssaiDetailsRead ==
  ASSUME NEW n, NssaiDetailsShape(n)
  PROVE  LET j == NssaiDetailsToJson(n)
         IN  /\ Is(j, "object")
             /\ NssaiDetailsFaults(j) = {}
             /\ NssaiDetailsFromJson(j) = n
<1> DEFINE s == SnssaiToJson(n.snssaiOthers, n.sst, n.sd)
           M == [dnnListId |-> TextValue(n.dnnListId),
                 3gppChargingCharacteristics |-> TextValue(n.charging), nssai |-> {s}]
           j == NssaiDetailsToJson(n)
<1>1. /\ DOMAIN M = {"dnnListId", CHARGING, "nssai"} /\ M["dnnListId"] = TextValue(n.dnnListId)
      /\ M[CHARGING] = TextValue(n.charging) /\ M["nssai"] = {s}
  BY DEF CHARGING
<1>2. j = Object(n.others, M)
  BY DEF NssaiDetailsToJson
<1>3. /\ Is(s, "object")
      /\ SnssaiFaults(s) = {}
      /\ s.object["sst"].int = n.sst
      /\ Text(s, "sd") = n.sd
      /\ Carried(s, {}) = n.snssaiOthers
  BY SnssaiRead DEF NssaiDetailsShape
<1> HIDE DEF M, j, s
<1>4. \A x \in DOMAIN M : x \in MemberNames
  BY <1>1 DEF MemberNames
<1>5. /\ Is(j, "object")
      /\ Carried(j, {}) = n.others
      /\ At(j, "dnnListId") = TextValue(n.dnnListId)
      /\ At(j, CHARGING) = TextValue(n.charging)
      /\ At(j, "nssai") = {s}
  BY <1>1, <1>2, <1>4, ObjectWritten, Once DEF NssaiDetailsShape
<1>6. /\ Text(j, "dnnListId") = n.dnnListId
      /\ Text(j, CHARGING) = n.charging
      /\ \A v \in At(j, "dnnListId") \cup At(j, CHARGING) : Is(v, "string")
  BY <1>5, TextRead
<1>7. j.object["nssai"] = s
  BY <1>5, ValueAt
<1>8. NssaiDetailsFaults(j) = {}
  <2>1. Mistyped(j, {"dnnListId", CHARGING}, "string") = {}
    BY <1>6, MistypedAt
  <2>2. Missing(j, {"nssai"}) = {} /\ Mistyped(j, {"nssai"}, "object") = {}
    BY <1>3, <1>5, MissingAt, MistypedAt
  <2>3. Member(j, "nssai", "object") = {s}
    BY <1>3, <1>5, MemberAt
  <2> QED
    BY <1>3, <2>1, <2>2, <2>3 DEF NssaiDetailsFaults
<1>9. NssaiDetailsFromJson(j) = n
  BY <1>3, <1>5, <1>6, <1>7 DEF NssaiDetailsFromJson, NssaiDetailsShape
<1> QED
  BY <1>5, <1>8, <1>9 DEF j

-------------------------------------------------------------------------------
(***************************************************************************)
(* The attributes of a dnnData                                             *)
(***************************************************************************)
PduSessionTypesShape(t) ==
  /\ t = [defaultSessionType |-> t.defaultSessionType,
          allowedSessionTypes |-> t.allowedSessionTypes, others |-> t.others]
  /\ AtMostOne(t.allowedSessionTypes) /\ \A list \in t.allowedSessionTypes : IsFcn(list)
  /\ AreCarried(t.others, {})

LEMMA PduSessionTypesRead ==
  ASSUME NEW t, PduSessionTypesShape(t), <<>> \notin t.allowedSessionTypes
  PROVE  LET j == PduSessionTypesToJson(t)
         IN  /\ Is(j, "object")
             /\ PduSessionTypesFaults(j) = {}
             /\ PduSessionTypesFromJson(j) = t
<1> DEFINE lists == UNION {ListValue(Strings(list)) : list \in t.allowedSessionTypes}
           M == [defaultSessionType |-> TextValue(t.defaultSessionType), allowedSessionTypes |-> lists]
           j == PduSessionTypesToJson(t)
<1>1. /\ DOMAIN M = {"defaultSessionType", "allowedSessionTypes"}
      /\ M["defaultSessionType"] = TextValue(t.defaultSessionType)
      /\ M["allowedSessionTypes"] = lists
  OBVIOUS
<1>2. j = Object(t.others, M)
  BY DEF PduSessionTypesToJson
<1>3. \A list \in t.allowedSessionTypes : /\ t.allowedSessionTypes = {list}
                                          /\ lists = {[array |-> Strings(list)]}
  <2> SUFFICES ASSUME NEW list \in t.allowedSessionTypes
               PROVE  /\ t.allowedSessionTypes = {list}
                      /\ lists = {[array |-> Strings(list)]}
    OBVIOUS
  <2>1. t.allowedSessionTypes = {list}
    BY DEF PduSessionTypesShape, AtMostOne
  <2>2. Strings(list) # <<>>
    <3>1. DOMAIN list # {}
      BY EmptyList DEF PduSessionTypesShape
    <3> QED
      BY <3>1 DEF Strings
  <2>3. ListValue(Strings(list)) = {[array |-> Strings(list)]}
    BY <2>2 DEF ListValue
  <2> QED
    BY <2>1, <2>3
<1>4. t.allowedSessionTypes = {} => lists = {}
  OBVIOUS
<1>5. AtMostOne(lists)
  BY <1>3, <1>4 DEF AtMostOne
<1> HIDE DEF M, j, lists
<1>6. \A x \in DOMAIN M : x \in MemberNames
  BY <1>1 DEF MemberNames
<1>7. /\ Is(j, "object")
      /\ Carried(j, {}) = t.others
      /\ At(j, "defaultSessionType") = TextValue(t.defaultSessionType)
      /\ At(j, "allowedSessionTypes") = lists
  BY <1>1, <1>2, <1>5, <1>6, ObjectWritten, Once DEF PduSessionTypesShape
<1>8. /\ Text(j, "defaultSessionType") = t.defaultSessionType
      /\ Mistyped(j, {"defaultSessionType"}, "string") = {}
  BY <1>7, TextRead, MistypedAt
<1>9. CASE t.allowedSessionTypes = {}
  <2>1. Member(j, "allowedSessionTypes", "array") = {}
    BY <1>4, <1>7, <1>9, MemberAt
  <2>2. ArrayFaults(j, {"allowedSessionTypes"}, "string") = {}
    <3>1. Elements(j, "allowedSessionTypes") = <<>>
      BY <2>1 DEF Elements
    <3> QED
      BY <1>4, <1>7, <1>9, <3>1, MistypedAt DEF ArrayFaults, Range
  <2> QED
    BY <1>7, <1>8, <1>9, <2>1, <2>2
    DEF PduSessionTypesFaults, PduSessionTypesFromJson, PduSessionTypesShape, j
<1>10. ASSUME NEW list \in t.allowedSessionTypes
       PROVE  PduSessionTypesFaults(j) = {} /\ PduSessionTypesFromJson(j) = t
  <2>1. At(j, "allowedSessionTypes") = {[array |-> Strings(list)]}
    BY <1>3, <1>7
  <2>2. /\ Texts(j, "allowedSessionTypes") = list
        /\ ArrayFaults(j, {"allowedSessionTypes"}, "string") = {}
    BY <2>1, TextsRead DEF PduSessionTypesShape
  <2>3. Member(j, "allowedSessionTypes", "array") = {[array |-> Strings(list)]}
    BY <2>1, MemberAt, Types
  <2>4. {Texts(j, "allowedSessionTypes") : l \in Member(j, "allowedSessionTypes", "array")}
          = t.allowedSessionTypes
    <3>1. t.allowedSessionTypes = {list}
      BY <1>3
    <3>2. Member(j, "allowedSessionTypes", "array") # {}
      BY <2>3
    <3> QED
      BY <2>2, <3>1, <3>2
  <2> QED
    BY <1>7, <1>8, <2>2, <2>4 DEF PduSessionTypesFaults, PduSessionTypesFromJson, PduSessionTypesShape
<1> QED
  BY <1>7, <1>9, <1>10 DEF j

SscModesShape(m) ==
  /\ m = [defaultSscMode |-> m.defaultSscMode, allowedSscModes |-> m.allowedSscModes,
          others |-> m.others]
  /\ IsFcn(m.allowedSscModes) /\ AreCarried(m.others, {})

LEMMA SscModesRead ==
  ASSUME NEW m, SscModesShape(m)
  PROVE  LET j == SscModesToJson(m)
         IN  /\ Is(j, "object")
             /\ SscModesFaults(j) = {}
             /\ SscModesFromJson(j) = m
<1> DEFINE M == [defaultSscMode |-> TextValue(m.defaultSscMode),
                 allowedSscModes |-> ListValue(Strings(m.allowedSscModes))]
           j == SscModesToJson(m)
<1>1. /\ DOMAIN M = {"defaultSscMode", "allowedSscModes"}
      /\ M["defaultSscMode"] = TextValue(m.defaultSscMode)
      /\ M["allowedSscModes"] = ListValue(Strings(m.allowedSscModes))
  OBVIOUS
<1>2. j = Object(m.others, M)
  BY DEF SscModesToJson
<1> HIDE DEF M, j
<1>3. \A x \in DOMAIN M : x \in MemberNames
  BY <1>1 DEF MemberNames
<1>4. /\ Is(j, "object")
      /\ Carried(j, {}) = m.others
      /\ At(j, "defaultSscMode") = TextValue(m.defaultSscMode)
      /\ At(j, "allowedSscModes") = ListValue(Strings(m.allowedSscModes))
  BY <1>1, <1>2, <1>3, ObjectWritten, Once DEF SscModesShape
<1>5. Text(j, "defaultSscMode") = m.defaultSscMode /\ Mistyped(j, {"defaultSscMode"}, "string") = {}
  BY <1>4, TextRead, MistypedAt
<1>6. /\ Texts(j, "allowedSscModes") = m.allowedSscModes
      /\ ArrayFaults(j, {"allowedSscModes"}, "string") = {}
  BY <1>4, TextsRead DEF SscModesShape
<1> QED
  BY <1>4, <1>5, <1>6 DEF SscModesFaults, SscModesFromJson, SscModesShape, j

UpSecurityShape(s) ==
  s = [upIntegr |-> s.upIntegr, upConfid |-> s.upConfid, others |-> s.others]
    /\ AreCarried(s.others, {})

LEMMA UpSecurityRead ==
  ASSUME NEW s, UpSecurityShape(s)
  PROVE  LET j == UpSecurityToJson(s)
         IN  /\ Is(j, "object")
             /\ UpSecurityFaults(j) = {}
             /\ UpSecurityFromJson(j) = s
<1> DEFINE M == [upIntegr |-> TextValue(s.upIntegr), upConfid |-> TextValue(s.upConfid)]
           j == UpSecurityToJson(s)
<1>1. DOMAIN M = {"upIntegr", "upConfid"} /\ \A x \in DOMAIN M : M[x] = TextValue(s[x])
  OBVIOUS
<1>2. j = Object(s.others, M)
  BY DEF UpSecurityToJson
<1> HIDE DEF M, j
<1>3. \A x \in DOMAIN M : x \in MemberNames
  BY <1>1 DEF MemberNames
<1>4. Is(j, "object") /\ Carried(j, {}) = s.others
  BY <1>2, <1>3, ObjectWritten DEF UpSecurityShape
<1>5. \A x \in DOMAIN M : At(j, x) = TextValue(s[x])
  BY <1>1, <1>2, <1>3, ObjectWritten, Once DEF UpSecurityShape
<1>6. Text(j, "upIntegr") = s.upIntegr /\ Text(j, "upConfid") = s.upConfid
  BY <1>1, <1>5, TextRead
<1>7. UpSecurityFaults(j) = {}
  BY <1>1, <1>5, TextRead, MistypedAt DEF UpSecurityFaults
<1> QED
  BY <1>4, <1>6, <1>7 DEF UpSecurityFromJson, UpSecurityShape, j

AmbrShape(r) ==
  r = [uplink |-> r.uplink, downlink |-> r.downlink, others |-> r.others]
    /\ AreCarried(r.others, {})

\* The bit rates are mandatory, and left out when they are empty.
LEMMA AmbrRead ==
  ASSUME NEW r, AmbrShape(r)
  PROVE  LET j == AmbrToJson(r)
         IN  /\ Is(j, "object")
             /\ AmbrFaults(j) \subseteq EmptiedNames
             /\ Empty(j, {"uplink", "downlink"}) \subseteq EmptiedNames
             /\ AmbrFromJson(j) = r
<1> DEFINE M == [uplink |-> TextValue(r.uplink), downlink |-> TextValue(r.downlink)]
           j == AmbrToJson(r)
<1>1. DOMAIN M = {"uplink", "downlink"} /\ \A x \in DOMAIN M : M[x] = TextValue(r[x])
  OBVIOUS
<1>2. j = Object(r.others, M)
  BY DEF AmbrToJson
<1> HIDE DEF M, j
<1>3. \A x \in DOMAIN M : x \in MemberNames
  BY <1>1 DEF MemberNames
<1>4. Is(j, "object") /\ Carried(j, {}) = r.others
  BY <1>2, <1>3, ObjectWritten DEF AmbrShape
<1>5. \A x \in DOMAIN M : At(j, x) = TextValue(r[x])
  BY <1>1, <1>2, <1>3, ObjectWritten, Once DEF AmbrShape
<1>6. Text(j, "uplink") = r.uplink /\ Text(j, "downlink") = r.downlink
  BY <1>1, <1>5, TextRead
<1>7. Mistyped(j, {"uplink", "downlink"}, "string") = {}
  BY <1>1, <1>5, TextRead, MistypedAt
<1> QED
  BY <1>4, <1>6, <1>7 DEF AmbrFaults, Missing, Empty, EmptiedNames, AmbrFromJson, AmbrShape, j

ArpShape(a) ==
  /\ a = [priorityLevel |-> a.priorityLevel, preemptCap |-> a.preemptCap,
          preemptVuln |-> a.preemptVuln, others |-> a.others]
  /\ AreCarried(a.others, {})

\* The rules have preemptCap and preemptVuln among the values they allow.
LEMMA ArpRead ==
  ASSUME NEW a, ArpShape(a), a.preemptCap \in PreemptCaps, a.preemptVuln \in PreemptVulns
  PROVE  LET j == ArpToJson(a)
         IN  /\ Is(j, "object")
             /\ ArpFaults(j) = {}
             /\ a = [priorityLevel |-> j.object["priorityLevel"].int,
                     preemptCap |-> Text(j, "preemptCap"), preemptVuln |-> Text(j, "preemptVuln"),
                     others |-> Carried(j, {})]
<1> DEFINE M == [priorityLevel |-> IntValue(a.priorityLevel),
                 preemptCap |-> TextValue(a.preemptCap), preemptVuln |-> TextValue(a.preemptVuln)]
           j == ArpToJson(a)
<1>1. /\ DOMAIN M = {"priorityLevel", "preemptCap", "preemptVuln"}
      /\ M["priorityLevel"] = IntValue(a.priorityLevel)
      /\ M["preemptCap"] = TextValue(a.preemptCap)
      /\ M["preemptVuln"] = TextValue(a.preemptVuln)
  OBVIOUS
<1>2. j = Object(a.others, M)
  BY DEF ArpToJson
<1> HIDE DEF M, j
<1>3. \A x \in DOMAIN M : x \in MemberNames
  BY <1>1 DEF MemberNames
<1>4. /\ Is(j, "object")
      /\ Carried(j, {}) = a.others
      /\ At(j, "priorityLevel") = IntValue(a.priorityLevel)
      /\ At(j, "preemptCap") = TextValue(a.preemptCap)
      /\ At(j, "preemptVuln") = TextValue(a.preemptVuln)
  <2>1. \A x \in DOMAIN M : AtMostOne(M[x])
    BY <1>1, Once
  <2> DEFINE o == a.others
  <2>2. AreCarried(o, {}) /\ j = Object(o, M)
    BY <1>2 DEF ArpShape
  <2> HIDE DEF o
  <2>3. /\ Is(j, "object")
        /\ Carried(j, {}) = o
    BY <1>3, <2>2, ObjectWritten
  <2>4. \A x \in DOMAIN M : At(j, x) = M[x]
    BY <1>3, <2>1, <2>2, ObjectWritten
  <2> QED
    BY <1>1, <2>3, <2>4 DEF o
<1>5. /\ Text(j, "preemptCap") = a.preemptCap
      /\ Text(j, "preemptVuln") = a.preemptVuln
      /\ \A v \in At(j, "preemptCap") \cup At(j, "preemptVuln") : Is(v, "string")
  BY <1>4, TextRead
<1>6. /\ j.object["priorityLevel"].int = a.priorityLevel
      /\ At(j, "priorityLevel") # {}
      /\ \A v \in At(j, "priorityLevel") : Is(v, "int")
  BY <1>4, IntRead
<1>7. ArpFaults(j) = {}
  <2>1. At(j, "preemptCap") # {} /\ At(j, "preemptVuln") # {}
    BY <1>4 DEF TextValue, PreemptCaps, PreemptVulns
  <2>2. Missing(j, {"priorityLevel", "preemptCap", "preemptVuln"}) = {}
    BY <1>6, <2>1, MissingAt
  <2>3. Mistyped(j, {"preemptCap", "preemptVuln"}, "string") = {}
    BY <1>5, MistypedAt
  <2>4. Mistyped(j, {"priorityLevel"}, "int") = {}
    BY <1>6, MistypedAt
  <2> QED
    BY <2>2, <2>3, <2>4 DEF ArpFaults
<1> QED
  BY <1>4, <1>5, <1>6, <1>7 DEF ArpShape, j

FivegQosProfileShape(q) ==
  /\ q = [fiveqi |-> q.fiveqi, priorityLevel |-> q.priorityLevel, arp |-> q.arp, others |-> q.others]
  /\ AtMostOne(q.priorityLevel) /\ ArpShape(q.arp) /\ AreCarried(q.others, {})

LEMMA FivegQosProfileRead ==
  ASSUME NEW q, FivegQosProfileShape(q), q.arp.preemptCap \in PreemptCaps,
         q.arp.preemptVuln \in PreemptVulns
  PROVE  LET j == FivegQosProfileToJson(q)
         IN  /\ Is(j, "object")
             /\ FivegQosProfileFaults(j) = {}
             /\ FivegQosProfileFromJson(j) = q
<1> DEFINE a == ArpToJson(q.arp)
           level == UNION {IntValue(n) : n \in q.priorityLevel}
           M == [5qi |-> IntValue(q.fiveqi), priorityLevel |-> level, arp |-> {a}]
           j == FivegQosProfileToJson(q)
<1>1. /\ DOMAIN M = {"5qi", "priorityLevel", "arp"}
      /\ M["5qi"] = IntValue(q.fiveqi) /\ M["priorityLevel"] = level /\ M["arp"] = {a}
  OBVIOUS
<1>2. j = Object(q.others, M)
  BY DEF FivegQosProfileToJson
<1>3. /\ Is(a, "object")
      /\ ArpFaults(a) = {}
      /\ q.arp = [priorityLevel |-> a.object["priorityLevel"].int,
                  preemptCap |-> Text(a, "preemptCap"), preemptVuln |-> Text(a, "preemptVuln"),
                  others |-> Carried(a, {})]
  BY ArpRead DEF FivegQosProfileShape
<1>4. AtMostOne(level)
  <2>1. level = {[int |-> n] : n \in q.priorityLevel}
    BY DEF IntValue
  <2> QED
    BY <2>1 DEF AtMostOne, FivegQosProfileShape
<1> HIDE DEF M, j, a
<1>5. \A x \in DOMAIN M : x \in MemberNames
  BY <1>1 DEF MemberNames
<1>6. /\ Is(j, "object")
      /\ Carried(j, {}) = q.others
      /\ At(j, "5qi") = IntValue(q.fiveqi)
      /\ At(j, "priorityLevel") = level
      /\ At(j, "arp") = {a}
  <2> HIDE DEF level
  <2>1. \A x \in DOMAIN M : AtMostOne(M[x])
    BY <1>1, <1>4, Once
  <2> DEFINE o == q.others
  <2>2. AreCarried(o, {}) /\ j = Object(o, M)
    BY <1>2 DEF FivegQosProfileShape
  <2> HIDE DEF o
  <2>3. /\ Is(j, "object")
        /\ Carried(j, {}) = o
    BY <1>5, <2>2, ObjectWritten
  <2>4. \A x \in DOMAIN M : At(j, x) = M[x]
    BY <1>5, <2>1, <2>2, ObjectWritten
  <2> QED
    BY <1>1, <2>3, <2>4 DEF o
<1>7. /\ Optional(j, "priorityLevel", "int") = q.priorityLevel
      /\ \A v \in At(j, "priorityLevel") : Is(v, "int")
  BY <1>6, NumbersRead
<1>8. /\ j.object["5qi"].int = q.fiveqi
      /\ At(j, "5qi") # {}
      /\ \A v \in At(j, "5qi") : Is(v, "int")
  BY <1>6, IntRead
<1>10. j.object["arp"] = a
  BY <1>6, ValueAt
<1>9. FivegQosProfileFaults(j) = {}
  <2>1. Missing(j, {"5qi", "arp"}) = {}
    BY <1>6, <1>8, MissingAt
  <2>3. Mistyped(j, {"5qi", "priorityLevel"}, "int") = {}
    BY <1>7, <1>8, MistypedAt
  <2>4. Mistyped(j, {"arp"}, "object") = {} /\ Member(j, "arp", "object") = {a}
    BY <1>3, <1>6, MistypedAt, MemberAt
  <2> QED
    BY <1>3, <2>1, <2>3, <2>4 DEF FivegQosProfileFaults
<1> QED
  BY <1>3, <1>6, <1>7, <1>8, <1>9, <1>10 DEF FivegQosProfileFromJson, FivegQosProfileShape, j

-------------------------------------------------------------------------------
(***************************************************************************)
(* An optional object, and a flag that is carried along.                   *)
(***************************************************************************)
LEMMA FlagsRead ==
  ASSUME NEW j, NEW others, NEW names, NEW type,
         \A n \in names : At(j, n) = {others[x] : x \in {n} \cap DOMAIN others},
         \A n \in names \cap DOMAIN others : Is(others[n], type)
  PROVE  /\ Mistyped(j, names, type) = {}
         /\ \A n \in names : Optional(j, n, type) = {others[x][type] : x \in {n} \cap DOMAIN others}
<1>1. Mistyped(j, names, type) = {}
  BY MistypedAt
<1>2. ASSUME NEW n \in names
      PROVE  Optional(j, n, type) = {others[x][type] : x \in {n} \cap DOMAIN others}
  <2>1. Member(j, n, type) = {others[x] : x \in {n} \cap DOMAIN others}
    BY MemberAt
  <2> QED
    BY <2>1 DEF Optional
<1> QED
  BY <1>1, <1>2

LEMMA ObjectsRead ==
  ASSUME NEW j, NEW names, \A n \in names : \A v \in At(j, n) : Is(v, "object")
  PROVE  /\ Mistyped(j, names, "object") = {}
         /\ \A n \in names : Member(j, n, "object") = At(j, n)
  BY MistypedAt, MemberAt

-------------------------------------------------------------------------------
(***************************************************************************)
(* dnnData                                                                 *)
(***************************************************************************)
AttributesShape(a) ==
  /\ a = [pduSessionTypes |-> a.pduSessionTypes, sscModes |-> a.sscModes,
          upSecurity |-> a.upSecurity, sessionAmbr |-> a.sessionAmbr,
          fivegQosProfile |-> a.fivegQosProfile, smfList |-> a.smfList, charging |-> a.charging]
  /\ AtMostOne(a.pduSessionTypes) /\ \A t \in a.pduSessionTypes : PduSessionTypesShape(t)
  /\ AtMostOne(a.sscModes) /\ \A m \in a.sscModes : SscModesShape(m)
  /\ AtMostOne(a.upSecurity) /\ \A s \in a.upSecurity : UpSecurityShape(s)
  /\ AtMostOne(a.sessionAmbr) /\ \A r \in a.sessionAmbr : AmbrShape(r)
  /\ AtMostOne(a.fivegQosProfile) /\ \A q \in a.fivegQosProfile : FivegQosProfileShape(q)
  /\ AtMostOne(a.smfList) /\ \A list \in a.smfList : IsFcn(list)

DnnDataShape(d) ==
  /\ d = [dnn |-> d.dnn, defaultDnnIndicator |-> d.defaultDnnIndicator,
          attributes |-> d.attributes, others |-> d.others]
  /\ AttributesShape(d.attributes)
  /\ AreCarried(d.others, DnnFlags)
  /\ \A n \in DnnFlags \cap DOMAIN d.others : Is(d.others[n], "bool")
  /\ d.defaultDnnIndicator =
       (TRUE \in {d.others[x]["bool"] : x \in {"defaultDnnIndicator"} \cap DOMAIN d.others})

\* What the rules leave of the attributes can be read.
LEMMA AttributesRead ==
  ASSUME NEW a, AttributesShape(a), DnnDataErrors(a) = {}
  PROVE  /\ \A t \in a.pduSessionTypes : /\ Is(PduSessionTypesToJson(t), "object")
                                         /\ PduSessionTypesFaults(PduSessionTypesToJson(t)) = {}
                                         /\ PduSessionTypesFromJson(PduSessionTypesToJson(t)) = t
         /\ \A m \in a.sscModes : /\ Is(SscModesToJson(m), "object")
                                  /\ SscModesFaults(SscModesToJson(m)) = {}
                                  /\ SscModesFromJson(SscModesToJson(m)) = m
         /\ \A q \in a.fivegQosProfile : /\ Is(FivegQosProfileToJson(q), "object")
                                         /\ FivegQosProfileFaults(FivegQosProfileToJson(q)) = {}
                                         /\ FivegQosProfileFromJson(FivegQosProfileToJson(q)) = q
         /\ \A r \in a.sessionAmbr : /\ Is(AmbrToJson(r), "object")
                                     /\ AmbrFaults(AmbrToJson(r)) \subseteq EmptiedNames
                                     /\ AmbrFromJson(AmbrToJson(r)) = r
         /\ \A s \in a.upSecurity : /\ Is(UpSecurityToJson(s), "object")
                                    /\ UpSecurityFaults(UpSecurityToJson(s)) = {}
                                    /\ UpSecurityFromJson(UpSecurityToJson(s)) = s
<1>1. /\ \A t \in a.pduSessionTypes : SessionTypesErrors(t) = {}
      /\ \A q \in a.fivegQosProfile : FivegQosErrors(q) = {}
  BY DEF DnnDataErrors
<1>2. \A t \in a.pduSessionTypes : <<>> \notin t.allowedSessionTypes
  BY <1>1 DEF SessionTypesErrors, Raise
<1>3. \A q \in a.fivegQosProfile : q.arp.preemptCap \in PreemptCaps /\ q.arp.preemptVuln \in PreemptVulns
  BY <1>1 DEF FivegQosErrors, Raise
<1>4. \A t \in a.pduSessionTypes : /\ Is(PduSessionTypesToJson(t), "object")
                                   /\ PduSessionTypesFaults(PduSessionTypesToJson(t)) = {}
                                   /\ PduSessionTypesFromJson(PduSessionTypesToJson(t)) = t
  BY <1>2, PduSessionTypesRead DEF AttributesShape
<1>5. \A m \in a.sscModes : /\ Is(SscModesToJson(m), "object")
                            /\ SscModesFaults(SscModesToJson(m)) = {}
                            /\ SscModesFromJson(SscModesToJson(m)) = m
  BY SscModesRead DEF AttributesShape
<1>6. \A q \in a.fivegQosProfile : /\ Is(FivegQosProfileToJson(q), "object")
                                   /\ FivegQosProfileFaults(FivegQosProfileToJson(q)) = {}
                                   /\ FivegQosProfileFromJson(FivegQosProfileToJson(q)) = q
  BY <1>3, FivegQosProfileRead DEF AttributesShape
<1>7. \A r \in a.sessionAmbr : /\ Is(AmbrToJson(r), "object")
                               /\ AmbrFaults(AmbrToJson(r)) \subseteq EmptiedNames
                               /\ AmbrFromJson(AmbrToJson(r)) = r
  BY AmbrRead DEF AttributesShape
<1>8. \A s \in a.upSecurity : /\ Is(UpSecurityToJson(s), "object")
                              /\ UpSecurityFaults(UpSecurityToJson(s)) = {}
                              /\ UpSecurityFromJson(UpSecurityToJson(s)) = s
  BY UpSecurityRead DEF AttributesShape
<1> QED
  BY <1>4, <1>5, <1>6, <1>7, <1>8

LEMMA DnnDataRead ==
  ASSUME NEW d, DnnDataShape(d), DnnDataErrors(d.attributes) = {}
  PROVE  LET j == DnnDataToJson(d)
         IN  /\ Is(j, "object")
             /\ DnnDataFaults(j) \subseteq EmptiedNames
             /\ DnnDataFromJson(j) = d
<1> DEFINE a == d.attributes
           types == {PduSessionTypesToJson(t) : t \in a.pduSessionTypes}
           modes == {SscModesToJson(m) : m \in a.sscModes}
           qos == {FivegQosProfileToJson(q) : q \in a.fivegQosProfile}
           ambr == {AmbrToJson(r) : r \in a.sessionAmbr}
           security == {UpSecurityToJson(s) : s \in a.upSecurity}
           smfs == {[array |-> Strings(list)] : list \in a.smfList}
           M == [dnn |-> TextValue(d.dnn), 3gppChargingCharacteristics |-> TextValue(a.charging),
                 pduSessionTypes |-> types, sscModes |-> modes, 5gQosProfile |-> qos,
                 sessionAmbr |-> ambr, upSecurity |-> security, smfList |-> smfs]
           j == DnnDataToJson(d)
           o == d.others
<1>1. /\ DOMAIN M = {"dnn", CHARGING, "pduSessionTypes", "sscModes", "5gQosProfile", "sessionAmbr",
                     "upSecurity", "smfList"}
      /\ M["dnn"] = TextValue(d.dnn) /\ M[CHARGING] = TextValue(a.charging)
      /\ M["pduSessionTypes"] = types /\ M["sscModes"] = modes /\ M["5gQosProfile"] = qos
      /\ M["sessionAmbr"] = ambr /\ M["upSecurity"] = security /\ M["smfList"] = smfs
  <2> HIDE DEF types, modes, qos, ambr, security, smfs, a
  <2> QED
    BY DEF CHARGING
<1>2. j = Object(o, M)
  BY DEF DnnDataToJson
<1>3. AttributesShape(a) /\ AreCarried(o, DnnFlags)
  BY DEF DnnDataShape
<1>4. /\ AtMostOne(types) /\ AtMostOne(modes) /\ AtMostOne(qos)
      /\ AtMostOne(ambr) /\ AtMostOne(security) /\ AtMostOne(smfs)
  <2> HIDE DEF a
  <2> QED
    BY <1>3 DEF AttributesShape, AtMostOne
<1> HIDE DEF M, j, o, types, modes, qos, ambr, security, smfs
<1>5. \A x \in DOMAIN M : x \in MemberNames /\ x \notin DnnFlags
  BY <1>1 DEF MemberNames, DnnFlags, CHARGING
<1>6. \A x \in DOMAIN M : AtMostOne(M[x])
  BY <1>1, <1>4, Once
<1>7. /\ Is(j, "object")
      /\ Carried(j, DnnFlags) = o
      /\ \A n \in DnnFlags : At(j, n) = {o[x] : x \in {n} \cap DOMAIN o}
  BY <1>2, <1>3, <1>5, ObjectWritten
<1>8. \A x \in DOMAIN M : At(j, x) = M[x]
  BY <1>2, <1>3, <1>5, <1>6, ObjectWritten
<1>9. /\ At(j, "dnn") = TextValue(d.dnn) /\ At(j, CHARGING) = TextValue(a.charging)
      /\ At(j, "pduSessionTypes") = types /\ At(j, "sscModes") = modes
      /\ At(j, "5gQosProfile") = qos /\ At(j, "sessionAmbr") = ambr
      /\ At(j, "upSecurity") = security /\ At(j, "smfList") = smfs
  BY <1>1, <1>8
<1>10. /\ Text(j, "dnn") = d.dnn
       /\ Text(j, CHARGING) = a.charging
       /\ Mistyped(j, {"dnn", CHARGING}, "string") = {}
  BY <1>9, TextRead, MistypedAt
<1>11. /\ Mistyped(j, DnnFlags, "bool") = {}
       /\ d.defaultDnnIndicator = (TRUE \in Optional(j, "defaultDnnIndicator", "bool"))
  <2>1. \A n \in DnnFlags \cap DOMAIN o : Is(o[n], "bool")
    BY DEF DnnDataShape, o
  <2>2. /\ Mistyped(j, DnnFlags, "bool") = {}
        /\ \A n \in DnnFlags : Optional(j, n, "bool") = {o[x]["bool"] : x \in {n} \cap DOMAIN o}
    BY <1>7, <2>1, FlagsRead
  <2>3. d.defaultDnnIndicator =
          (TRUE \in {o[x]["bool"] : x \in {"defaultDnnIndicator"} \cap DOMAIN o})
    BY DEF DnnDataShape, o
  <2>4. "defaultDnnIndicator" \in DnnFlags
    BY DEF DnnFlags
  <2>5. Optional(j, "defaultDnnIndicator", "bool")
          = {o[x]["bool"] : x \in {"defaultDnnIndicator"} \cap DOMAIN o}
    BY <2>2, <2>4
  <2> QED
    BY <2>2, <2>3, <2>5, Zenon
<1>12. DnnDataErrors(a) = {}
  BY DEF a
<1>13. /\ \A v \in types \cup modes \cup qos \cup ambr \cup security : Is(v, "object")
       /\ \A v \in types : PduSessionTypesFaults(v) = {}
       /\ \A v \in modes : SscModesFaults(v) = {}
       /\ \A v \in qos : FivegQosProfileFaults(v) = {}
       /\ \A v \in ambr : AmbrFaults(v) \subseteq EmptiedNames
       /\ \A v \in security : UpSecurityFaults(v) = {}
  BY <1>3, <1>12, AttributesRead DEF types, modes, qos, ambr, security
<1>14. /\ {PduSessionTypesFromJson(v) : v \in types} = a.pduSessionTypes
       /\ {SscModesFromJson(v) : v \in modes} = a.sscModes
       /\ {FivegQosProfileFromJson(v) : v \in qos} = a.fivegQosProfile
       /\ {AmbrFromJson(v) : v \in ambr} = a.sessionAmbr
       /\ {UpSecurityFromJson(v) : v \in security} = a.upSecurity
  <2>1. {PduSessionTypesFromJson(v) : v \in types} = a.pduSessionTypes
    BY <1>3, <1>12, AttributesRead DEF types
  <2>2. {SscModesFromJson(v) : v \in modes} = a.sscModes
    BY <1>3, <1>12, AttributesRead DEF modes
  <2>3. {FivegQosProfileFromJson(v) : v \in qos} = a.fivegQosProfile
    BY <1>3, <1>12, AttributesRead DEF qos
  <2>4. {AmbrFromJson(v) : v \in ambr} = a.sessionAmbr
    BY <1>3, <1>12, AttributesRead DEF ambr
  <2>5. {UpSecurityFromJson(v) : v \in security} = a.upSecurity
    BY <1>3, <1>12, AttributesRead DEF security
  <2> QED
    BY <2>1, <2>2, <2>3, <2>4, <2>5
<1>15. /\ Mistyped(j, DnnObjects, "object") = {}
       /\ Member(j, "pduSessionTypes", "object") = types /\ Member(j, "sscModes", "object") = modes
       /\ Member(j, "5gQosProfile", "object") = qos /\ Member(j, "sessionAmbr", "object") = ambr
       /\ Member(j, "upSecurity", "object") = security
  <2>1. DnnObjects = {"pduSessionTypes", "sscModes", "upSecurity", "sessionAmbr", "5gQosProfile"}
    BY DEF DnnObjects
  <2>2. \A n \in DnnObjects : \A v \in At(j, n) : Is(v, "object")
    BY <1>9, <1>13, <2>1
  <2>3. Mistyped(j, DnnObjects, "object") = {} /\ \A n \in DnnObjects : Member(j, n, "object") = At(j, n)
    BY <2>2, ObjectsRead
  <2> QED
    BY <1>9, <2>1, <2>3
<1>16. /\ ArrayFaults(j, {"smfList"}, "string") = {}
       /\ {Texts(j, "smfList") : list \in Member(j, "smfList", "array")} = a.smfList
  BY <1>3, <1>9, OptionalTextsRead DEF AttributesShape, smfs
<1>17. DnnDataFaults(j) \subseteq EmptiedNames
  <2>1. /\ UNION {PduSessionTypesFaults(v) : v \in types} = {}
        /\ UNION {SscModesFaults(v) : v \in modes} = {}
        /\ UNION {FivegQosProfileFaults(v) : v \in qos} = {}
        /\ UNION {UpSecurityFaults(v) : v \in security} = {}
    BY <1>13
  <2>2. UNION {AmbrFaults(v) : v \in ambr} \subseteq EmptiedNames
    BY <1>13
  <2>3. DnnDataFaults(j) = UNION {AmbrFaults(v) : v \in ambr}
    <3>1. DnnDataFaults(j) =
            {} \cup {} \cup {} \cup {} \cup {} \cup {} \cup {}
            \cup (UNION {AmbrFaults(v) : v \in ambr}) \cup {}
      BY <1>10, <1>11, <1>15, <1>16, <2>1, Zenon DEF DnnDataFaults
    <3> QED
      BY <3>1
  <2> QED
    BY <2>2, <2>3
<1>18. DnnDataFromJson(j).attributes = a
  BY <1>3, <1>10, <1>14, <1>15, <1>16 DEF DnnDataFromJson, AttributesShape
<1>19. DnnDataFromJson(j) = d
  <2>1. /\ DnnDataFromJson(j).dnn = d.dnn
        /\ DnnDataFromJson(j).others = d.others
    BY <1>7, <1>10 DEF DnnDataFromJson, o
  <2>2. DnnDataFromJson(j).defaultDnnIndicator = d.defaultDnnIndicator
    BY <1>11 DEF DnnDataFromJson
  <2>3. DnnDataFromJson(j) = [dnn |-> DnnDataFromJson(j).dnn,
                              defaultDnnIndicator |-> DnnDataFromJson(j).defaultDnnIndicator,
                              attributes |-> DnnDataFromJson(j).attributes,
                              others |-> DnnDataFromJson(j).others]
    BY DEF DnnDataFromJson
  <2> QED
    BY <1>18, <2>1, <2>2, <2>3 DEF DnnDataShape, a
<1> QED
  BY <1>7, <1>17, <1>19 DEF j

-------------------------------------------------------------------------------
(***************************************************************************)
(* dnnList                                                                 *)
(***************************************************************************)
DnnListShape(l) ==
  /\ l = [dnnListId |-> l.dnnListId, dnnDataList |-> l.dnnDataList, others |-> l.others]
  /\ IsFcn(l.dnnDataList) /\ \A i \in DOMAIN l.dnnDataList : DnnDataShape(l.dnnDataList[i])
  /\ AreCarried(l.others, {})

LEMMA DnnListRead ==
  ASSUME NEW l, DnnListShape(l), DnnListErrors(l) = {}
  PROVE  LET j == DnnListToJson(l)
         IN  /\ Is(j, "object")
             /\ DnnListFaults(j) \subseteq EmptiedNames
             /\ DnnListFromJson(j) = l
<1> DEFINE L == l.dnnDataList
           V == [i \in DOMAIN L |-> DnnDataToJson(L[i])]
           M == [dnnListId |-> TextValue(l.dnnListId), dnnDataList |-> ListValue(V)]
           o == l.others
           j == DnnListToJson(l)
<1>1. /\ DOMAIN M = {"dnnListId", "dnnDataList"}
      /\ M["dnnListId"] = TextValue(l.dnnListId)
      /\ M["dnnDataList"] = ListValue(V)
  OBVIOUS
<1>2. j = Object(o, M)
  BY DEF DnnListToJson
<1>3. AreCarried(o, {}) /\ IsFcn(L)
  BY DEF DnnListShape
<1>4. \A i \in DOMAIN L : DnnDataErrors(L[i].attributes) = {}
  BY DEF DnnListErrors, Range
<1>5. \A i \in DOMAIN L : /\ Is(DnnDataToJson(L[i]), "object")
                          /\ DnnDataFaults(DnnDataToJson(L[i])) \subseteq EmptiedNames
                          /\ DnnDataFromJson(DnnDataToJson(L[i])) = L[i]
  BY <1>4, DnnDataRead DEF DnnListShape
<1>6. DOMAIN V = DOMAIN L /\ \A i \in DOMAIN L : V[i] = DnnDataToJson(L[i])
  OBVIOUS
<1> HIDE DEF M, V, L, j, o
<1>7. \A x \in DOMAIN M : x \in MemberNames /\ AtMostOne(M[x])
  BY <1>1, Once DEF MemberNames
<1>8. /\ Is(j, "object")
      /\ Carried(j, {}) = o
      /\ At(j, "dnnListId") = TextValue(l.dnnListId)
      /\ At(j, "dnnDataList") = ListValue(V)
  BY <1>1, <1>2, <1>3, <1>7, WrittenOnce
<1>9. Text(j, "dnnListId") = l.dnnListId /\ Mistyped(j, {"dnnListId"}, "string") = {}
  BY <1>8, TextRead, MistypedAt
<1>10. /\ Elements(j, "dnnDataList") = V
       /\ ArrayFaults(j, {"dnnDataList"}, "object") = {}
       /\ Objects(j, "dnnDataList") = {V[i] : i \in DOMAIN V}
  <2>1. \A i \in DOMAIN V : Is(V[i], "object")
    BY <1>5, <1>6
  <2> QED
    BY <1>8, <2>1, ListRead
<1>11. UNION {DnnDataFaults(v) : v \in Objects(j, "dnnDataList")} \subseteq EmptiedNames
  BY <1>5, <1>6, <1>10
<1>12. Missing(j, {"dnnListId"}) \subseteq EmptiedNames
  BY DEF Missing, EmptiedNames
<1>13. DnnListFaults(j) \subseteq EmptiedNames
  BY <1>9, <1>10, <1>11, <1>12 DEF DnnListFaults
<1>14. [i \in DOMAIN V |-> DnnDataFromJson(V[i])] = L
  BY <1>3, <1>5, <1>6 DEF IsFcn
<1>15. DnnListFromJson(j) = l
  BY <1>8, <1>9, <1>10, <1>14 DEF DnnListFromJson, DnnListShape, L, o
<1> QED
  BY <1>8, <1>13, <1>15 DEF j

-------------------------------------------------------------------------------
(***************************************************************************)
(* The nssai of a plmnIdSet                                                *)
(***************************************************************************)
NssaisShape(list) == IsFcn(list) /\ \A i \in DOMAIN list : NssaiDetailsShape(list[i])

LEMMA NssaisRead ==
  ASSUME NEW list, NssaisShape(list)
  PROVE  LET V == NssaisToJson(list)
         IN  /\ DOMAIN V = DOMAIN list
             /\ \A i \in DOMAIN V : Is(V[i], "object") /\ NssaiDetailsFaults(V[i]) = {}
             /\ [i \in DOMAIN V |-> NssaiDetailsFromJson(V[i])] = list
<1>1. \A i \in DOMAIN list : /\ Is(NssaiDetailsToJson(list[i]), "object")
                             /\ NssaiDetailsFaults(NssaiDetailsToJson(list[i])) = {}
                             /\ NssaiDetailsFromJson(NssaiDetailsToJson(list[i])) = list[i]
  BY NssaiDetailsRead DEF NssaisShape
<1> DEFINE V == NssaisToJson(list)
<1>2. DOMAIN V = DOMAIN list /\ \A i \in DOMAIN V : V[i] = NssaiDetailsToJson(list[i])
  BY DEF NssaisToJson
<1> HIDE DEF V
<1> QED
  BY <1>1, <1>2 DEF NssaisShape, IsFcn, V

\* A set without an nssai has no nssais, one with an nssai a default one.
SliceInfoShape(set) ==
  /\ NssaisShape(set.defaultSingleNssais) /\ NssaisShape(set.singleNssais)
  /\ AtMostOne(set.nssaiOthers) /\ \A others \in set.nssaiOthers : AreCarried(others, {})
  /\ IF set.nssaiOthers = {} THEN set.defaultSingleNssais = <<>> /\ set.singleNssais = <<>>
                             ELSE DOMAIN set.defaultSingleNssais # {}

LEMMA SliceInfoRead ==
  ASSUME NEW set, SliceInfoShape(set), NEW others \in set.nssaiOthers
  PROVE  LET j == SliceInfoToJson(others, set)
         IN  /\ Is(j, "object")
             /\ SliceInfoFaults(j) = {}
             /\ Objects(j, "defaultSingleNssais") # {}
             /\ Elements(j, "defaultSingleNssais") = NssaisToJson(set.defaultSingleNssais)
             /\ Elements(j, "singleNssais") = NssaisToJson(set.singleNssais)
             /\ Carried(j, {}) = others
<1> DEFINE D == NssaisToJson(set.defaultSingleNssais)
           S == NssaisToJson(set.singleNssais)
           M == [defaultSingleNssais |-> ListValue(D), singleNssais |-> ListValue(S)]
           j == SliceInfoToJson(others, set)
<1>1. /\ DOMAIN M = {"defaultSingleNssais", "singleNssais"}
      /\ M["defaultSingleNssais"] = ListValue(D)
      /\ M["singleNssais"] = ListValue(S)
  OBVIOUS
<1>2. j = Object(others, M)
  BY DEF SliceInfoToJson
<1>3. /\ DOMAIN D # {}
      /\ \A i \in DOMAIN D : Is(D[i], "object") /\ NssaiDetailsFaults(D[i]) = {}
      /\ \A i \in DOMAIN S : Is(S[i], "object") /\ NssaiDetailsFaults(S[i]) = {}
  BY NssaisRead DEF SliceInfoShape
<1> HIDE DEF M, j, D, S
<1>4. \A x \in DOMAIN M : x \in MemberNames /\ AtMostOne(M[x])
  BY <1>1, Once DEF MemberNames
<1>5. /\ Is(j, "object")
      /\ Carried(j, {}) = others
      /\ At(j, "defaultSingleNssais") = ListValue(D)
      /\ At(j, "singleNssais") = ListValue(S)
  BY <1>1, <1>2, <1>4, WrittenOnce DEF SliceInfoShape
<1>6. /\ Elements(j, "defaultSingleNssais") = D
      /\ ArrayFaults(j, {"defaultSingleNssais"}, "object") = {}
      /\ Objects(j, "defaultSingleNssais") = {D[i] : i \in DOMAIN D}
  BY <1>3, <1>5, ListRead
<1>7. /\ Elements(j, "singleNssais") = S
      /\ ArrayFaults(j, {"singleNssais"}, "object") = {}
      /\ Objects(j, "singleNssais") = {S[i] : i \in DOMAIN S}
  BY <1>3, <1>5, ListRead
<1>8. ArrayFaults(j, {"defaultSingleNssais", "singleNssais"}, "object") = {}
  BY <1>6, <1>7 DEF ArrayFaults, Mistyped
<1>9. SliceInfoFaults(j) = {}
  BY <1>3, <1>6, <1>7, <1>8 DEF SliceInfoFaults
<1> QED
  BY <1>3, <1>5, <1>6, <1>7, <1>9 DEF j, D, S

-------------------------------------------------------------------------------
(***************************************************************************)
(* plmnIdSet                                                               *)
(***************************************************************************)
LEMMA NssaisOfNssai ==
  ASSUME NEW j, NEW name, NEW s, Member(j, "nssai", "object") = {s}
  PROVE  NssaisFromJson(j, name)
           = [i \in DOMAIN Elements(s, name) |-> NssaiDetailsFromJson(Elements(s, name)[i])]
<1>1. UNION {{Elements(v, name)} : v \in Member(j, "nssai", "object")} = {Elements(s, name)}
  OBVIOUS
<1>2. (CHOOSE list \in {Elements(s, name)} : TRUE) = Elements(s, name)
  OBVIOUS
<1> QED
  BY <1>1, <1>2 DEF NssaisFromJson

LEMMA NoNssais ==
  ASSUME NEW j, NEW name, Member(j, "nssai", "object") = {}
  PROVE  NssaisFromJson(j, name) = <<>>
<1>1. UNION {{Elements(v, name)} : v \in Member(j, "nssai", "object")} = {}
  OBVIOUS
<1>2. NssaisFromJson(j, name) = [i \in DOMAIN <<>> |-> NssaiDetailsFromJson(<<>>[i])]
  BY <1>1 DEF NssaisFromJson
<1> QED
  BY <1>2, EmptyList DEF IsFcn

PlmnIdSetShape(set) ==
  /\ set = [plmnIdSetIdentifier |-> set.plmnIdSetIdentifier,
            defaultSingleNssais |-> set.defaultSingleNssais, singleNssais |-> set.singleNssais,
            nssaiOthers |-> set.nssaiOthers, dnnLists |-> set.dnnLists, others |-> set.others]
  /\ SliceInfoShape(set)
  /\ IsFcn(set.dnnLists) /\ \A i \in DOMAIN set.dnnLists : DnnListShape(set.dnnLists[i])
  /\ AreCarried(set.others, {})

\* What of the rules the dnnLists need to be read again.
DnnListsPass(set) == \A i \in DOMAIN set.dnnLists : DnnListErrors(set.dnnLists[i]) = {}

AllDnnListsPass(sets) == \A i \in DOMAIN sets : DnnListsPass(sets[i])

LEMMA PlmnIdSetRead ==
  ASSUME NEW set, PlmnIdSetShape(set), DnnListsPass(set)
  PROVE  LET j == PlmnIdSetToJson(set)
         IN  /\ Is(j, "object")
             /\ \A isSliceData : PlmnIdSetFaults(j, isSliceData) \subseteq EmptiedNames
             /\ PlmnIdSetFromJson(j) = set
<1> DEFINE L == set.dnnLists
           V == [i \in DOMAIN L |-> DnnListToJson(L[i])]
           N == {SliceInfoToJson(others, set) : others \in set.nssaiOthers}
           M == [plmnIdSetIdentifier |-> TextValue(set.plmnIdSetIdentifier), nssai |-> N,
                 dnnLists |-> ListValue(V)]
           o == set.others
           j == PlmnIdSetToJson(set)
<1>1. /\ DOMAIN M = {"plmnIdSetIdentifier", "nssai", "dnnLists"}
      /\ M["plmnIdSetIdentifier"] = TextValue(set.plmnIdSetIdentifier)
      /\ M["nssai"] = N
      /\ M["dnnLists"] = ListValue(V)
  <2> HIDE DEF N, V
  <2> QED
    OBVIOUS
<1>2. j = Object(o, M)
  BY DEF PlmnIdSetToJson
<1>3. AreCarried(o, {}) /\ IsFcn(L) /\ SliceInfoShape(set)
  BY DEF PlmnIdSetShape
<1>4. \A i \in DOMAIN L : DnnListErrors(L[i]) = {}
  BY DEF DnnListsPass
<1>5. \A i \in DOMAIN L : /\ Is(DnnListToJson(L[i]), "object")
                          /\ DnnListFaults(DnnListToJson(L[i])) \subseteq EmptiedNames
                          /\ DnnListFromJson(DnnListToJson(L[i])) = L[i]
  BY <1>4, DnnListRead DEF PlmnIdSetShape
<1>6. DOMAIN V = DOMAIN L /\ \A i \in DOMAIN L : V[i] = DnnListToJson(L[i])
  OBVIOUS
<1>7. AtMostOne(N)
  BY <1>3 DEF SliceInfoShape, AtMostOne
<1>8. \A s \in N : /\ Is(s, "object")
                   /\ SliceInfoFaults(s) = {}
                   /\ Objects(s, "defaultSingleNssais") # {}
                   /\ Elements(s, "defaultSingleNssais") = NssaisToJson(set.defaultSingleNssais)
                   /\ Elements(s, "singleNssais") = NssaisToJson(set.singleNssais)
  BY <1>3, SliceInfoRead
<1>9. {Carried(s, {}) : s \in N} = set.nssaiOthers
  BY <1>3, SliceInfoRead
<1>10. N = {} <=> set.nssaiOthers = {}
  OBVIOUS
<1> HIDE DEF M, V, L, N, j, o
<1>11. \A x \in DOMAIN M : x \in MemberNames /\ AtMostOne(M[x])
  BY <1>1, <1>7, Once DEF MemberNames
<1>12. /\ Is(j, "object")
       /\ Carried(j, {}) = o
       /\ At(j, "plmnIdSetIdentifier") = TextValue(set.plmnIdSetIdentifier)
       /\ At(j, "nssai") = N
       /\ At(j, "dnnLists") = ListValue(V)
  BY <1>1, <1>2, <1>3, <1>11, WrittenOnce
<1>13. /\ Text(j, "plmnIdSetIdentifier") = set.plmnIdSetIdentifier
       /\ Mistyped(j, {"plmnIdSetIdentifier"}, "string") = {}
  BY <1>12, TextRead, MistypedAt
<1>14. /\ Elements(j, "dnnLists") = V
       /\ ArrayFaults(j, {"dnnLists"}, "object") = {}
       /\ Objects(j, "dnnLists") = {V[i] : i \in DOMAIN V}
  <2>1. \A i \in DOMAIN V : Is(V[i], "object")
    BY <1>5, <1>6
  <2> QED
    BY <1>12, <2>1, ListRead
<1>15. Mistyped(j, {"nssai"}, "object") = {} /\ Member(j, "nssai", "object") = N
  BY <1>8, <1>12, ObjectsRead
<1>16. HasMember(j, "nssai") => HasDefaultSingleNssais(j)
  <2>1. HasMember(j, "nssai") => N # {}
    BY <1>12, HasMemberAt
  <2> QED
    BY <1>8, <1>15, <2>1 DEF HasDefaultSingleNssais
<1>17. ASSUME NEW isSliceData
       PROVE  PlmnIdSetFaults(j, isSliceData) \subseteq EmptiedNames
  <2>1. Missing(j, {"plmnIdSetIdentifier"}) \subseteq EmptiedNames
    BY DEF Missing, EmptiedNames
  <2>2. (UNION {SliceInfoFaults(s) : s \in Member(j, "nssai", "object")}) = {}
    BY <1>8, <1>15
  <2>3. Raise(HasMember(j, "nssai") /\ ~HasDefaultSingleNssais(j), "defaultSingleNssais") = {}
    BY <1>16 DEF Raise
  <2>4. (UNION {DnnListFaults(l) : l \in Objects(j, "dnnLists")}) \subseteq EmptiedNames
    BY <1>5, <1>6, <1>14
  <2>5. Raise(~isSliceData /\ ~HasMember(j, "dnnLists"), "dnnLists") \subseteq EmptiedNames
    BY DEF Raise, EmptiedNames
  <2> QED
    BY <1>13, <1>14, <1>15, <2>1, <2>2, <2>3, <2>4, <2>5 DEF PlmnIdSetFaults
<1>18. /\ NssaisFromJson(j, "defaultSingleNssais") = set.defaultSingleNssais
       /\ NssaisFromJson(j, "singleNssais") = set.singleNssais
  <2>1. CASE N = {}
    BY <1>3, <1>10, <1>15, <2>1, NoNssais DEF SliceInfoShape
  <2>2. ASSUME NEW s \in N
        PROVE  /\ NssaisFromJson(j, "defaultSingleNssais") = set.defaultSingleNssais
               /\ NssaisFromJson(j, "singleNssais") = set.singleNssais
    <3>1. Member(j, "nssai", "object") = {s}
      BY <1>7, <1>15 DEF AtMostOne
    <3> QED
      BY <1>3, <1>8, <3>1, NssaisOfNssai, NssaisRead DEF SliceInfoShape
  <2> QED
    BY <2>1, <2>2
<1>19. [i \in DOMAIN V |-> DnnListFromJson(V[i])] = L
  BY <1>3, <1>5, <1>6 DEF IsFcn
<1>20. PlmnIdSetFromJson(j) = set
  BY <1>9, <1>12, <1>13, <1>14, <1>15, <1>18, <1>19 DEF PlmnIdSetFromJson, PlmnIdSetShape, L, o
<1> QED
  BY <1>12, <1>17, <1>20 DEF j

-------------------------------------------------------------------------------
(***************************************************************************)
(* plmnIdSets, in a slice profile and in the udmSliceData of a             *)
(* subscription.                                                           *)
(***************************************************************************)
PlmnIdSetsShape(sets) == IsFcn(sets) /\ \A i \in DOMAIN sets : PlmnIdSetShape(sets[i])

LEMMA PlmnIdSetsRead ==
  ASSUME NEW sets, PlmnIdSetsShape(sets), AllDnnListsPass(sets),
         NEW j, At(j, "plmnIdSets") = plmnIdsToJson(sets)
  PROVE  /\ Mistyped(j, {"plmnIdSets"}, "array") = {}
         /\ \A isSliceData : UNION {PlmnIdSetFaults(s, isSliceData) :
                                    s \in Range(Elements(j, "plmnIdSets"))} \subseteq EmptiedNames
         /\ getPlmnIdSets(j) = sets
<1> DEFINE V == [i \in DOMAIN sets |-> PlmnIdSetToJson(sets[i])]
<1>1. \A i \in DOMAIN sets : DnnListsPass(sets[i])
  BY DEF AllDnnListsPass
<1>2. \A i \in DOMAIN sets :
        /\ Is(PlmnIdSetToJson(sets[i]), "object")
        /\ \A isSliceData : PlmnIdSetFaults(PlmnIdSetToJson(sets[i]), isSliceData) \subseteq EmptiedNames
        /\ PlmnIdSetFromJson(PlmnIdSetToJson(sets[i])) = sets[i]
  BY <1>1, PlmnIdSetRead DEF PlmnIdSetsShape
<1>3. DOMAIN V = DOMAIN sets /\ \A i \in DOMAIN V : V[i] = PlmnIdSetToJson(sets[i])
  OBVIOUS
<1>4. At(j, "plmnIdSets") = ListValue(V)
  BY DEF plmnIdsToJson
<1> HIDE DEF V
<1>5. \A i \in DOMAIN V : Is(V[i], "object")
  BY <1>2, <1>3
<1>6. Elements(j, "plmnIdSets") = V /\ Mistyped(j, {"plmnIdSets"}, "array") = {}
  BY <1>4, <1>5, ListRead
<1>7. ASSUME NEW isSliceData
      PROVE  UNION {PlmnIdSetFaults(s, isSliceData) : s \in Range(V)} \subseteq EmptiedNames
  BY <1>2, <1>3 DEF Range
<1>8. [i \in DOMAIN V |-> PlmnIdSetFromJson(V[i])] = sets
  BY <1>2, <1>3 DEF PlmnIdSetsShape, IsFcn
<1>9. getPlmnIdSets(j) = sets
  BY <1>6, <1>8 DEF getPlmnIdSets
<1> QED
  BY <1>6, <1>7, <1>9

UdmSliceProfileShape(p) ==
  /\ p = [udmSliceProfileId |-> p.udmSliceProfileId, plmnIdSets |-> p.plmnIdSets, others |-> p.others]
  /\ PlmnIdSetsShape(p.plmnIdSets) /\ AreCarried(p.others, {})

LEMMA UdmSliceProfileRead ==
  ASSUME NEW p, UdmSliceProfileShape(p), AllDnnListsPass(p.plmnIdSets)
  PROVE  LET j == udmSliceProfileToJson(p)
         IN  /\ Is(j, "object")
             /\ UdmSliceProfileFaults(j) \subseteq EmptiedNames
             /\ getUdmSliceProfile(j) = p
<1> DEFINE S == plmnIdsToJson(p.plmnIdSets)
           M == [udmSliceProfileId |-> TextValue(p.udmSliceProfileId), plmnIdSets |-> S]
           o == p.others
           j == udmSliceProfileToJson(p)
<1>1. /\ DOMAIN M = {"udmSliceProfileId", "plmnIdSets"}
      /\ M["udmSliceProfileId"] = TextValue(p.udmSliceProfileId)
      /\ M["plmnIdSets"] = S
  OBVIOUS
<1>2. j = Object(o, M)
  BY DEF udmSliceProfileToJson
<1>3. AreCarried(o, {}) /\ AtMostOne(S)
  BY Once DEF UdmSliceProfileShape, plmnIdsToJson
<1> HIDE DEF M, S, j, o
<1>4. \A x \in DOMAIN M : x \in MemberNames /\ AtMostOne(M[x])
  BY <1>1, <1>3, Once DEF MemberNames
<1>5. /\ Is(j, "object")
      /\ Carried(j, {}) = o
      /\ At(j, "udmSliceProfileId") = TextValue(p.udmSliceProfileId)
      /\ At(j, "plmnIdSets") = S
  BY <1>1, <1>2, <1>3, <1>4, WrittenOnce
<1>6. /\ Text(j, "udmSliceProfileId") = p.udmSliceProfileId
      /\ Mistyped(j, {"udmSliceProfileId"}, "string") = {}
  BY <1>5, TextRead, MistypedAt
<1>7. /\ UNION {PlmnIdSetFaults(s, FALSE) : s \in Range(Elements(j, "plmnIdSets"))} \subseteq EmptiedNames
      /\ getPlmnIdSets(j) = p.plmnIdSets
  BY <1>5, PlmnIdSetsRead DEF UdmSliceProfileShape, S
<1>8. UdmSliceProfileFaults(j) \subseteq EmptiedNames
  BY <1>6, <1>7 DEF UdmSliceProfileFaults
<1>9. getUdmSliceProfile(j) = p
  BY <1>5, <1>6, <1>7 DEF getUdmSliceProfile, UdmSliceProfileShape, o
<1> QED
  BY <1>5, <1>8, <1>9 DEF j

LEMMA UdmSliceDataRead ==
  ASSUME NEW sets, PlmnIdSetsShape(sets), AllDnnListsPass(sets)
  PROVE  LET j == Object(NoMembers, [plmnIdSets |-> plmnIdsToJson(sets)])
         IN  /\ Is(j, "object")
             /\ UdmSliceDataFaults(j) \subseteq EmptiedNames
             /\ getPlmnIdSets(j) = sets
<1> DEFINE M == [plmnIdSets |-> plmnIdsToJson(sets)]
           j == Object(NoMembers, M)
<1>1. DOMAIN M = {"plmnIdSets"} /\ M["plmnIdSets"] = plmnIdsToJson(sets)
  OBVIOUS
<1> HIDE DEF M
<1>2. \A x \in DOMAIN M : x \in MemberNames /\ AtMostOne(M[x])
  BY <1>1, Once DEF MemberNames, plmnIdsToJson
<1>3. Is(j, "object") /\ At(j, "plmnIdSets") = plmnIdsToJson(sets)
  BY <1>1, <1>2, NothingIsCarried, WrittenOnce
<1> HIDE DEF j
<1>4. /\ Mistyped(j, {"plmnIdSets"}, "array") = {}
      /\ UNION {PlmnIdSetFaults(s, TRUE) : s \in Range(Elements(j, "plmnIdSets"))} \subseteq EmptiedNames
      /\ getPlmnIdSets(j) = sets
  BY <1>3, PlmnIdSetsRead
<1>5. UdmSliceDataFaults(j) \subseteq EmptiedNames
  BY <1>4 DEF UdmSliceDataFaults
<1> QED
  BY <1>3, <1>4, <1>5 DEF j, M

-------------------------------------------------------------------------------
(***************************************************************************)
(* References to roaming areas                                             *)
(***************************************************************************)
AreasShape(areas) ==
  /\ IsFcn(areas)
  /\ \A i \in DOMAIN areas : /\ areas[i] = [id |-> areas[i].id, others |-> areas[i].others]
                             /\ AreCarried(areas[i].others, {})

LEMMA AreaReferenceRead ==
  ASSUME NEW a, AreCarried(a.others, {})
  PROVE  LET j == AreaReferenceToJson(a)
         IN  /\ Is(j, "object")
             /\ AreaReferenceFaults(j) \subseteq EmptiedNames
             /\ Text(j, "id") = a.id
             /\ Carried(j, {}) = a.others
<1> DEFINE M == [id |-> TextValue(a.id)]
           j == AreaReferenceToJson(a)
<1>1. DOMAIN M = {"id"} /\ M["id"] = TextValue(a.id)
  OBVIOUS
<1>2. j = Object(a.others, M)
  BY DEF AreaReferenceToJson
<1> HIDE DEF M, j
<1>3. \A x \in DOMAIN M : x \in MemberNames /\ AtMostOne(M[x])
  BY <1>1, Once DEF MemberNames
<1>4. Is(j, "object") /\ Carried(j, {}) = a.others /\ At(j, "id") = TextValue(a.id)
  BY <1>1, <1>2, <1>3, WrittenOnce
<1>5. Text(j, "id") = a.id /\ Mistyped(j, {"id"}, "string") = {}
  BY <1>4, TextRead, MistypedAt
<1>6. AreaReferenceFaults(j) \subseteq EmptiedNames
  BY <1>5 DEF AreaReferenceFaults, Missing, EmptiedNames
<1> QED
  BY <1>4, <1>5, <1>6 DEF j

LEMMA AreasRead ==
  ASSUME NEW areas, AreasShape(areas), NEW j, NEW name,
         At(j, name) = ListValue(AreaReferencesToJson(areas))
  PROVE  /\ Mistyped(j, {name}, "array") = {}
         /\ ArrayFaults(j, {name}, "object") = {}
         /\ \A v \in Range(Elements(j, name)) : AreaReferenceFaults(v) \subseteq EmptiedNames
         /\ AreaReferencesFromJson(j, name) = areas
<1> DEFINE V == AreaReferencesToJson(areas)
<1>1. DOMAIN V = DOMAIN areas /\ \A i \in DOMAIN V : V[i] = AreaReferenceToJson(areas[i])
  BY DEF AreaReferencesToJson
<1> HIDE DEF V
<1>2. \A i \in DOMAIN V : /\ Is(V[i], "object")
                          /\ AreaReferenceFaults(V[i]) \subseteq EmptiedNames
                          /\ Text(V[i], "id") = areas[i].id
                          /\ Carried(V[i], {}) = areas[i].others
  BY <1>1, AreaReferenceRead DEF AreasShape
<1>3. /\ Elements(j, name) = V
      /\ ArrayFaults(j, {name}, "object") = {}
      /\ Mistyped(j, {name}, "array") = {}
  BY <1>2, ListRead DEF V
<1>4. [i \in DOMAIN V |-> [id |-> Text(V[i], "id"), others |-> Carried(V[i], {})]] = areas
  BY <1>1, <1>2 DEF AreasShape, IsFcn
<1> QED
  BY <1>2, <1>3, <1>4 DEF AreaReferencesFromJson, Range

ServiceAreaRestrictionShape(r) ==
  /\ r = [present |-> r.present, restrictionType |-> r.restrictionType, areas |-> r.areas,
          hasMaxNumOfTas |-> r.hasMaxNumOfTas, others |-> r.others]
  /\ r.present \in BOOLEAN /\ AreasShape(r.areas) /\ AreCarried(r.others, {"maxNumOfTAs"})
  /\ r.hasMaxNumOfTas = ("maxNumOfTAs" \in DOMAIN r.others)
  /\ \A n \in {"maxNumOfTAs"} \cap DOMAIN r.others : Is(r.others[n], "int")
  /\ ~r.present => r.restrictionType = "" /\ r.areas = <<>> /\ r.others = NoMembers

LEMMA ServiceAreaRestrictionRead ==
  ASSUME NEW r, ServiceAreaRestrictionShape(r)
  PROVE  LET j == ServiceAreaRestrictionToJson(r)
         IN  /\ Is(j, "object")
             /\ ServiceAreaRestrictionFaults(j) \subseteq EmptiedNames
             /\ Text(j, "restrictionType") = r.restrictionType
             /\ AreaReferencesFromJson(j, "areas") = r.areas
             /\ HasMember(j, "maxNumOfTAs") = r.hasMaxNumOfTas
             /\ Carried(j, {"maxNumOfTAs"}) = r.others
<1> DEFINE A == AreaReferencesToJson(r.areas)
           M == [restrictionType |-> TextValue(r.restrictionType), areas |-> ListValue(A)]
           o == r.others
           j == ServiceAreaRestrictionToJson(r)
<1>1. /\ DOMAIN M = {"restrictionType", "areas"}
      /\ M["restrictionType"] = TextValue(r.restrictionType)
      /\ M["areas"] = ListValue(A)
  OBVIOUS
<1>2. j = Object(o, M)
  BY DEF ServiceAreaRestrictionToJson
<1>3. AreCarried(o, {"maxNumOfTAs"})
  BY DEF ServiceAreaRestrictionShape
<1> HIDE DEF M, A, j, o
<1>4. /\ \A x \in DOMAIN M : x \in MemberNames /\ x \notin {"maxNumOfTAs"}
      /\ \A x \in DOMAIN M : AtMostOne(M[x])
  BY <1>1, Once DEF MemberNames
<1>5. /\ Is(j, "object")
      /\ Carried(j, {"maxNumOfTAs"}) = o
      /\ \A n \in {"maxNumOfTAs"} : At(j, n) = {o[x] : x \in {n} \cap DOMAIN o}
  BY <1>2, <1>3, <1>4, ObjectWritten
<1>6. \A x \in DOMAIN M : At(j, x) = M[x]
  BY <1>2, <1>3, <1>4, ObjectWritten
<1>7. /\ Text(j, "restrictionType") = r.restrictionType
      /\ Mistyped(j, {"restrictionType"}, "string") = {}
  BY <1>1, <1>6, TextRead, MistypedAt
<1>8. /\ ArrayFaults(j, {"areas"}, "object") = {}
      /\ \A v \in Objects(j, "areas") : AreaReferenceFaults(v) \subseteq EmptiedNames
      /\ AreaReferencesFromJson(j, "areas") = r.areas
  <2>1. At(j, "areas") = ListValue(AreaReferencesToJson(r.areas)) /\ AreasShape(r.areas)
    BY <1>1, <1>6 DEF A, ServiceAreaRestrictionShape
  <2> QED
    BY <2>1, AreasRead DEF Objects
<1>9. /\ Mistyped(j, {"maxNumOfTAs"}, "int") = {}
      /\ HasMember(j, "maxNumOfTAs") = r.hasMaxNumOfTas
  <2>1. At(j, "maxNumOfTAs") = {o[x] : x \in {"maxNumOfTAs"} \cap DOMAIN o}
    BY <1>5
  <2>2. \A n \in {"maxNumOfTAs"} \cap DOMAIN o : Is(o[n], "int")
    BY DEF ServiceAreaRestrictionShape, o
  <2>3. Mistyped(j, {"maxNumOfTAs"}, "int") = {}
    BY <2>1, <2>2, MistypedAt
  <2>4. r.hasMaxNumOfTas = ("maxNumOfTAs" \in DOMAIN o)
    BY DEF ServiceAreaRestrictionShape, o
  <2>5. HasMember(j, "maxNumOfTAs") <=> "maxNumOfTAs" \in DOMAIN o
    BY <2>1, HasMemberAt
  <2>6. HasMember(j, "maxNumOfTAs") \in BOOLEAN
    BY DEF HasMember
  <2> QED
    BY <2>3, <2>4, <2>5, <2>6
<1>10. ServiceAreaRestrictionFaults(j) \subseteq EmptiedNames
  BY <1>7, <1>8, <1>9 DEF ServiceAreaRestrictionFaults
<1> QED
  BY <1>5, <1>7, <1>8, <1>9, <1>10 DEF j, o

-------------------------------------------------------------------------------
(***************************************************************************)
(* staticIpAddress. An address, and a dnn, that is empty is not written:   *)
(* what is written has no fault then, but it is read as something else.    *)
(***************************************************************************)
IpAddrShape(a) ==
  /\ a = [ipType |-> a.ipType, ip |-> a.ip, others |-> a.others]
  /\ a.ipType \in IpTypes /\ AreCarried(a.others, {})

LEMMA IpAddrRead ==
  ASSUME NEW a, IpAddrShape(a)
  PROVE  LET j == IpAddrToJson(a)
         IN  /\ Is(j, "object")
             /\ Mistyped(j, {IpMember(IpTypeOf(j))}, "string") = {}
             /\ IsWritten(a.ip) => HasAddress(j) /\ IpAddrFromJson(j) = a
<1> DEFINE name == IpMember(a.ipType)
           M == [n \in {name} |-> TextValue(a.ip)]
           o == a.others
           j == IpAddrToJson(a)
<1>1. DOMAIN M = {name} /\ M[name] = TextValue(a.ip)
  OBVIOUS
<1>2. j = Object(o, M)
  BY DEF IpAddrToJson
<1>3. AreCarried(o, {}) /\ a.ipType \in IpTypes
  BY DEF IpAddrShape
<1>4. /\ IpMember("IPv4") = "ipv4Addr" /\ IpMember("IPv6") = "ipv6Addr"
      /\ IpMember("IPv6Prefix") = "ipv6Prefix"
      /\ IpTypes = {"IPv4", "IPv6", "IPv6Prefix"}
  BY DEF IpMember, IpTypes
<1>5. name \in {"ipv4Addr", "ipv6Addr", "ipv6Prefix"}
  BY <1>3, <1>4
<1> HIDE DEF M, name, j, o
<1>6. {"ipv4Addr", "ipv6Addr", "ipv6Prefix"} \subseteq MemberNames
  BY DEF MemberNames
<1>7. \A x \in DOMAIN M : x \in MemberNames /\ AtMostOne(M[x])
  BY <1>1, <1>5, <1>6, Once
<1>8. /\ Is(j, "object")
      /\ Carried(j, {}) = o
      /\ At(j, name) = TextValue(a.ip)
      /\ \A n \in {"ipv4Addr", "ipv6Addr", "ipv6Prefix"} : n # name => At(j, n) = {}
  BY <1>1, <1>2, <1>3, <1>6, <1>7, WrittenOnce
<1>9. Text(j, name) = a.ip /\ \A v \in At(j, name) : Is(v, "string")
  BY <1>8, TextRead
<1>10. IpMember(IpTypeOf(j)) \in {"ipv4Addr", "ipv6Addr", "ipv6Prefix"}
  BY <1>4 DEF IpTypeOf
<1>11. Mistyped(j, {IpMember(IpTypeOf(j))}, "string") = {}
  BY <1>8, <1>9, <1>10, MistypedAt
<1>12. ASSUME IsWritten(a.ip)
       PROVE  HasAddress(j) /\ IpAddrFromJson(j) = a
  <2>1. At(j, name) # {}
    BY <1>8, <1>12 DEF IsWritten
  <2>2. \A n \in {"ipv4Addr", "ipv6Addr", "ipv6Prefix"} : HasMember(j, n) <=> n = name
    BY <1>8, <2>1, HasMemberAt
  <2>3. IpTypeOf(j) = a.ipType
    BY <1>3, <1>4, <2>2 DEF IpTypeOf, name
  <2>4. HasAddress(j)
    BY <1>3, <1>5, <2>2 DEF HasAddress, name
  <2> QED
    BY <1>8, <1>9, <2>3, <2>4 DEF IpAddrFromJson, IpAddrShape, name, o
<1> QED
  BY <1>8, <1>11, <1>12 DEF j

DnnIpsShape(d) ==
  /\ d = [dnn |-> d.dnn, ipAddress |-> d.ipAddress, others |-> d.others]
  /\ IsFcn(d.ipAddress) /\ \A k \in DOMAIN d.ipAddress : IpAddrShape(d.ipAddress[k])
  /\ AreCarried(d.others, {})

LEMMA DnnIpsRead ==
  ASSUME NEW d, DnnIpsShape(d)
  PROVE  LET j == DnnIpsToJson(d)
             addresses == WithAddress(Elements(j, "ipAddress"))
         IN  /\ Is(j, "object")
             /\ DnnIpsFaults(j) = {}
             /\ At(j, "dnn") = TextValue(d.dnn)
             /\ Carried(j, {}) = d.others
             /\ AddressesWritten(d) =>
                  [k \in DOMAIN addresses |-> IpAddrFromJson(addresses[k])] = d.ipAddress
<1> DEFINE L == d.ipAddress
           V == [k \in DOMAIN L |-> IpAddrToJson(L[k])]
           M == [dnn |-> TextValue(d.dnn), ipAddress |-> {[array |-> V]}]
           o == d.others
           j == DnnIpsToJson(d)
<1>1. DOMAIN M = {"dnn", "ipAddress"} /\ M["dnn"] = TextValue(d.dnn) /\ M["ipAddress"] = {[array |-> V]}
  OBVIOUS
<1>2. j = Object(o, M)
  BY DEF DnnIpsToJson
<1>3. AreCarried(o, {}) /\ IsFcn(L) /\ \A k \in DOMAIN L : IpAddrShape(L[k])
  BY DEF DnnIpsShape
<1>4. DOMAIN V = DOMAIN L /\ \A k \in DOMAIN V : V[k] = IpAddrToJson(L[k])
  OBVIOUS
<1>5. AddressesWritten(d) => \A k \in DOMAIN L : IsWritten(L[k].ip)
  BY DEF AddressesWritten
<1> HIDE DEF M, V, L, j, o
<1>6. \A k \in DOMAIN V : /\ Is(V[k], "object")
                          /\ Mistyped(V[k], {IpMember(IpTypeOf(V[k]))}, "string") = {}
                          /\ IsWritten(L[k].ip) => HasAddress(V[k]) /\ IpAddrFromJson(V[k]) = L[k]
  BY <1>3, <1>4, IpAddrRead
<1> DEFINE Addressed(a) == Mistyped(a, {IpMember(IpTypeOf(a))}, "string")
<1>13. /\ \A k \in DOMAIN V : Is(V[k], "object")
       /\ \A k \in DOMAIN V : Addressed(V[k]) = {}
       /\ AddressesWritten(d) => \A k \in DOMAIN V : HasAddress(V[k])
       /\ AddressesWritten(d) => \A k \in DOMAIN V : IpAddrFromJson(V[k]) = L[k]
  <2>1. \A k \in DOMAIN V : Is(V[k], "object")
    BY <1>6
  <2>2. \A k \in DOMAIN V : Addressed(V[k]) = {}
    BY <1>6, Zenon
  <2>3. ASSUME AddressesWritten(d), NEW k \in DOMAIN V
        PROVE  HasAddress(V[k]) /\ IpAddrFromJson(V[k]) = L[k]
    <3>1. IsWritten(L[k].ip)
      BY <1>4, <1>5, <2>3
    <3> QED
      BY <1>6, <3>1, Zenon
  <2> HIDE DEF Addressed
  <2> QED
    BY <2>1, <2>2, <2>3
<1> HIDE DEF Addressed
<1>7. \A x \in DOMAIN M : x \in MemberNames /\ AtMostOne(M[x])
  BY <1>1, Once DEF MemberNames
<1>8. /\ Is(j, "object")
      /\ Carried(j, {}) = o
      /\ At(j, "dnn") = TextValue(d.dnn)
      /\ At(j, "ipAddress") = {[array |-> V]}
  BY <1>1, <1>2, <1>3, <1>7, WrittenOnce
<1>9. Mistyped(j, {"dnn"}, "string") = {}
  BY <1>8, TextRead, MistypedAt
<1>10. Elements(j, "ipAddress") = V /\ Mistyped(j, {"ipAddress"}, "array") = {}
  BY <1>8, <1>13, ListRead
<1>11. DnnIpsFaults(j) = {}
  <2>1. UNION {Addressed(a) : a \in Range(V)} = {}
    BY <1>13 DEF Range
  <2> QED
    BY <1>9, <1>10, <2>1 DEF DnnIpsFaults, Addressed
<1>12. ASSUME AddressesWritten(d)
       PROVE  WithAddress(V) = V /\ [k \in DOMAIN V |-> IpAddrFromJson(V[k])] = L
  <2>1. \A a \in Range(V) : HasAddress(a)
    BY <1>12, <1>13 DEF Range
  <2>2. WithAddress(V) = V
    BY <2>1 DEF WithAddress
  <2> QED
    BY <1>3, <1>4, <1>12, <1>13, <2>2 DEF IsFcn
<1> QED
  BY <1>8, <1>10, <1>11, <1>12 DEF j, L, o

LEMMA DnnAtRead ==
  ASSUME NEW list, DnnsReadBack(list), NEW V, DOMAIN V = DOMAIN list,
         \A i \in DOMAIN V : At(V[i], "dnn") = TextValue(list[i].dnn),
         NEW i \in DOMAIN V
  PROVE  DnnAt(V, i) = list[i].dnn
<1> DEFINE given == {k \in 1..i : HasMember(V[k], "dnn")}
<1>1. i \in Nat \ {0} /\ i \in 1..i /\ 1..i \subseteq DOMAIN V
  BY DEF DnnsReadBack
<1>2. \A k \in 1..i : HasMember(V[k], "dnn") <=> TextValue(list[k].dnn) # {}
  BY <1>1, HasMemberAt
<1>3. IsWritten(list[i].dnn) \/ \A k \in 1..i : TextValue(list[k].dnn) = {}
  BY DEF DnnsReadBack
<1>4. Text(V[i], "dnn") = list[i].dnn
  BY TextRead
<1>5. CASE \A k \in 1..i : TextValue(list[k].dnn) = {}
  <2>1. given = {}
    BY <1>2, <1>5
  <2>2. list[i].dnn = ""
    BY <1>1, <1>5 DEF TextValue
  <2> QED
    BY <2>1, <2>2 DEF DnnAt
<1>6. CASE IsWritten(list[i].dnn)
  <2>1. i \in given
    BY <1>1, <1>2, <1>6 DEF IsWritten
  <2>2. Max(given) = i
    BY <1>1, <2>1 DEF Max
  <2> QED
    BY <1>4, <2>1, <2>2 DEF DnnAt
<1> QED
  BY <1>3, <1>5, <1>6

NssaiDnnIpsShape(e) ==
  /\ e = [snssai |-> e.snssai, dnnIpList |-> e.dnnIpList, others |-> e.others]
  /\ e.snssai = [sst |-> e.snssai.sst, sd |-> e.snssai.sd, others |-> e.snssai.others]
  /\ AreCarried(e.snssai.others, {}) /\ AreCarried(e.others, {})
  /\ IsFcn(e.dnnIpList) /\ \A i \in DOMAIN e.dnnIpList : DnnIpsShape(e.dnnIpList[i])

LEMMA NssaiDnnIpsRead ==
  ASSUME NEW e, NssaiDnnIpsShape(e)
  PROVE  LET j == NssaiDnnIpsToJson(e)
         IN  /\ Is(j, "object")
             /\ NssaiDnnIpsFaults(j) = {}
             /\ \A memory : NssaiDnnIpsFromJson(j, memory).snssai.sst = e.snssai.sst
             /\ DnnsReadBack(e.dnnIpList) => \A memory : NssaiDnnIpsFromJson(j, memory) = e
<1> DEFINE s == SnssaiToJson(e.snssai.others, e.snssai.sst, e.snssai.sd)
           L == e.dnnIpList
           V == [i \in DOMAIN L |-> DnnIpsToJson(L[i])]
           M == [nssai |-> {s}, dnnIpList |-> {[array |-> V]}]
           o == e.others
           j == NssaiDnnIpsToJson(e)
<1>1. DOMAIN M = {"nssai", "dnnIpList"} /\ M["nssai"] = {s} /\ M["dnnIpList"] = {[array |-> V]}
  OBVIOUS
<1>2. j = Object(o, M)
  BY DEF NssaiDnnIpsToJson
<1>3. AreCarried(o, {}) /\ IsFcn(L) /\ \A i \in DOMAIN L : DnnIpsShape(L[i])
  BY DEF NssaiDnnIpsShape
<1>4. DOMAIN V = DOMAIN L /\ \A i \in DOMAIN V : V[i] = DnnIpsToJson(L[i])
  OBVIOUS
<1>5. /\ Is(s, "object")
      /\ SnssaiFaults(s) = {}
      /\ s.object["sst"].int = e.snssai.sst
      /\ Text(s, "sd") = e.snssai.sd
      /\ Carried(s, {}) = e.snssai.others
  BY SnssaiRead DEF NssaiDnnIpsShape
<1> HIDE DEF M, V, L, j, o, s
<1>6. \A x \in DOMAIN M : x \in MemberNames /\ AtMostOne(M[x])
  BY <1>1, Once DEF MemberNames
<1>7. /\ Is(j, "object")
      /\ Carried(j, {}) = o
      /\ At(j, "nssai") = {s}
      /\ At(j, "dnnIpList") = {[array |-> V]}
  BY <1>1, <1>2, <1>3, <1>6, WrittenOnce
<1>8. /\ \A i \in DOMAIN V : Is(V[i], "object")
      /\ \A i \in DOMAIN V : DnnIpsFaults(V[i]) = {}
      /\ \A i \in DOMAIN V : At(V[i], "dnn") = TextValue(L[i].dnn)
      /\ \A i \in DOMAIN V : Carried(V[i], {}) = L[i].others
  BY <1>3, <1>4, DnnIpsRead
<1>9. /\ Elements(j, "dnnIpList") = V
      /\ ArrayFaults(j, {"dnnIpList"}, "object") = {}
      /\ Objects(j, "dnnIpList") = {V[i] : i \in DOMAIN V}
  BY <1>7, <1>8, ListRead
<1>10. /\ Mistyped(j, {"nssai"}, "object") = {}
       /\ Member(j, "nssai", "object") = {s}
       /\ HasMember(j, "nssai")
       /\ j.object["nssai"] = s
  <2>1. Mistyped(j, {"nssai"}, "object") = {} /\ Member(j, "nssai", "object") = {s}
    BY <1>5, <1>7, MistypedAt, MemberAt
  <2>2. HasMember(j, "nssai")
    BY <1>7, HasMemberAt
  <2>3. j.object["nssai"] = s
    BY <1>7, ValueAt
  <2> QED
    BY <2>1, <2>2, <2>3
<1>11. NssaiDnnIpsFaults(j) = {}
  <2>1. (UNION {SnssaiFaults(v) : v \in Member(j, "nssai", "object")}) = {}
    BY <1>5, <1>10
  <2>2. UNION {DnnIpsFaults(d) : d \in Objects(j, "dnnIpList")} = {}
    BY <1>8, <1>9
  <2> QED
    BY <1>9, <1>10, <2>1, <2>2 DEF NssaiDnnIpsFaults
<1>13. ASSUME NEW memory
       PROVE  NssaiDnnIpsFromJson(j, memory).snssai.sst = e.snssai.sst
  <2>1. SstOf(j, memory) = e.snssai.sst
    BY <1>5, <1>10 DEF SstOf
  <2> QED
    BY <2>1 DEF NssaiDnnIpsFromJson
<1>12. ASSUME DnnsReadBack(L), NEW memory
       PROVE  NssaiDnnIpsFromJson(j, memory) = e
  <2>1. ASSUME NEW i \in DOMAIN V
        PROVE  DnnIpsFromJson(V, i) = L[i]
    <3> DEFINE addresses == WithAddress(Elements(V[i], "ipAddress"))
    <3>1. DnnIpsShape(L[i]) /\ AddressesWritten(L[i]) /\ V[i] = DnnIpsToJson(L[i])
      BY <1>3, <1>4, <1>12 DEF DnnsReadBack
    <3>2. [k \in DOMAIN addresses |-> IpAddrFromJson(addresses[k])] = L[i].ipAddress
      BY <3>1, DnnIpsRead
    <3>3. DnnAt(V, i) = L[i].dnn
      BY <1>4, <1>8, <1>12, DnnAtRead
    <3> QED
      BY <1>8, <3>1, <3>2, <3>3 DEF DnnIpsFromJson, DnnIpsShape
  <2>2. [i \in DOMAIN V |-> DnnIpsFromJson(V, i)] = L
    BY <1>3, <1>4, <2>1 DEF IsFcn
  <2>3. SstOf(j, memory) = e.snssai.sst
    BY <1>5, <1>10 DEF SstOf
  <2> QED
    BY <1>5, <1>7, <1>9, <1>10, <2>2, <2>3 DEF NssaiDnnIpsFromJson, NssaiDnnIpsShape, L, o
<1> QED
  BY <1>7, <1>11, <1>12, <1>13 DEF j, L

StaticIpAddressShape(s) ==
  /\ s = [nssaiDnnIpLists |-> s.nssaiDnnIpLists, others |-> s.others]
  /\ IsFcn(s.nssaiDnnIpLists)
  /\ \A i \in DOMAIN s.nssaiDnnIpLists : NssaiDnnIpsShape(s.nssaiDnnIpLists[i])
  /\ AreCarried(s.others, {})

\* The numbers of a static IP address.
Ssts(s) == [i \in DOMAIN s.nssaiDnnIpLists |-> s.nssaiDnnIpLists[i].snssai.sst]

LEMMA StaticIpAddressRead ==
  ASSUME NEW s, StaticIpAddressShape(s)
  PROVE  LET j == StaticIpAddressToJson(s)
         IN  /\ Is(j, "object")
             /\ StaticIpAddressFaults(j) \subseteq EmptiedNames
             /\ \A memory : Ssts(StaticIpAddressFromJson(j, memory)) = Ssts(s)
             /\ StaticIpReadsBack(s) => \A memory : StaticIpAddressFromJson(j, memory) = s
<1> DEFINE L == s.nssaiDnnIpLists
           V == [i \in DOMAIN L |-> NssaiDnnIpsToJson(L[i])]
           M == [nssaiDnnIpLists |-> ListValue(V)]
           o == s.others
           j == StaticIpAddressToJson(s)
<1>1. DOMAIN M = {"nssaiDnnIpLists"} /\ M["nssaiDnnIpLists"] = ListValue(V)
  OBVIOUS
<1>2. j = Object(o, M)
  BY DEF StaticIpAddressToJson
<1>3. AreCarried(o, {}) /\ IsFcn(L) /\ \A i \in DOMAIN L : NssaiDnnIpsShape(L[i])
  BY DEF StaticIpAddressShape
<1>4. DOMAIN V = DOMAIN L /\ \A i \in DOMAIN V : V[i] = NssaiDnnIpsToJson(L[i])
  OBVIOUS
<1>5. StaticIpReadsBack(s) => \A i \in DOMAIN L : DnnsReadBack(L[i].dnnIpList)
  BY DEF StaticIpReadsBack
<1> HIDE DEF M, V, L, j, o
<1>6. \A x \in DOMAIN M : x \in MemberNames /\ AtMostOne(M[x])
  BY <1>1, Once DEF MemberNames
<1>7. Is(j, "object") /\ Carried(j, {}) = o /\ At(j, "nssaiDnnIpLists") = ListValue(V)
  BY <1>1, <1>2, <1>3, <1>6, WrittenOnce
<1>8. /\ \A i \in DOMAIN V : Is(V[i], "object")
      /\ \A i \in DOMAIN V : NssaiDnnIpsFaults(V[i]) = {}
  BY <1>3, <1>4, NssaiDnnIpsRead
<1>9. Elements(j, "nssaiDnnIpLists") = V /\ Mistyped(j, {"nssaiDnnIpLists"}, "array") = {}
  BY <1>7, <1>8, ListRead
<1>10. StaticIpAddressFaults(j) \subseteq EmptiedNames
  <2>1. UNION {NssaiDnnIpsFaults(e) : e \in Range(Elements(j, "nssaiDnnIpLists"))} = {}
    BY <1>8, <1>9 DEF Range
  <2>2. Missing(j, {"nssaiDnnIpLists"}) \subseteq EmptiedNames
    BY DEF Missing, EmptiedNames
  <2> QED
    BY <1>9, <2>1, <2>2 DEF StaticIpAddressFaults
<1>12. ASSUME NEW memory
       PROVE  Ssts(StaticIpAddressFromJson(j, memory)) = Ssts(s)
  <2> DEFINE r == StaticIpAddressFromJson(j, memory)
  <2>1. r.nssaiDnnIpLists = [i \in DOMAIN V |-> NssaiDnnIpsFromJson(V[i], memory)]
    BY <1>9 DEF StaticIpAddressFromJson
  <2> HIDE DEF r
  <2>2. \A i \in DOMAIN V : NssaiDnnIpsFromJson(V[i], memory).snssai.sst = L[i].snssai.sst
    BY <1>3, <1>4, NssaiDnnIpsRead
  <2>3. Ssts(r) = [i \in DOMAIN L |-> L[i].snssai.sst]
    BY <1>4, <2>1, <2>2 DEF Ssts
  <2> QED
    BY <2>3 DEF Ssts, L, r
<1>11. ASSUME StaticIpReadsBack(s), NEW memory
       PROVE  StaticIpAddressFromJson(j, memory) = s
  <2>1. \A i \in DOMAIN V : NssaiDnnIpsFromJson(V[i], memory) = L[i]
    BY <1>3, <1>4, <1>5, <1>11, NssaiDnnIpsRead
  <2>2. [i \in DOMAIN V |-> NssaiDnnIpsFromJson(V[i], memory)] = L
    BY <1>3, <1>4, <2>1 DEF IsFcn
  <2> QED
    BY <1>7, <1>9, <2>2 DEF StaticIpAddressFromJson, StaticIpAddressShape, L, o
<1> QED
  BY <1>7, <1>10, <1>11, <1>12 DEF j

-------------------------------------------------------------------------------
(***************************************************************************)
(* udmStaticData                                                           *)
(***************************************************************************)
LEMMA UdmSliceProfileIdRead ==
  ASSUME NEW others, AreCarried(others, {}), NEW id
  PROVE  LET j == Object(others, [id |-> TextValue(id)])
         IN  /\ Is(j, "object")
             /\ UdmSliceProfileIdFaults(j) \subseteq EmptiedNames
             /\ Text(j, "id") = id
             /\ Carried(j, {}) = others
<1> DEFINE M == [id |-> TextValue(id)]
           j == Object(others, M)
<1>1. DOMAIN M = {"id"} /\ M["id"] = TextValue(id)
  OBVIOUS
<1> HIDE DEF M
<1>2. \A x \in DOMAIN M : x \in MemberNames /\ AtMostOne(M[x])
  BY <1>1, Once DEF MemberNames
<1>3. Is(j, "object") /\ Carried(j, {}) = others /\ At(j, "id") = TextValue(id)
  BY <1>1, <1>2, WrittenOnce
<1> HIDE DEF j
<1>4. Text(j, "id") = id /\ Mistyped(j, {"id"}, "string") = {}
  BY <1>3, TextRead, MistypedAt
<1>5. UdmSliceProfileIdFaults(j) \subseteq EmptiedNames
  BY <1>4 DEF UdmSliceProfileIdFaults, Missing, Empty, EmptiedNames
<1> QED
  BY <1>3, <1>4, <1>5 DEF j, M

LEMMA Booleans ==
  ASSUME NEW j, NEW name, NEW b \in BOOLEAN, HasMember(j, name) <=> b
  PROVE  HasMember(j, name) = b
  BY DEF HasMember

LEMMA RestrictionRead ==
  ASSUME NEW r, ServiceAreaRestrictionShape(r), NEW j,
         At(j, "serviceAreaRestriction") =
           {ServiceAreaRestrictionToJson(x) : x \in {x \in {r} : x.present}}
  PROVE  /\ \A v \in At(j, "serviceAreaRestriction") :
              Is(v, "object") /\ ServiceAreaRestrictionFaults(v) \subseteq EmptiedNames
         /\ ServiceAreaRestrictionFromJson(j) = r
<1> DEFINE v == ServiceAreaRestrictionToJson(r)
<1>0. r.present \in BOOLEAN
  BY DEF ServiceAreaRestrictionShape
<1>1. CASE r.present
  <2>1. At(j, "serviceAreaRestriction") = {v}
    BY <1>1
  <2> HIDE DEF v
  <2>2. HasMember(j, "serviceAreaRestriction") /\ j.object["serviceAreaRestriction"] = v
    BY <2>1, HasMemberAt, ValueAt
  <2>3. /\ Is(v, "object")
        /\ ServiceAreaRestrictionFaults(v) \subseteq EmptiedNames
        /\ Text(v, "restrictionType") = r.restrictionType
        /\ AreaReferencesFromJson(v, "areas") = r.areas
        /\ HasMember(v, "maxNumOfTAs") = r.hasMaxNumOfTas
        /\ Carried(v, {"maxNumOfTAs"}) = r.others
    BY ServiceAreaRestrictionRead DEF v
  <2>4. HasMember(j, "serviceAreaRestriction") = r.present
    BY <1>0, <1>1, <2>2, Booleans
  <2> QED
    BY <2>1, <2>2, <2>3, <2>4 DEF ServiceAreaRestrictionFromJson, ServiceAreaRestrictionShape
<1>2. CASE ~r.present
  <2>1. At(j, "serviceAreaRestriction") = {}
    BY <1>2
  <2>2. ~HasMember(j, "serviceAreaRestriction")
    BY <2>1, HasMemberAt
  <2>3. HasMember(j, "serviceAreaRestriction") = r.present
    BY <1>0, <1>2, <2>2, Booleans
  <2>4. DOMAIN EmptyObject.object = {}
    BY DEF EmptyObject, NoMembers
  <2>5. \A name, type : Member(EmptyObject, name, type) = {}
    BY <2>4 DEF Member, HasMember
  <2>6. Text(EmptyObject, "restrictionType") = r.restrictionType
    BY <1>2, <2>5 DEF Text, ServiceAreaRestrictionShape
  <2>7. AreaReferencesFromJson(EmptyObject, "areas") = r.areas
    <3>1. Elements(EmptyObject, "areas") = <<>>
      BY <2>5 DEF Elements
    <3>2. AreaReferencesFromJson(EmptyObject, "areas") = <<>>
      BY <3>1, EmptyList DEF AreaReferencesFromJson, IsFcn
    <3> QED
      BY <1>2, <3>2 DEF ServiceAreaRestrictionShape
  <2>8. Carried(EmptyObject, {"maxNumOfTAs"}) = r.others
    <3>1. Carried(EmptyObject, {"maxNumOfTAs"}) = <<>>
      BY <2>4, EmptyList DEF Carried, IsFcn
    <3> QED
      BY <1>2, <3>1 DEF ServiceAreaRestrictionShape, NoMembers
  <2>9. HasMember(EmptyObject, "maxNumOfTAs") = r.hasMaxNumOfTas
    <3>1. r.hasMaxNumOfTas = ("maxNumOfTAs" \in DOMAIN NoMembers)
      BY <1>2 DEF ServiceAreaRestrictionShape
    <3>2. DOMAIN NoMembers = {}
      BY DEF NoMembers
    <3> QED
      BY <2>4, <3>1, <3>2 DEF HasMember
  <2>10. ServiceAreaRestrictionFromJson(j) =
           [present |-> r.present, restrictionType |-> Text(EmptyObject, "restrictionType"),
            areas |-> AreaReferencesFromJson(EmptyObject, "areas"),
            hasMaxNumOfTas |-> HasMember(EmptyObject, "maxNumOfTAs"),
            others |-> Carried(EmptyObject, {"maxNumOfTAs"})]
    BY <2>2, <2>3 DEF ServiceAreaRestrictionFromJson
  <2> QED
    BY <2>1, <2>6, <2>7, <2>8, <2>9, <2>10 DEF ServiceAreaRestrictionShape
<1> QED
  BY <1>1, <1>2

UdmStaticDataCarried == UdmStaticDataFlags \cup UdmStaticDataNumbers

UdmStaticDataShape(u) ==
  /\ u = [udmSliceProfileId |-> u.udmSliceProfileId, idOthers |-> u.idOthers,
          subscribedUeAmbr |-> u.subscribedUeAmbr, ratRestrictions |-> u.ratRestrictions,
          coreNetworkTypeRestrictions |-> u.coreNetworkTypeRestrictions,
          forbiddenAreas |-> u.forbiddenAreas,
          serviceAreaRestriction |-> u.serviceAreaRestriction,
          dlPacketCount |-> u.dlPacketCount, ueUsageType |-> u.ueUsageType,
          roamingOdb |-> u.roamingOdb, staticIpAddress |-> u.staticIpAddress,
          udmSliceData |-> u.udmSliceData, others |-> u.others]
  /\ AreCarried(u.idOthers, {})
  /\ AtMostOne(u.subscribedUeAmbr) /\ \A r \in u.subscribedUeAmbr : AmbrShape(r)
  /\ IsFcn(u.ratRestrictions) /\ IsFcn(u.coreNetworkTypeRestrictions)
  /\ AreasShape(u.forbiddenAreas) /\ ServiceAreaRestrictionShape(u.serviceAreaRestriction)
  /\ AtMostOne(u.dlPacketCount) /\ AtMostOne(u.ueUsageType)
  /\ AtMostOne(u.staticIpAddress) /\ \A s \in u.staticIpAddress : StaticIpAddressShape(s)
  /\ AtMostOne(u.udmSliceData) /\ \A sets \in u.udmSliceData : PlmnIdSetsShape(sets)
  /\ AreCarried(u.others, UdmStaticDataCarried)
  /\ \A n \in UdmStaticDataFlags \cap DOMAIN u.others : Is(u.others[n], "bool")
  /\ \A n \in UdmStaticDataNumbers \cap DOMAIN u.others : Is(u.others[n], "int")

\* Two subscriptions with the same numbers, and the same udmSliceData.
SameNumbers(u, v) ==
  /\ u.dlPacketCount = v.dlPacketCount /\ u.ueUsageType = v.ueUsageType
  /\ u.udmSliceData = v.udmSliceData
  /\ {Ssts(s) : s \in u.staticIpAddress} = {Ssts(s) : s \in v.staticIpAddress}

LEMMA UdmStaticDataRead ==
  ASSUME NEW u, UdmStaticDataShape(u),
         \A sets \in u.udmSliceData : AllDnnListsPass(sets)
  PROVE  LET j == udmStaticDataToJson(u)
         IN  /\ Is(j, "object")
             /\ UdmStaticDataFaults(j) \subseteq EmptiedNames
             /\ \A memory : SameNumbers(getUdmStaticData(j, memory), u)
             /\ (\A s \in u.staticIpAddress : StaticIpReadsBack(s)) =>
                  \A memory : getUdmStaticData(j, memory) = u
<1> DEFINE id == Object(u.idOthers, [id |-> TextValue(u.udmSliceProfileId)])
           ambr == {AmbrToJson(r) : r \in u.subscribedUeAmbr}
           rats == ListValue(Strings(u.ratRestrictions))
           cores == ListValue(Strings(u.coreNetworkTypeRestrictions))
           areas == ListValue(AreaReferencesToJson(u.forbiddenAreas))
           restriction == {ServiceAreaRestrictionToJson(r) :
                             r \in {r \in {u.serviceAreaRestriction} : r.present}}
           packets == UNION {IntValue(n) : n \in u.dlPacketCount}
           usage == UNION {IntValue(n) : n \in u.ueUsageType}
           static == {StaticIpAddressToJson(s) : s \in u.staticIpAddress}
           slices == {Object(NoMembers, [plmnIdSets |-> plmnIdsToJson(sets)]) : sets \in u.udmSliceData}
           M == [udmSliceProfileId |-> {id}, subscribedUeAmbr |-> ambr, ratRestrictions |-> rats,
                 coreNetworkTypeRestrictions |-> cores, forbiddenAreas |-> areas,
                 serviceAreaRestriction |-> restriction, dlPacketCount |-> packets,
                 ueUsageType |-> usage, roamingOdb |-> TextValue(u.roamingOdb),
                 staticIpAddress |-> static, udmSliceData |-> slices]
           o == u.others
           j == udmStaticDataToJson(u)
<1>1. /\ DOMAIN M = {"udmSliceProfileId", "subscribedUeAmbr", "ratRestrictions",
                     "coreNetworkTypeRestrictions", "forbiddenAreas", "serviceAreaRestriction",
                     "dlPacketCount", "ueUsageType", "roamingOdb", "staticIpAddress", "udmSliceData"}
      /\ M["udmSliceProfileId"] = {id} /\ M["subscribedUeAmbr"] = ambr
      /\ M["ratRestrictions"] = rats /\ M["coreNetworkTypeRestrictions"] = cores
      /\ M["forbiddenAreas"] = areas /\ M["serviceAreaRestriction"] = restriction
      /\ M["dlPacketCount"] = packets /\ M["ueUsageType"] = usage
      /\ M["roamingOdb"] = TextValue(u.roamingOdb)
      /\ M["staticIpAddress"] = static /\ M["udmSliceData"] = slices
  <2> HIDE DEF id, ambr, rats, cores, areas, restriction, packets, usage, static, slices
  <2> QED
    OBVIOUS
<1>2. j = Object(o, M)
  BY DEF udmStaticDataToJson
<1>3. /\ AreCarried(o, UdmStaticDataCarried)
      /\ \A n \in UdmStaticDataFlags \cap DOMAIN o : Is(o[n], "bool")
      /\ \A n \in UdmStaticDataNumbers \cap DOMAIN o : Is(o[n], "int")
  BY DEF UdmStaticDataShape
<1>4. /\ AtMostOne(ambr) /\ AtMostOne(static) /\ AtMostOne(slices)
  BY DEF UdmStaticDataShape, AtMostOne
<1>5. AtMostOne(restriction)
  BY DEF AtMostOne
<1>6. AtMostOne(packets) /\ AtMostOne(usage)
  BY DEF UdmStaticDataShape, AtMostOne, IntValue
<1>7. AtMostOne(rats) /\ AtMostOne(cores) /\ AtMostOne(areas)
  BY Once
<1> HIDE DEF M, j, o, id, ambr, rats, cores, areas, restriction, packets, usage, static, slices
<1>8. \A x \in DOMAIN M : x \in MemberNames /\ x \notin UdmStaticDataCarried
  BY <1>1 DEF MemberNames, UdmStaticDataCarried, UdmStaticDataFlags, UdmStaticDataNumbers
<1>9. \A x \in DOMAIN M : AtMostOne(M[x])
  BY <1>1, <1>4, <1>5, <1>6, <1>7, Once
<1>10. /\ Is(j, "object")
       /\ Carried(j, UdmStaticDataCarried) = o
       /\ \A n \in UdmStaticDataCarried : At(j, n) = {o[x] : x \in {n} \cap DOMAIN o}
  BY <1>2, <1>3, <1>8, ObjectWritten
<1>11. \A x \in DOMAIN M : At(j, x) = M[x]
  BY <1>2, <1>3, <1>8, <1>9, ObjectWritten
<1>12. /\ At(j, "udmSliceProfileId") = {id} /\ At(j, "subscribedUeAmbr") = ambr
       /\ At(j, "ratRestrictions") = rats /\ At(j, "coreNetworkTypeRestrictions") = cores
       /\ At(j, "forbiddenAreas") = areas /\ At(j, "serviceAreaRestriction") = restriction
       /\ At(j, "dlPacketCount") = packets /\ At(j, "ueUsageType") = usage
       /\ At(j, "roamingOdb") = TextValue(u.roamingOdb)
       /\ At(j, "staticIpAddress") = static /\ At(j, "udmSliceData") = slices
  BY <1>1, <1>11
<1>13. /\ Is(id, "object")
       /\ UdmSliceProfileIdFaults(id) \subseteq EmptiedNames
       /\ Text(id, "id") = u.udmSliceProfileId
       /\ Carried(id, {}) = u.idOthers
  BY UdmSliceProfileIdRead DEF UdmStaticDataShape, id
<1>14. /\ \A v \in ambr : /\ Is(v, "object")
                          /\ SubscribedUeAmbrFaults(v) \subseteq EmptiedNames
       /\ {AmbrFromJson(v) : v \in ambr} = u.subscribedUeAmbr
  BY AmbrRead DEF UdmStaticDataShape, SubscribedUeAmbrFaults, ambr
<1>15. /\ \A v \in static : /\ Is(v, "object")
                            /\ StaticIpAddressFaults(v) \subseteq EmptiedNames
       /\ \A memory : {Ssts(StaticIpAddressFromJson(v, memory)) : v \in static}
                         = {Ssts(s) : s \in u.staticIpAddress}
       /\ (\A s \in u.staticIpAddress : StaticIpReadsBack(s)) =>
            \A memory : {StaticIpAddressFromJson(v, memory) : v \in static} = u.staticIpAddress
  BY StaticIpAddressRead DEF UdmStaticDataShape, static
<1>16. /\ \A v \in slices : /\ Is(v, "object")
                            /\ UdmSliceDataFaults(v) \subseteq EmptiedNames
       /\ {getPlmnIdSets(v) : v \in slices} = u.udmSliceData
  BY UdmSliceDataRead DEF UdmStaticDataShape, slices
<1>17. /\ \A v \in restriction : /\ Is(v, "object")
                                 /\ ServiceAreaRestrictionFaults(v) \subseteq EmptiedNames
       /\ ServiceAreaRestrictionFromJson(j) = u.serviceAreaRestriction
  BY <1>12, RestrictionRead DEF UdmStaticDataShape, restriction
<1>18. /\ Texts(j, "ratRestrictions") = u.ratRestrictions
       /\ ArrayFaults(j, {"ratRestrictions"}, "string") = {}
       /\ Texts(j, "coreNetworkTypeRestrictions") = u.coreNetworkTypeRestrictions
       /\ ArrayFaults(j, {"coreNetworkTypeRestrictions"}, "string") = {}
  BY <1>12, TextsRead DEF UdmStaticDataShape, rats, cores
<1>19. /\ Mistyped(j, {"forbiddenAreas"}, "array") = {}
       /\ \A v \in Range(Elements(j, "forbiddenAreas")) : AreaReferenceFaults(v) \subseteq EmptiedNames
       /\ AreaReferencesFromJson(j, "forbiddenAreas") = u.forbiddenAreas
  BY <1>12, AreasRead DEF UdmStaticDataShape, areas
<1>20. /\ Optional(j, "dlPacketCount", "int") = u.dlPacketCount
       /\ Optional(j, "ueUsageType", "int") = u.ueUsageType
       /\ \A v \in At(j, "dlPacketCount") \cup At(j, "ueUsageType") : Is(v, "int")
  BY <1>12, NumbersRead DEF packets, usage
<1>21. /\ Text(j, "roamingOdb") = u.roamingOdb
       /\ Mistyped(j, {"roamingOdb"}, "string") = {}
       /\ Empty(j, {"roamingOdb"}) = {}
  <2>1. [string |-> ""] \notin TextValue(u.roamingOdb)
    BY DEF TextValue
  <2> QED
    BY <1>12, <2>1, TextRead, MistypedAt, MemberAt DEF Empty
<1>22. /\ \A v \in At(j, "udmSliceProfileId") \cup At(j, "subscribedUeAmbr")
                    \cup At(j, "serviceAreaRestriction") : Is(v, "object")
       /\ Member(j, "udmSliceProfileId", "object") = {id}
       /\ Member(j, "subscribedUeAmbr", "object") = ambr
       /\ Member(j, "serviceAreaRestriction", "object") = restriction
       /\ Member(j, "staticIpAddress", "object") = static
       /\ Member(j, "udmSliceData", "object") = slices
       /\ j.object["udmSliceProfileId"] = id
  BY <1>12, <1>13, <1>14, <1>15, <1>16, <1>17, MemberAt, ValueAt
<1>23. UdmStaticDataFaults(j) \subseteq EmptiedNames
  <2>1. Missing(j, {"udmSliceProfileId"}) = {}
    BY <1>12, MissingAt
  <2>2. Mistyped(j, {"udmSliceProfileId", "subscribedUeAmbr", "serviceAreaRestriction"}, "object") = {}
    BY <1>22, MistypedAt
  <2>3. ArrayFaults(j, {"ratRestrictions", "coreNetworkTypeRestrictions"}, "string") = {}
    BY <1>18 DEF ArrayFaults, Mistyped
  <2>4. Mistyped(j, UdmStaticDataFlags, "bool") = {}
    BY <1>3, <1>10, FlagsRead DEF UdmStaticDataCarried
  <2>5. Mistyped(j, UdmStaticDataNumbers \cup {"dlPacketCount", "ueUsageType"}, "int") = {}
    <3>1. Mistyped(j, UdmStaticDataNumbers, "int") = {}
      BY <1>3, <1>10, FlagsRead DEF UdmStaticDataCarried
    <3>2. Mistyped(j, {"dlPacketCount", "ueUsageType"}, "int") = {}
      BY <1>20, MistypedAt
    <3> QED
      BY <3>1, <3>2 DEF Mistyped
  <2>6. (UNION {UdmSliceProfileIdFaults(v) : v \in Member(j, "udmSliceProfileId", "object")}) \subseteq EmptiedNames
    BY <1>13, <1>22
  <2>7. (UNION {SubscribedUeAmbrFaults(v) : v \in Member(j, "subscribedUeAmbr", "object")}) \subseteq EmptiedNames
    BY <1>14, <1>22
  <2>8. (UNION {AreaReferenceFaults(v) : v \in Range(Elements(j, "forbiddenAreas"))}) \subseteq EmptiedNames
    BY <1>19
  <2>9. (UNION {ServiceAreaRestrictionFaults(v) :
                  v \in Member(j, "serviceAreaRestriction", "object")}) \subseteq EmptiedNames
    BY <1>17, <1>22
  <2>10. (UNION {StaticIpAddressFaults(v) : v \in Member(j, "staticIpAddress", "object")}) \subseteq EmptiedNames
    BY <1>15, <1>22
  <2>11. UNION {UdmSliceDataFaults(v) : v \in Member(j, "udmSliceData", "object")} \subseteq EmptiedNames
    BY <1>16, <1>22
  <2> QED
    BY <1>19, <1>21, <2>1, <2>2, <2>3, <2>4, <2>5, <2>6, <2>7, <2>8, <2>9, <2>10, <2>11
    DEF UdmStaticDataFaults
<1>25. ASSUME NEW memory
       PROVE  SameNumbers(getUdmStaticData(j, memory), u)
  <2> DEFINE g == getUdmStaticData(j, memory)
  <2>1. /\ g.dlPacketCount = Optional(j, "dlPacketCount", "int")
        /\ g.ueUsageType = Optional(j, "ueUsageType", "int")
        /\ g.udmSliceData = {getPlmnIdSets(v) : v \in slices}
        /\ g.staticIpAddress = {StaticIpAddressFromJson(v, memory) : v \in static}
    BY <1>22 DEF getUdmStaticData
  <2> HIDE DEF g
  <2>2. {Ssts(s) : s \in g.staticIpAddress} = {Ssts(s) : s \in u.staticIpAddress}
    <3>1. {Ssts(s) : s \in g.staticIpAddress} = {Ssts(StaticIpAddressFromJson(v, memory)) : v \in static}
      BY <2>1
    <3> QED
      BY <1>15, <3>1
  <2> QED
    BY <1>16, <1>20, <2>1, <2>2 DEF SameNumbers, g
<1>24. ASSUME \A s \in u.staticIpAddress : StaticIpReadsBack(s), NEW memory
       PROVE  getUdmStaticData(j, memory) = u
  <2>1. {StaticIpAddressFromJson(v, memory) : v \in static} = u.staticIpAddress
    BY <1>15, <1>24
  <2>2. Carried(j, UdmStaticDataFlags \cup UdmStaticDataNumbers) = u.others
    BY <1>10 DEF UdmStaticDataCarried, o
  <2> DEFINE g == getUdmStaticData(j, memory)
  <2>3. g = [udmSliceProfileId |-> Text(id, "id"), idOthers |-> Carried(id, {}),
             subscribedUeAmbr |-> {AmbrFromJson(v) : v \in ambr},
             ratRestrictions |-> Texts(j, "ratRestrictions"),
             coreNetworkTypeRestrictions |-> Texts(j, "coreNetworkTypeRestrictions"),
             forbiddenAreas |-> AreaReferencesFromJson(j, "forbiddenAreas"),
             serviceAreaRestriction |-> ServiceAreaRestrictionFromJson(j),
             dlPacketCount |-> Optional(j, "dlPacketCount", "int"),
             ueUsageType |-> Optional(j, "ueUsageType", "int"),
             roamingOdb |-> Text(j, "roamingOdb"),
             staticIpAddress |-> {StaticIpAddressFromJson(v, memory) : v \in static},
             udmSliceData |-> {getPlmnIdSets(v) : v \in slices},
             others |-> Carried(j, UdmStaticDataFlags \cup UdmStaticDataNumbers)]
    BY <1>22 DEF getUdmStaticData
  <2> HIDE DEF g
  <2>4. g = [udmSliceProfileId |-> u.udmSliceProfileId, idOthers |-> u.idOthers,
             subscribedUeAmbr |-> u.subscribedUeAmbr, ratRestrictions |-> u.ratRestrictions,
             coreNetworkTypeRestrictions |-> u.coreNetworkTypeRestrictions,
             forbiddenAreas |-> u.forbiddenAreas,
             serviceAreaRestriction |-> u.serviceAreaRestriction,
             dlPacketCount |-> u.dlPacketCount, ueUsageType |-> u.ueUsageType,
             roamingOdb |-> u.roamingOdb, staticIpAddress |-> u.staticIpAddress,
             udmSliceData |-> u.udmSliceData, others |-> u.others]
    BY <1>13, <1>14, <1>16, <1>17, <1>18, <1>19, <1>20, <1>21, <2>1, <2>2, <2>3, Zenon
  <2> QED
    BY <2>4, Zenon DEF UdmStaticDataShape, g
<1> QED
  BY <1>10, <1>23, <1>24, <1>25 DEF j

-------------------------------------------------------------------------------
(***************************************************************************)
(* udmRoamingArea                                                          *)
(***************************************************************************)
AreaShape(a) ==
  /\ \/ a = [type |-> "tacs", tacs |-> a.tacs, others |-> a.others] /\ IsFcn(a.tacs)
     \/ a = [type |-> "areaCodes", areaCodes |-> a.areaCodes, others |-> a.others]
  /\ AreCarried(a.others, {})

\* The rules refuse an empty list of tacs.
LEMMA AreaRead ==
  ASSUME NEW a, AreaShape(a), a.type = "tacs" => a.tacs # <<>>
  PROVE  LET j == AreaToJson(a)
         IN  /\ Is(j, "object")
             /\ AreaFaults(j) \subseteq EmptiedNames
             /\ AreaFromJson(j) = a
<1> DEFINE o == a.others
<1>1. AreCarried(o, {})
  BY DEF AreaShape
<1>2. ASSUME a = [type |-> "tacs", tacs |-> a.tacs, others |-> a.others], IsFcn(a.tacs)
      PROVE  LET j == AreaToJson(a)
             IN  /\ Is(j, "object")
                 /\ AreaFaults(j) \subseteq EmptiedNames
                 /\ AreaFromJson(j) = a
  <2> DEFINE T == Strings(a.tacs)
             M == [tacs |-> ListValue(T)]
             j == AreaToJson(a)
  <2>1. a.type = "tacs"
    BY <1>2
  <2>2. DOMAIN M = {"tacs"} /\ M["tacs"] = ListValue(T)
    OBVIOUS
  <2>3. j = Object(o, M)
    BY <2>1 DEF AreaToJson
  <2>4. T # <<>>
    <3>1. DOMAIN a.tacs # {}
      BY <1>2, <2>1, EmptyList
    <3> QED
      BY <3>1 DEF Strings
  <2> HIDE DEF M, j, o
  <2>5. \A x \in DOMAIN M : x \in MemberNames /\ AtMostOne(M[x])
    BY <2>2, Once DEF MemberNames
  <2>6. "areaCodes" \in MemberNames /\ "areaCodes" \notin DOMAIN M
    BY <2>2 DEF MemberNames
  <2>7. Is(j, "object") /\ Carried(j, {}) = o /\ At(j, "tacs") = ListValue(T) /\ At(j, "areaCodes") = {}
    BY <1>1, <2>2, <2>3, <2>5, <2>6, WrittenOnce
  <2>8. At(j, "tacs") # {}
    BY <2>4, <2>7 DEF ListValue
  <2>9. HasMember(j, "tacs") /\ ~HasMember(j, "areaCodes")
    BY <2>7, <2>8, HasMemberAt
  <2>10. Texts(j, "tacs") = a.tacs /\ ArrayFaults(j, {"tacs"}, "string") = {}
    BY <1>2, <2>7, TextsRead
  <2>11. Missing(j, {"tacs"}) = {}
    BY <2>8, MissingAt
  <2>12. AreaFaults(j) \subseteq EmptiedNames
    BY <2>9, <2>10, <2>11 DEF AreaFaults
  <2>13. AreaFromJson(j) = a
    BY <1>2, <2>7, <2>9, <2>10 DEF AreaFromJson, o
  <2> QED
    BY <2>7, <2>12, <2>13 DEF j
<1>3. ASSUME a = [type |-> "areaCodes", areaCodes |-> a.areaCodes, others |-> a.others]
      PROVE  LET j == AreaToJson(a)
             IN  /\ Is(j, "object")
                 /\ AreaFaults(j) \subseteq EmptiedNames
                 /\ AreaFromJson(j) = a
  <2> DEFINE M == [areaCodes |-> TextValue(a.areaCodes)]
             j == AreaToJson(a)
  <2>1. a.type # "tacs"
    BY <1>3
  <2>2. DOMAIN M = {"areaCodes"} /\ M["areaCodes"] = TextValue(a.areaCodes)
    OBVIOUS
  <2>3. j = Object(o, M)
    BY <2>1 DEF AreaToJson
  <2> HIDE DEF M, j, o
  <2>4. \A x \in DOMAIN M : x \in MemberNames /\ AtMostOne(M[x])
    BY <2>2, Once DEF MemberNames
  <2>5. "tacs" \in MemberNames /\ "tacs" \notin DOMAIN M
    BY <2>2 DEF MemberNames
  <2>6. /\ Is(j, "object") /\ Carried(j, {}) = o
        /\ At(j, "areaCodes") = TextValue(a.areaCodes) /\ At(j, "tacs") = {}
    BY <1>1, <2>2, <2>3, <2>4, <2>5, WrittenOnce
  <2>7. Text(j, "areaCodes") = a.areaCodes /\ Mistyped(j, {"areaCodes"}, "string") = {}
    BY <2>6, TextRead, MistypedAt
  <2>8. ~HasMember(j, "tacs")
    BY <2>6, HasMemberAt
  <2>9. ArrayFaults(j, {"tacs"}, "string") = {}
    <3>1. Mistyped(j, {"tacs"}, "array") = {} /\ Member(j, "tacs", "array") = {}
      BY <2>6, MistypedAt, MemberAt
    <3>2. Elements(j, "tacs") = <<>>
      BY <3>1 DEF Elements
    <3>3. Range(<<>>) = {}
      BY DEF Range
    <3> QED
      BY <3>1, <3>2, <3>3 DEF ArrayFaults
  <2>10. AreaFaults(j) \subseteq EmptiedNames
    BY <2>7, <2>9 DEF AreaFaults, Missing, EmptiedNames
  <2>11. AreaFromJson(j) = a
    BY <1>3, <2>6, <2>7, <2>8 DEF AreaFromJson, o
  <2> QED
    BY <2>6, <2>10, <2>11 DEF j
<1> QED
  BY <1>2, <1>3 DEF AreaShape

UdmRoamingAreaShape(area) ==
  /\ area = [udmRoamingAreaId |-> area.udmRoamingAreaId, areaList |-> area.areaList,
             others |-> area.others]
  /\ IsFcn(area.areaList) /\ \A i \in DOMAIN area.areaList : AreaShape(area.areaList[i])
  /\ AreCarried(area.others, {})

LEMMA UdmRoamingAreaRead ==
  ASSUME NEW area, UdmRoamingAreaShape(area), checkForCommonUdmRoamingAreaRules(area) = {}
  PROVE  LET j == udmRoamingAreaToJson(area)
         IN  /\ Is(j, "object")
             /\ UdmRoamingAreaFaults(j) \subseteq EmptiedNames
             /\ getUdmRoamingAreas(j) = area
<1> DEFINE L == area.areaList
           V == [i \in DOMAIN L |-> AreaToJson(L[i])]
           M == [udmRoamingAreaId |-> TextValue(area.udmRoamingAreaId), areaList |-> ListValue(V)]
           o == area.others
           j == udmRoamingAreaToJson(area)
<1>1. /\ DOMAIN M = {"udmRoamingAreaId", "areaList"}
      /\ M["udmRoamingAreaId"] = TextValue(area.udmRoamingAreaId)
      /\ M["areaList"] = ListValue(V)
  OBVIOUS
<1>2. j = Object(o, M)
  BY DEF udmRoamingAreaToJson
<1>3. AreCarried(o, {}) /\ IsFcn(L) /\ \A i \in DOMAIN L : AreaShape(L[i])
  BY DEF UdmRoamingAreaShape
<1>4. \A i \in DOMAIN L : L[i].type = "tacs" => L[i].tacs # <<>>
  <2>1. <<>> \notin TacLists(area)
    BY DEF checkForCommonUdmRoamingAreaRules, Raise
  <2> QED
    BY <2>1 DEF TacLists, Range
<1>5. DOMAIN V = DOMAIN L /\ \A i \in DOMAIN V : V[i] = AreaToJson(L[i])
  OBVIOUS
<1> HIDE DEF M, V, L, j, o
<1>6. \A i \in DOMAIN V : /\ Is(V[i], "object")
                          /\ AreaFaults(V[i]) \subseteq EmptiedNames
                          /\ AreaFromJson(V[i]) = L[i]
  BY <1>3, <1>4, <1>5, AreaRead
<1>7. \A x \in DOMAIN M : x \in MemberNames /\ AtMostOne(M[x])
  BY <1>1, Once DEF MemberNames
<1>8. /\ Is(j, "object")
      /\ Carried(j, {}) = o
      /\ At(j, "udmRoamingAreaId") = TextValue(area.udmRoamingAreaId)
      /\ At(j, "areaList") = ListValue(V)
  BY <1>1, <1>2, <1>3, <1>7, WrittenOnce
<1>9. /\ Text(j, "udmRoamingAreaId") = area.udmRoamingAreaId
      /\ Mistyped(j, {"udmRoamingAreaId"}, "string") = {}
  BY <1>8, TextRead, MistypedAt
<1>10. /\ Elements(j, "areaList") = V
       /\ ArrayFaults(j, {"areaList"}, "object") = {}
       /\ Objects(j, "areaList") = {V[i] : i \in DOMAIN V}
  BY <1>6, <1>8, ListRead
<1>11. UdmRoamingAreaFaults(j) \subseteq EmptiedNames
  <2>1. UNION {AreaFaults(a) : a \in Objects(j, "areaList")} \subseteq EmptiedNames
    BY <1>6, <1>10
  <2> QED
    BY <1>9, <1>10, <2>1 DEF UdmRoamingAreaFaults
<1>12. [i \in DOMAIN V |-> AreaFromJson(V[i])] = L
  BY <1>3, <1>5, <1>6 DEF IsFcn
<1>13. getUdmRoamingAreas(j) = area
  BY <1>8, <1>9, <1>10, <1>12 DEF getUdmRoamingAreas, UdmRoamingAreaShape, L, o
<1> QED
  BY <1>8, <1>11, <1>13 DEF j

-------------------------------------------------------------------------------
(***************************************************************************)
(* smsStaticData                                                           *)
(***************************************************************************)
SmsShape(sms) ==
  /\ sms = [a \in SmsAttributes \cup {"sections", "others"} |-> sms[a]]
  /\ \A a \in SmsAttributes : AtMostOne(sms[a])
  /\ sms.sections = [section \in SmsSections |-> sms.sections[section]]
  /\ \A section \in SmsSections :
       /\ AtMostOne(sms.sections[section])
       /\ \A carried \in sms.sections[section] : AreCarried(carried, {})
       /\ sms.sections[section] = {} => \A a \in AttributesOf(section) : sms[a] = {}
  /\ AreCarried(sms.others, {})

LEMMA SectionRead ==
  ASSUME NEW sms, SmsShape(sms), NEW section \in SmsSections, NEW carried, AreCarried(carried, {})
  PROVE  LET j == SectionToJson(carried, sms, section)
         IN  /\ Is(j, "object")
             /\ Mistyped(j, SmsAttributes, "bool") = {}
             /\ \A a \in AttributesOf(section) : Optional(j, a, "bool") = sms[a]
             /\ Carried(j, {}) = carried
<1> DEFINE A == AttributesOf(section)
           M == [a \in A |-> {[bool |-> b] : b \in sms[a]}]
           j == SectionToJson(carried, sms, section)
<1>1. DOMAIN M = A /\ \A a \in A : M[a] = {[bool |-> b] : b \in sms[a]}
  OBVIOUS
<1>2. j = Object(carried, M)
  BY DEF SectionToJson
<1>3. SmsAttributes \subseteq MemberNames
  BY DEF SmsAttributes, MemberNames
<1>4. A \subseteq SmsAttributes
  BY DEF AttributesOf, SmsAttributes
<1> HIDE DEF M, A, j
<1>5. \A x \in DOMAIN M : x \in MemberNames /\ AtMostOne(M[x])
  BY <1>1, <1>3, <1>4 DEF SmsShape, AtMostOne
<1>6. /\ Is(j, "object")
      /\ Carried(j, {}) = carried
      /\ \A a \in A : At(j, a) = {[bool |-> b] : b \in sms[a]}
      /\ \A a \in SmsAttributes : a \notin A => At(j, a) = {}
  BY <1>1, <1>2, <1>3, <1>5, WrittenOnce
<1>7. \A a \in SmsAttributes : \A v \in At(j, a) : Is(v, "bool")
  BY <1>6, Types
<1>8. Mistyped(j, SmsAttributes, "bool") = {}
  BY <1>7, MistypedAt
<1>9. ASSUME NEW a \in A
      PROVE  Optional(j, a, "bool") = sms[a]
  BY <1>6, BooleansRead
<1> QED
  BY <1>6, <1>8, <1>9 DEF j, A

LEMMA SmsRead ==
  ASSUME NEW sms, SmsShape(sms)
  PROVE  LET j == smsStaticDataToJson(sms)
         IN  /\ Is(j, "object")
             /\ SmsStaticDataFaults(j) = {}
             /\ getOptionalSmsStaticData(j) = sms
<1> DEFINE V(section) == {SectionToJson(carried, sms, section) : carried \in sms.sections[section]}
           M == [section \in SmsSections |-> V(section)]
           o == sms.others
           j == smsStaticDataToJson(sms)
<1>1. DOMAIN M = SmsSections /\ \A section \in SmsSections : M[section] = V(section)
  OBVIOUS
<1>2. j = Object(o, M)
  BY DEF smsStaticDataToJson
<1>3. /\ AreCarried(o, {})
      /\ \A section \in SmsSections : AtMostOne(V(section))
  BY DEF SmsShape, AtMostOne
<1>4. \A section \in SmsSections : \A v \in V(section) :
        /\ Is(v, "object")
        /\ Mistyped(v, SmsAttributes, "bool") = {}
        /\ \A a \in AttributesOf(section) : Optional(v, a, "bool") = sms[a]
  <2> SUFFICES ASSUME NEW section \in SmsSections, NEW carried \in sms.sections[section]
               PROVE  LET v == SectionToJson(carried, sms, section)
                      IN  /\ Is(v, "object")
                          /\ Mistyped(v, SmsAttributes, "bool") = {}
                          /\ \A a \in AttributesOf(section) : Optional(v, a, "bool") = sms[a]
    OBVIOUS
  <2>1. AreCarried(carried, {})
    BY DEF SmsShape
  <2> QED
    BY <2>1, SectionRead
<1>5. ASSUME NEW section \in SmsSections
      PROVE  {Carried(v, {}) : v \in V(section)} = sms.sections[section]
  <2>1. ASSUME NEW carried \in sms.sections[section]
        PROVE  Carried(SectionToJson(carried, sms, section), {}) = carried
    <3>1. AreCarried(carried, {})
      BY DEF SmsShape
    <3> QED
      BY <3>1, SectionRead
  <2> QED
    BY <2>1
<1>6. \A section \in SmsSections :
        V(section) = {} => \A a \in AttributesOf(section) : sms[a] = {}
  BY DEF SmsShape
<1> HIDE DEF M, V, j, o
<1>7. \A x \in DOMAIN M : x \in MemberNames /\ AtMostOne(M[x])
  BY <1>1, <1>3 DEF MemberNames, SmsSections
<1>8. /\ Is(j, "object")
      /\ Carried(j, {}) = o
      /\ \A section \in SmsSections : At(j, section) = V(section)
  BY <1>1, <1>2, <1>3, <1>7, WrittenOnce
<1>9. /\ Mistyped(j, SmsSections, "object") = {}
      /\ \A section \in SmsSections : Member(j, section, "object") = V(section)
  BY <1>4, <1>8, ObjectsRead
<1>10. SmsStaticDataFaults(j) = {}
  <2>1. Sections(j) = UNION {V(section) : section \in SmsSections}
    BY <1>9 DEF Sections
  <2>2. UNION {Mistyped(s, SmsAttributes, "bool") : s \in Sections(j)} = {}
    BY <1>4, <2>1
  <2> QED
    BY <1>9, <2>2 DEF SmsStaticDataFaults
<1> DEFINE Of(a) == {s \in SmsSections : a \in AttributesOf(s)}
           read(a) == UNION {Optional(s, a, "bool") :
                               s \in UNION {Member(j, section, "object") : section \in Of(a)}}
           g == getOptionalSmsStaticData(j)
<1>11. ASSUME NEW a \in SmsAttributes
       PROVE  read(a) = sms[a]
  <2>1. PICK section \in SmsSections : Of(a) = {section}
    BY DEF SmsSections, AttributesOf, SmsAttributes
  <2>2. UNION {Member(j, x, "object") : x \in Of(a)} = V(section)
    BY <1>9, <2>1
  <2>3. a \in AttributesOf(section)
    BY <2>1
  <2>4. read(a) = UNION {Optional(s, a, "bool") : s \in V(section)}
    BY <2>2
  <2>5. \A s \in V(section) : Optional(s, a, "bool") = sms[a]
    BY <1>4, <2>3
  <2> HIDE DEF read
  <2> QED
    BY <1>6, <2>3, <2>4, <2>5
<1>12. [section \in SmsSections |-> {Carried(s, {}) : s \in Member(j, section, "object")}]
         = sms.sections
  <2>1. \A section \in SmsSections :
          {Carried(s, {}) : s \in Member(j, section, "object")} = sms.sections[section]
    BY <1>5, <1>9
  <2> QED
    BY <2>1 DEF SmsShape
<1>13. /\ DOMAIN g = SmsAttributes \cup {"sections", "others"}
       /\ \A a \in SmsAttributes : g[a] = read(a)
       /\ g["sections"] = [section \in SmsSections |->
                             {Carried(s, {}) : s \in Member(j, section, "object")}]
       /\ g["others"] = Carried(j, {})
  <2>1. "sections" \notin SmsAttributes /\ "others" \notin SmsAttributes
    BY DEF SmsAttributes
  <2> QED
    BY <2>1 DEF getOptionalSmsStaticData
<1>14. g = [a \in SmsAttributes \cup {"sections", "others"} |-> g[a]]
  BY DEF getOptionalSmsStaticData
<1> HIDE DEF read, g
<1>15. \A a \in SmsAttributes \cup {"sections", "others"} : g[a] = sms[a]
  BY <1>8, <1>11, <1>12, <1>13 DEF o
<1>16. g = sms
  BY <1>14, <1>15 DEF SmsShape
<1> QED
  BY <1>8, <1>10, <1>16 DEF j, g

===============================================================================
