---------------------------- MODULE JsonRoundProofs ----------------------------
(***************************************************************************)
(* That what is stored on the rounds of JsonRound can be read again, and   *)
(* its numbers are in their ranges, whatever the messages are, the memory  *)
(* holds and the formats allow; and that these rounds are rounds of        *)
(* ProvisioningFlow, so that what is proved of ProvisioningFlow holds of   *)
(* the stored JSON.                                                        *)
(***************************************************************************)
EXTENDS JsonRound, JsonShapeProofs

(***************************************************************************)
(* The inductive invariant: what is answered with 200 is what the encoder  *)
(* wrote for changes that passed.                                          *)
(***************************************************************************)
RoundInv ==
  /\ TypeOK
  /\ ReadableDb(db)
  /\ Accepted => \A c \in Written : \A data \in Given(c, "data") : IsReadable(PathOf(c), data)

(***************************************************************************)
(* What the client finds in a change of an answer.                         *)
(***************************************************************************)
LEMMA PathGiven ==
  ASSUME NEW members, NEW p, Given(members, "resource_path") = {[string |-> p]}
  PROVE  PathOf(members) = p
<1> DEFINE strings == {v \in Given(members, "resource_path") : Is(v, "string")}
           paths == {v.string : v \in strings}
<1>1. strings = {[string |-> p]}
  BY DEF Is
<1> HIDE DEF strings
<1>2. paths = {p}
  BY <1>1
<1> USE DEF strings
<1>3. PathOf(members) = IF paths = {} THEN NoPath ELSE CHOOSE q \in paths : TRUE
  BY DEF PathOf
<1> HIDE DEF paths
<1> QED
  BY <1>2, <1>3

LEMMA ThreeMembers ==
  ASSUME NEW a, NEW b, NEW c, NEW w, w = <<a, b>> \o <<c>>
  PROVE  DOMAIN w = 1..3 /\ w[1] = a /\ w[2] = b /\ w[3] = c
<1> DEFINE S == {a, b, c}
<1>1. <<a, b>> \in Seq(S) /\ <<c>> \in Seq(S) /\ Len(<<a, b>>) = 2 /\ Len(<<c>>) = 1
  OBVIOUS
<1> QED
  BY <1>1

LEMMA WrittenChange ==
  ASSUME NEW change
  PROVE  LET w == ChangeToJson(change)
             j == ResourceToJson(change.path.kind, change.data)
         IN  /\ Given(w, "operation") = {[string |-> change.operation]}
             /\ PathOf(w) = change.path
             /\ change.operation = "DELETE" => Given(w, "data") = {} /\ DataRead(w) = {}
             /\ change.operation # "DELETE" => Given(w, "data") = {j} /\ DataRead(w) = {j}
<1> DEFINE op == <<"operation", [string |-> change.operation]>>
           path == <<"resource_path", [string |-> change.path]>>
           j == ResourceToJson(change.path.kind, change.data)
           data == <<"data", j>>
           w == ChangeToJson(change)
<1>1. CASE change.operation = "DELETE"
  <2>1. w = <<op, path>>
    BY <1>1 DEF ChangeToJson
  <2>2. DOMAIN w = 1..2 /\ w[1] = op /\ w[2] = path
    BY <2>1
  <2> HIDE DEF w
  <2>3. /\ PositionOf(w, "operation") = {1}
        /\ PositionOf(w, "resource_path") = {2}
        /\ PositionOf(w, "data") = {}
    BY <2>2 DEF PositionOf
  <2>4. /\ Given(w, "operation") = {[string |-> change.operation]}
        /\ Given(w, "resource_path") = {[string |-> change.path]}
        /\ Given(w, "data") = {}
    BY <2>2, <2>3 DEF Given
  <2>5. DataRead(w) = {}
    BY <2>3 DEF DataRead
  <2> QED
    BY <1>1, <2>4, <2>5, PathGiven DEF w
<1>2. CASE change.operation # "DELETE"
  <2>1. w = <<op, path>> \o <<data>>
    BY <1>2 DEF ChangeToJson
  <2> HIDE DEF op, path, data
  <2>2. DOMAIN w = 1..3 /\ w[1] = op /\ w[2] = path /\ w[3] = data
    BY <2>1, ThreeMembers
  <2> USE DEF op, path, data
  <2> HIDE DEF w, j
  <2>3. /\ PositionOf(w, "operation") = {1}
        /\ PositionOf(w, "resource_path") = {2}
        /\ PositionOf(w, "data") = {3}
    BY <2>2 DEF PositionOf
  <2>4. /\ Given(w, "operation") = {[string |-> change.operation]}
        /\ Given(w, "resource_path") = {[string |-> change.path]}
        /\ Given(w, "data") = {j}
    BY <2>2, <2>3 DEF Given
  <2>5. DataRead(w) = {j}
    BY <2>2, <2>3 DEF DataRead
  <2> QED
    BY <1>2, <2>4, <2>5, PathGiven DEF w, j
<1> QED
  BY <1>1, <1>2

(***************************************************************************)
(* An answer with 200 has the changes of a body without faults, all of     *)
(* which pass.                                                             *)
(***************************************************************************)
LEMMA AnswersAllowed ==
  ASSUME NEW b, NEW m, NEW a \in MayAnswer(getValidationData(b, m))
  PROVE  /\ a.code \in {HTTP_OK, HTTP_BAD_REQUEST, HTTP_CONFLICT, HTTP_UNPROCESSABLE_ENTITY,
                        HTTP_INTERNAL_SERVER_ERROR}
         /\ a.code = HTTP_OK =>
              /\ Readable(b)
              /\ AllPass(getChangesToValidate(b, m), getRelatedResources(b, m))
              /\ a.changes = Mutated(getChangesToValidate(b, m))
<1> DEFINE r == getValidationData(b, m)
<1>1. r.uri = "/"
  BY DEF getValidationData
<1>2. \A code, changes, errors : /\ Answer(code, changes, errors).code = code
                                 /\ Answer(code, changes, errors).changes = changes
  BY DEF Answer
<1>3. r.format = "ok" /\ r.errors = {} =>
        /\ Readable(b)
        /\ r.changes = getChangesToValidate(b, m)
        /\ r.related = getRelatedResources(b, m)
  BY DEF getValidationData, Readable
<1> HIDE DEF r
<1>4. \/ a = Answer(HTTP_BAD_REQUEST, <<>>, {"malformed request"})
      \/ a = Answer(HTTP_INTERNAL_SERVER_ERROR, <<>>, {"malformed response"})
      \/ \E errors : a = Answer(HTTP_CONFLICT, <<>>, errors)
      \/ r.format = "ok" /\ r.errors = {} /\ a = Verdict(r)
  BY <1>1 DEF MayAnswer, r
<1>5. CASE r.format = "ok" /\ r.errors = {} /\ a = Verdict(r)
  <2>1. CASE AllPass(r.changes, r.related)
    <3>1. a = Answer(HTTP_OK, Mutated(r.changes), {})
      BY <1>5, <2>1 DEF Verdict
    <3> QED
      BY <1>2, <1>3, <1>5, <2>1, <3>1
  <2>2. CASE ~AllPass(r.changes, r.related)
    <3>1. a = Answer(WorstCodeOf(r.changes, r.related), <<>>, ErrorsOf(r.changes, r.related))
      BY <1>5, <2>2 DEF Verdict
    <3>2. a.code = WorstCodeOf(r.changes, r.related)
      BY <1>2, <3>1
    <3>3. a.code \in {200, 409, 422}
      BY <3>2, CodesOfChanges
    <3>4. PICK i \in DOMAIN r.changes : ~CheckChange(r.changes[i], r.related).valid
      BY <2>2 DEF AllPass
    <3>5. CheckChange(r.changes[i], r.related).code # 200
      BY <3>4, CheckChangeConsistent DEF Consistent, HTTP_OK
    <3>6. a.code # 200
      BY <3>2, <3>3, <3>5, CodesOfChanges
    <3> QED
      BY <3>3, <3>6 DEF HTTP_OK, HTTP_CONFLICT, HTTP_UNPROCESSABLE_ENTITY
  <2> QED
    BY <2>1, <2>2
<1>6. CASE \/ a = Answer(HTTP_BAD_REQUEST, <<>>, {"malformed request"})
           \/ a = Answer(HTTP_INTERNAL_SERVER_ERROR, <<>>, {"malformed response"})
           \/ \E errors : a = Answer(HTTP_CONFLICT, <<>>, errors)
  <2> DEFINE codes == {HTTP_BAD_REQUEST, HTTP_INTERNAL_SERVER_ERROR, HTTP_CONFLICT}
  <2>1. ASSUME NEW code \in codes, NEW errors, a = Answer(code, <<>>, errors)
        PROVE  a.code \in codes
    <3>1. Answer(code, <<>>, errors).code = code
      BY <1>2
    <3> HIDE DEF codes
    <3> QED
      BY <2>1, <3>1, Zenon
  <2>2. a.code \in codes
    <3> HIDE DEF codes
    <3>1. /\ HTTP_BAD_REQUEST \in codes
          /\ HTTP_INTERNAL_SERVER_ERROR \in codes
          /\ HTTP_CONFLICT \in codes
      BY DEF codes
    <3> QED
      BY <1>6, <2>1, <3>1, Zenon
  <2>3. a.code # HTTP_OK
    BY <2>2 DEF HTTP_OK, HTTP_BAD_REQUEST, HTTP_INTERNAL_SERVER_ERROR, HTTP_CONFLICT
  <2> QED
    BY <2>2, <2>3
<1> QED
  BY <1>4, <1>5, <1>6

LEMMA AnsweredChanges ==
  ASSUME NEW b, NEW m, NEW a \in MayAnswer(getValidationData(b, m))
  PROVE  /\ validatorResponseToJson(a).code = a.code
         /\ validatorResponseToJson(a).changes
              = [i \in DOMAIN a.changes |-> ChangeToJson(a.changes[i])]
<1>1. \E code, changes, errors : a = Answer(code, changes, errors)
  BY DEF MayAnswer, Verdict
<1> QED
  BY <1>1 DEF Answer, validatorResponseToJson

LEMMA AnsweredData ==
  ASSUME NEW b, NEW m, NEW a \in MayAnswer(getValidationData(b, m)), a.code = HTTP_OK,
         NEW w \in Range(validatorResponseToJson(a).changes), NEW data \in Given(w, "data")
  PROVE  IsReadable(PathOf(w), data)
<1> DEFINE list == getChangesToValidate(b, m)
           related == getRelatedResources(b, m)
<1>1. validatorResponseToJson(a).changes = [i \in DOMAIN a.changes |-> ChangeToJson(a.changes[i])]
  BY AnsweredChanges
<1>2. PICK i \in DOMAIN a.changes : w = ChangeToJson(a.changes[i])
  BY <1>1 DEF Range
<1>3. BodyFaults(b) = {} /\ AllPass(list, related) /\ a.changes = Mutated(list)
  BY AnswersAllowed DEF Readable
<1> DEFINE members == b.changes[i]
           c == ChangeFromJson(members, m)
<1>4. i \in DOMAIN b.changes /\ list[i] = c /\ a.changes[i] = computeMutations(c)
  BY <1>3 DEF Mutated, getChangesToValidate
<1>5. CheckChange(c, related).valid
  BY <1>3, <1>4 DEF AllPass, getChangesToValidate
<1>6. ChangeFaults(members) = {}
  BY <1>3, <1>4 DEF BodyFaults
<1> HIDE DEF members, list, related
<1>7. c = [operation |-> c.operation, path |-> c.path, data |-> c.data]
  BY <1>6, DataOfChange
<1>8. c.operation # "DELETE"
  <2> SUFFICES ASSUME c.operation = "DELETE" PROVE FALSE
    OBVIOUS
  <2>1. computeMutations(c) = c
    BY DEF computeMutations
  <2>2. Given(w, "data") = {}
    BY <1>2, <1>4, <2>1, WrittenChange
  <2> QED
    BY <2>2
<1> DEFINE mutated == computeMutations(c)
           j == ResourceToJson(c.path.kind, mutated.data)
<1>9. /\ mutated.operation = c.operation
      /\ mutated.path = c.path
      /\ c.path.kind \in KindsWithRules
      /\ Is(j, "object")
      /\ ResourceFaults(c.path.kind, j) \subseteq EmptiedNames
  BY <1>5, <1>6, <1>8, AcceptedDataReadsBack
<1>10. w = ChangeToJson(mutated)
  BY <1>2, <1>4
<1> HIDE DEF mutated, c
<1>11. data = ResourceToJson(mutated.path.kind, mutated.data) /\ PathOf(w) = mutated.path
  BY <1>8, <1>9, <1>10, WrittenChange
<1> QED
  BY <1>9, <1>11 DEF IsReadable, KindsWithRules, PathKinds

(***************************************************************************)
(* What is stored is data of the answer, or what was there.                *)
(***************************************************************************)
LEMMA StoredFrom ==
  ASSUME Store, NEW p \in DOMAIN db'
  PROVE  \/ p \in DOMAIN db /\ db'[p] = db[p]
         \/ \E c \in Written : PathOf(c) = p /\ db'[p] \in Given(c, "data")
<1> DEFINE Of(q) == UNION {Given(c, "data") : c \in {c \in Written : PathOf(c) = q}}
<1>1. db' = [q \in {PathOf(c) : c \in Written} \cup (DOMAIN db \ Deleted) |->
               IF Of(q) = {} THEN db[q] ELSE CHOOSE d \in Of(q) : TRUE]
  BY DEF Store
<1>2. \A d \in Of(p) : \E c \in Written : PathOf(c) = p /\ d \in Given(c, "data")
  OBVIOUS
<1>3. \A c \in Written : Given(c, "data") # {} /\ Given(c, "data") \subseteq Of(PathOf(c))
  BY DEF Written
<1> HIDE DEF Of
<1>4. CASE Of(p) = {}
  BY <1>1, <1>3, <1>4
<1>5. CASE Of(p) # {}
  <2>1. db'[p] \in Of(p)
    BY <1>1, <1>5
  <2> QED
    BY <1>2, <2>1
<1> QED
  BY <1>4, <1>5

LEMMA StoredResource ==
  ASSUME ReadableDb(db), Store,
         \A c \in Written : \A data \in Given(c, "data") : IsReadable(PathOf(c), data)
  PROVE  ReadableDb(db')
  BY StoredFrom DEF ReadableDb

-------------------------------------------------------------------------------
(* The invariant                                                               *)

LEMMA NothingAnswered == NoAnswer.code = HTTP_OK /\ NoAnswer.changes = <<>> /\ NoBody.changes = <<>>
  BY DEF NoAnswer, NoBody, Answer

LEMMA RoundInvInit ==
  ASSUME Init
  PROVE  RoundInv
<1>1. ReadableDb(db) /\ step = "idle" /\ ~Accepted
  BY InitialDbAssumption DEF Init, Accepted
<1>2. TypeOK
  BY <1>1, NothingAnswered DEF Init, TypeOK, ReadableDb, IsReadable
<1> QED
  BY <1>1, <1>2 DEF RoundInv

\* A client that forgets its round has a type, if the database has.
LEMMA ForgottenRound ==
  ASSUME Forget, ReadableDb(db)'
  PROVE  RoundInv'
<1>1. step' = "idle" /\ body' = NoBody /\ answer' = NoAnswer /\ memory' = 0
  BY DEF Forget
<1>2. TypeOK'
  BY <1>1, NothingAnswered DEF TypeOK, ReadableDb, IsReadable
<1>3. ~Accepted'
  BY <1>1 DEF Accepted
<1> QED
  BY <1>2, <1>3 DEF RoundInv

LEMMA RoundInvNext ==
  ASSUME RoundInv, [Next]_vars
  PROVE  RoundInv'
<1>1. TypeOK /\ ReadableDb(db)
  BY DEF RoundInv
<1>2. CASE Send
  <2>1. /\ db' = db /\ answer' = answer /\ step' = "sent" /\ step = "idle"
        /\ memory' \in Uninitialized
        /\ body'.changes \in Messages
    BY <1>2 DEF Send
  <2>2. answer' = NoAnswer
    BY <1>1, <2>1 DEF TypeOK
  <2>3. TypeOK'
    BY <1>1, <2>1, <2>2 DEF TypeOK
  <2>4. ~Accepted'
    BY <2>1 DEF Accepted
  <2> QED
    BY <1>1, <2>1, <2>3, <2>4 DEF RoundInv, ReadableDb
<1>3. CASE Handle
  <2>1. PICK a \in MayAnswer(getValidationData(body, memory)) : answer' = validatorResponseToJson(a)
    BY <1>3 DEF Handle
  <2>2. db' = db /\ body' = body /\ memory' = memory /\ step' = "answered"
    BY <1>3 DEF Handle
  <2>3. answer'.code = a.code
    BY <2>1, AnsweredChanges
  <2>4. a.code \in {HTTP_OK, HTTP_BAD_REQUEST, HTTP_CONFLICT, HTTP_UNPROCESSABLE_ENTITY,
                    HTTP_INTERNAL_SERVER_ERROR}
    BY AnswersAllowed
  <2>5. TypeOK'
    BY <1>1, <2>2, <2>3, <2>4 DEF TypeOK
  <2>6. Accepted' =>
          \A c \in Written' : \A data \in Given(c, "data") : IsReadable(PathOf(c), data)
    BY <2>1, <2>3, AnsweredData DEF Accepted, Written
  <2> QED
    BY <1>1, <2>2, <2>5, <2>6 DEF RoundInv, ReadableDb
<1>4. CASE Store
  <2>1. ReadableDb(db')
    BY <1>1, <1>4, StoredResource DEF RoundInv, Store
  <2>2. ReadableDb(db)'
    BY <2>1 DEF ReadableDb
  <2> QED
    BY <1>4, <2>2, ForgottenRound DEF Store
<1>5. CASE Abandon
  <2>1. Forget /\ ReadableDb(db)'
    BY <1>1, <1>5 DEF Abandon, ReadableDb
  <2> QED
    BY <2>1, ForgottenRound
<1>6. CASE UNCHANGED vars
  BY <1>6 DEF vars, RoundInv, TypeOK, ReadableDb, Accepted, Written
<1> QED
  BY <1>2, <1>3, <1>4, <1>5, <1>6 DEF Next

LEMMA RoundInvHolds == Spec => []RoundInv
<1>1. Init => RoundInv
  BY RoundInvInit
<1>2. RoundInv /\ [Next]_vars => RoundInv'
  BY RoundInvNext
<1> QED
  BY <1>1, <1>2, PTL DEF Spec

(***************************************************************************)
(* TypeOK: the database stays a function from paths to objects, whatever   *)
(* ValidatorRapidJsonEncoder writes for the changes that pass; an answer   *)
(* has one of the codes of ValidatorNghttp2Server; and a client that has   *)
(* no answer remembers none.                                               *)
(***************************************************************************)
THEOREM JsonTypeCorrect == Spec => []TypeOK
<1>1. RoundInv => TypeOK
  BY DEF RoundInv
<1> QED
  BY <1>1, RoundInvHolds, PTL

(***************************************************************************)
(* StoredReadsBack: whatever was provisioned with a 200, over any number   *)
(* of rounds, ValidatorRapidJsonParser reads as a related resource without *)
(* an error, if it could read what was there from the start: what          *)
(* ValidatorRapidJsonEncoder writes lacks nothing the parser asks for, but *)
(* for mandatory members that were there with nothing in them.             *)
(***************************************************************************)
THEOREM StoredDataReadsBack == Spec => []StoredReadsBack
<1>1. RoundInv => StoredReadsBack
  BY DEF RoundInv, ReadableDb, IsReadable, StoredReadsBack
<1> QED
  BY <1>1, RoundInvHolds, PTL

-------------------------------------------------------------------------------
(* The numbers: what is read, what the rules say, and what is written        *)

(***************************************************************************)
(* The numbers of an entity are in their ranges.                           *)
(***************************************************************************)
FivegQosProfileFits(q) ==
  /\ q.fiveqi \in 0..255
  /\ q.priorityLevel \subseteq 1..127
  /\ q.arp.priorityLevel \in 1..15

NssaisFit(nssais) == \A i \in DOMAIN nssais : nssais[i].sst \in 0..255

DnnListFits(l) ==
  \A i \in DOMAIN l.dnnDataList :
    \A q \in l.dnnDataList[i].attributes.fivegQosProfile : FivegQosProfileFits(q)

PlmnIdSetFits(set) ==
  /\ NssaisFit(set.defaultSingleNssais) /\ NssaisFit(set.singleNssais)
  /\ \A i \in DOMAIN set.dnnLists : DnnListFits(set.dnnLists[i])

PlmnIdSetsFit(sets) == \A i \in DOMAIN sets : PlmnIdSetFits(sets[i])

UdmStaticDataFits(u) ==
  /\ u.ueUsageType \subseteq 0..255
  /\ \A n \in u.dlPacketCount : n >= -1
  /\ \A sets \in u.udmSliceData : PlmnIdSetsFit(sets)
  /\ \A s \in u.staticIpAddress : \A i \in DOMAIN Ssts(s) : Ssts(s)[i] \in 0..255

Fits(kind, resource) ==
  CASE kind = "udmSliceProfile" -> PlmnIdSetsFit(resource.plmnIdSets)
    [] kind = "udmStaticData" -> UdmStaticDataFits(resource)
    [] OTHER -> TRUE

(***************************************************************************)
(* When the entity that is read has its numbers in their ranges, so has    *)
(* the JSON.                                                               *)
(***************************************************************************)
LEMMA MemberIs ==
  ASSUME NEW j, NEW name, NEW type, NEW v \in Member(j, name, type)
  PROVE  /\ v = j.object[name] /\ HasMember(j, name) /\ Is(v, type)
         /\ Member(j, name, type) = {v}
  BY DEF Member

LEMMA OptionalIs ==
  ASSUME NEW j, NEW name, NEW type, NEW n \in Optional(j, name, type)
  PROVE  n = j.object[name][type]
  BY DEF Optional, Member

LEMMA IntIs ==
  ASSUME NEW j, NEW name, NEW n \in Optional(j, name, "int")
  PROVE  n = j.object[name].int
  BY OptionalIs

LEMMA FivegQosProfileAsRead ==
  ASSUME NEW q, FivegQosProfileFits(FivegQosProfileFromJson(q))
  PROVE  FivegQosProfileInRange(q)
<1> DEFINE r == FivegQosProfileFromJson(q)
           arp == q.object["arp"]
<1>1. /\ r.fiveqi = q.object["5qi"].int
      /\ r.priorityLevel = Optional(q, "priorityLevel", "int")
      /\ r.arp.priorityLevel = arp.object["priorityLevel"].int
  BY DEF FivegQosProfileFromJson
<1> HIDE DEF r
<1>2. Optional(q, "5qi", "int") \subseteq 0..255
  BY <1>1, IntIs DEF FivegQosProfileFits, r
<1>3. \A a \in Member(q, "arp", "object") : Optional(a, "priorityLevel", "int") \subseteq 1..15
  BY <1>1, MemberIs, IntIs DEF FivegQosProfileFits, r
<1> QED
  BY <1>1, <1>2, <1>3 DEF FivegQosProfileInRange, FivegQosProfileFits, r

LEMMA NssaisAsRead ==
  ASSUME NEW j, NEW name, NssaisFit(NssaisFromJson(j, name)),
         NEW s \in Member(j, "nssai", "object"), NEW n \in Objects(s, name)
  PROVE  SstInRange(n)
<1> DEFINE list == Elements(s, name)
<1>1. NssaisFromJson(j, name) = [i \in DOMAIN list |-> NssaiDetailsFromJson(list[i])]
  BY MemberIs, NssaisOfNssai
<1>2. PICK i \in DOMAIN list : n = list[i]
  BY DEF Objects, Range
<1>3. NssaiDetailsFromJson(n).sst = n.object["nssai"].object["sst"].int
  BY DEF NssaiDetailsFromJson
<1>4. NssaiDetailsFromJson(n).sst \in 0..255
  BY <1>1, <1>2 DEF NssaisFit
<1> QED
  BY <1>3, <1>4, MemberIs, IntIs DEF SstInRange

LEMMA DnnListAsRead ==
  ASSUME NEW l, DnnListFits(DnnListFromJson(l)), NEW d \in Objects(l, "dnnDataList"),
         NEW q \in Member(d, "5gQosProfile", "object")
  PROVE  FivegQosProfileInRange(q)
<1> DEFINE dnns == Elements(l, "dnnDataList")
<1>1. DnnListFromJson(l).dnnDataList = [i \in DOMAIN dnns |-> DnnDataFromJson(dnns[i])]
  BY DEF DnnListFromJson
<1>2. PICK i \in DOMAIN dnns : d = dnns[i]
  BY DEF Objects, Range
<1>3. DnnDataFromJson(d).attributes.fivegQosProfile
        = {FivegQosProfileFromJson(x) : x \in Member(d, "5gQosProfile", "object")}
  BY DEF DnnDataFromJson
<1>4. \A x \in DnnDataFromJson(d).attributes.fivegQosProfile : FivegQosProfileFits(x)
  BY <1>1, <1>2 DEF DnnListFits
<1>5. FivegQosProfileFits(FivegQosProfileFromJson(q))
  BY <1>3, <1>4
<1> QED
  BY <1>5, FivegQosProfileAsRead

LEMMA PlmnIdSetAsRead ==
  ASSUME NEW j, PlmnIdSetFits(PlmnIdSetFromJson(j))
  PROVE  PlmnIdSetInRange(j)
<1> DEFINE set == PlmnIdSetFromJson(j)
           lists == Elements(j, "dnnLists")
<1>1. /\ set.defaultSingleNssais = NssaisFromJson(j, "defaultSingleNssais")
      /\ set.singleNssais = NssaisFromJson(j, "singleNssais")
      /\ set.dnnLists = [i \in DOMAIN lists |-> DnnListFromJson(lists[i])]
  BY DEF PlmnIdSetFromJson
<1>2. \A s \in Member(j, "nssai", "object") :
        \A n \in Objects(s, "defaultSingleNssais") \cup Objects(s, "singleNssais") : SstInRange(n)
  BY <1>1, NssaisAsRead DEF PlmnIdSetFits
<1>3. \A l \in Objects(j, "dnnLists") : DnnListFits(DnnListFromJson(l))
  BY <1>1 DEF PlmnIdSetFits, Objects, Range
<1>4. \A l \in Objects(j, "dnnLists") : \A d \in Objects(l, "dnnDataList") :
        \A q \in Member(d, "5gQosProfile", "object") : FivegQosProfileInRange(q)
  BY <1>3, DnnListAsRead
<1> QED
  BY <1>2, <1>4 DEF PlmnIdSetInRange

LEMMA PlmnIdSetsAsRead ==
  ASSUME NEW j, PlmnIdSetsFit(getPlmnIdSets(j))
  PROVE  PlmnIdSetsInRange(j)
<1> DEFINE sets == Elements(j, "plmnIdSets")
<1>1. getPlmnIdSets(j) = [i \in DOMAIN sets |-> PlmnIdSetFromJson(sets[i])]
  BY DEF getPlmnIdSets
<1>2. \A i \in DOMAIN sets : PlmnIdSetInRange(sets[i])
  BY <1>1, PlmnIdSetAsRead DEF PlmnIdSetsFit
<1> QED
  BY <1>2 DEF PlmnIdSetsInRange, Range

LEMMA StaticIpAddressAsRead ==
  ASSUME NEW s, NEW initial,
         LET r == StaticIpAddressFromJson(s, initial)
         IN  \A i \in DOMAIN Ssts(r) : Ssts(r)[i] \in 0..255,
         NEW e \in Range(Elements(s, "nssaiDnnIpLists"))
  PROVE  SstInRange(e)
<1> DEFINE lists == Elements(s, "nssaiDnnIpLists")
           r == StaticIpAddressFromJson(s, initial)
<1>1. r.nssaiDnnIpLists = [i \in DOMAIN lists |-> NssaiDnnIpsFromJson(lists[i], initial)]
  BY DEF StaticIpAddressFromJson
<1>2. PICK i \in DOMAIN lists : e = lists[i]
  BY DEF Range
<1>3. NssaiDnnIpsFromJson(e, initial).snssai.sst = SstOf(e, initial)
  BY DEF NssaiDnnIpsFromJson
<1> HIDE DEF r
<1>4. i \in DOMAIN Ssts(r) /\ Ssts(r)[i] = NssaiDnnIpsFromJson(e, initial).snssai.sst
  BY <1>1, <1>2 DEF Ssts
<1>5. SstOf(e, initial) \in 0..255
  BY <1>3, <1>4 DEF r
<1>6. \A x \in Member(e, "nssai", "object") : SstOf(e, initial) = x.object["sst"].int
  BY MemberIs DEF SstOf
<1> QED
  BY <1>5, <1>6, IntIs DEF SstInRange

LEMMA UdmStaticDataAsRead ==
  ASSUME NEW j, NEW initial, UdmStaticDataFits(getUdmStaticData(j, initial))
  PROVE  UdmStaticDataInRange(j)
<1> DEFINE u == getUdmStaticData(j, initial)
<1>1. /\ u.ueUsageType = Optional(j, "ueUsageType", "int")
      /\ u.dlPacketCount = Optional(j, "dlPacketCount", "int")
      /\ u.staticIpAddress = {StaticIpAddressFromJson(s, initial) :
                                s \in Member(j, "staticIpAddress", "object")}
      /\ u.udmSliceData = {getPlmnIdSets(s) : s \in Member(j, "udmSliceData", "object")}
  BY DEF getUdmStaticData
<1> HIDE DEF u
<1>2. \A s \in Member(j, "udmSliceData", "object") : PlmnIdSetsInRange(s)
  BY <1>1, PlmnIdSetsAsRead DEF UdmStaticDataFits, u
<1>3. ASSUME NEW s \in Member(j, "staticIpAddress", "object"),
             NEW e \in Range(Elements(s, "nssaiDnnIpLists"))
      PROVE  SstInRange(e)
  <2> DEFINE r == StaticIpAddressFromJson(s, initial)
  <2>1. r \in u.staticIpAddress
    BY <1>1
  <2>2. \A i \in DOMAIN Ssts(r) : Ssts(r)[i] \in 0..255
    BY <2>1 DEF UdmStaticDataFits, u
  <2> QED
    BY <2>2, StaticIpAddressAsRead
<1> QED
  BY <1>1, <1>2, <1>3 DEF UdmStaticDataInRange, UdmStaticDataFits, u

LEMMA InRangeAsRead ==
  ASSUME NEW kind, NEW j, NEW initial, Fits(kind, ResourceFromJson(kind, j, initial))
  PROVE  InRange(kind, j)
<1>1. CASE kind = "udmSliceProfile"
  <2>1. PlmnIdSetsFit(getPlmnIdSets(j))
    BY <1>1 DEF Fits, ResourceFromJson, getUdmSliceProfile
  <2> QED
    BY <1>1, <2>1, PlmnIdSetsAsRead DEF InRange
<1>2. CASE kind = "udmStaticData"
  BY <1>2, UdmStaticDataAsRead DEF Fits, ResourceFromJson, InRange
<1>3. CASE kind \notin {"udmSliceProfile", "udmStaticData"}
  BY <1>3 DEF InRange
<1> QED
  BY <1>1, <1>2, <1>3

(***************************************************************************)
(* A rule set raises an error about a number when, and only when, a number *)
(* is not in its range.                                                    *)
(***************************************************************************)
Clean(errors) == errors \cap NumberErrors = {}

LEMMA CleanRaise ==
  ASSUME NEW broken, NEW rule
  PROVE  /\ rule \notin NumberErrors => Clean(Raise(broken, rule))
         /\ rule \in NumberErrors => (Clean(Raise(broken, rule)) <=> ~broken)
  BY DEF Clean, Raise

LEMMA CleanUnion ==
  ASSUME NEW a, NEW b
  PROVE  Clean(a \cup b) <=> Clean(a) /\ Clean(b)
  BY DEF Clean

LEMMA CleanUnions ==
  ASSUME NEW a, NEW b, NEW c, NEW d, NEW e
  PROVE  Clean(a \cup b \cup c \cup d \cup e)
           <=> Clean(a) /\ Clean(b) /\ Clean(c) /\ Clean(d) /\ Clean(e)
  BY DEF Clean

LEMMA NumberNames ==
  /\ {"sst", "staticIpSst", "fiveqi", "priorityLevel", "arpPriorityLevel", "ueUsageType",
      "dlPacketCount"} \subseteq NumberErrors
  /\ Clean({})
  BY DEF NumberErrors, Clean

LEMMA NssaiErrorsClean ==
  ASSUME NEW n
  PROVE  Clean(NssaiErrors(n)) <=> n.sst \in 0..255
<1>1. Clean(Raise(n.sst \notin 0..255, "sst")) <=> n.sst \in 0..255
  BY CleanRaise, NumberNames
<1>2. /\ Clean(Raise(Unknown(n.sd, SdFormat), "sd"))
      /\ Clean(Raise(Unknown(n.charging, ChargingFormat), "nssaiCharging"))
  BY CleanRaise DEF NumberErrors
<1> QED
  BY <1>1, <1>2, CleanUnion DEF NssaiErrors

LEMMA SscModesErrorsClean ==
  ASSUME NEW m
  PROVE  Clean(SscModesErrors(m))
<1>1. SscModesErrors(m) \subseteq {"defaultSscMode", "tooManyAllowedSscModes", "allowedSscModes",
                                   "repeatedSscMode"}
  BY DEF SscModesErrors, Raise
<1> QED
  BY <1>1 DEF Clean, NumberErrors

LEMMA SessionTypesErrorsClean ==
  ASSUME NEW t
  PROVE  Clean(SessionTypesErrors(t))
<1>1. SessionTypesErrors(t) \subseteq {"defaultSessionType", "emptyAllowedSessionTypes",
                                       "allowedSessionTypes", "repeatedSessionType"}
  BY DEF SessionTypesErrors, Raise
<1> QED
  BY <1>1 DEF Clean, NumberErrors

LEMMA FivegQosErrorsClean ==
  ASSUME NEW q
  PROVE  Clean(FivegQosErrors(q)) <=> FivegQosProfileFits(q)
<1> DEFINE A == Raise(q.fiveqi \notin 0..255, "fiveqi")
           B == Raise(\E p \in q.priorityLevel : p \notin 1..127, "priorityLevel")
           C == Raise(q.arp.priorityLevel \notin 1..15, "arpPriorityLevel")
           D == Raise(q.arp.preemptCap \notin PreemptCaps, "preemptCap")
           E == Raise(q.arp.preemptVuln \notin PreemptVulns, "preemptVuln")
<1>1. Clean(A) <=> q.fiveqi \in 0..255
  BY CleanRaise, NumberNames
<1>2. Clean(B) <=> q.priorityLevel \subseteq 1..127
  BY CleanRaise, NumberNames
<1>3. Clean(C) <=> q.arp.priorityLevel \in 1..15
  BY CleanRaise, NumberNames
<1>4. Clean(D) /\ Clean(E)
  BY CleanRaise DEF NumberErrors
<1>5. FivegQosErrors(q) = A \cup B \cup C \cup D \cup E
  BY DEF FivegQosErrors
<1> HIDE DEF A, B, C, D, E
<1>6. Clean(FivegQosErrors(q)) <=> Clean(A) /\ Clean(B) /\ Clean(C) /\ Clean(D) /\ Clean(E)
  BY <1>5, CleanUnions
<1> QED
  BY <1>1, <1>2, <1>3, <1>4, <1>6 DEF FivegQosProfileFits

LEMMA DnnDataErrorsClean ==
  ASSUME NEW a
  PROVE  Clean(DnnDataErrors(a)) <=> \A q \in a.fivegQosProfile : FivegQosProfileFits(q)
<1> DEFINE modes == UNION {SscModesErrors(m) : m \in a.sscModes}
           types == UNION {SessionTypesErrors(t) : t \in a.pduSessionTypes}
           qos == UNION {FivegQosErrors(q) : q \in a.fivegQosProfile}
           others == DnnDataErrors(a) \ (modes \cup types \cup qos)
<1>1. Clean(modes)
  BY SscModesErrorsClean DEF Clean
<1>2. Clean(types)
  BY SessionTypesErrorsClean DEF Clean
<1>3. Clean(qos) <=> \A q \in a.fivegQosProfile : Clean(FivegQosErrors(q))
  BY DEF Clean
<1>4. modes \cup types \cup qos \subseteq DnnDataErrors(a)
  BY DEF DnnDataErrors
<1>5. others \subseteq {"sessionAmbr", "upSecurity", "emptySmfList", "smfList", "dnnCharging"}
  BY DEF DnnDataErrors, Raise
<1>6. Clean(others)
  <2> HIDE DEF others
  <2> QED
    BY <1>5 DEF Clean, NumberErrors
<1>7. DnnDataErrors(a) = modes \cup types \cup qos \cup others
  BY <1>4
<1> HIDE DEF modes, types, qos, others
<1>8. Clean(DnnDataErrors(a)) <=> Clean(modes) /\ Clean(types) /\ Clean(qos) /\ Clean(others)
  BY <1>7 DEF Clean
<1> QED
  BY <1>1, <1>2, <1>3, <1>6, <1>8, FivegQosErrorsClean

LEMMA DnnListErrorsClean ==
  ASSUME NEW l
  PROVE  Clean(DnnListErrors(l)) <=> DnnListFits(l)
<1>1. Clean(UNION {DnnDataErrors(d.attributes) : d \in Range(l.dnnDataList)})
        <=> \A d \in Range(l.dnnDataList) : Clean(DnnDataErrors(d.attributes))
  BY DEF Clean
<1>2. /\ Clean(Raise(\E d \in Range(l.dnnDataList) : d.defaultDnnIndicator /\ d.dnn = "*",
                     "wildcardDefault"))
      /\ Clean(Raise(\A d \in Range(l.dnnDataList) : ~d.defaultDnnIndicator, "noDefaultDnn"))
  BY CleanRaise DEF NumberErrors
<1>3. (\A d \in Range(l.dnnDataList) : Clean(DnnDataErrors(d.attributes))) <=> DnnListFits(l)
  BY DnnDataErrorsClean DEF DnnListFits, Range
<1> QED
  BY <1>1, <1>2, <1>3, CleanUnion DEF DnnListErrors

\* What the rules look at together are two lists.
NssaisAreLists(set) ==
  \E S : set.defaultSingleNssais \in Seq(S) /\ set.singleNssais \in Seq(S)

LEMMA RangeOfBoth ==
  ASSUME NEW S, NEW a \in Seq(S), NEW b \in Seq(S)
  PROVE  Range(a \o b) = Range(a) \cup Range(b)
<1>1. \A i \in 1..Len(a) : i \in 1..Len(a \o b) /\ (a \o b)[i] = a[i]
  OBVIOUS
<1>2. \A i \in 1..Len(b) : Len(a) + i \in 1..Len(a \o b) /\ (a \o b)[Len(a) + i] = b[i]
  OBVIOUS
<1>3. \A i \in 1..Len(a \o b) : i \notin 1..Len(a) =>
        i - Len(a) \in 1..Len(b) /\ (a \o b)[i] = b[i - Len(a)]
  OBVIOUS
<1>4. DOMAIN a = 1..Len(a) /\ DOMAIN b = 1..Len(b) /\ DOMAIN (a \o b) = 1..Len(a \o b)
  OBVIOUS
<1> QED
  BY <1>1, <1>2, <1>3, <1>4 DEF Range

LEMMA PlmnIdSetErrorsClean ==
  ASSUME NEW set, NssaisAreLists(set), NEW isSliceProfile
  PROVE  Clean(PlmnIdSetErrors(set, isSliceProfile)) <=> PlmnIdSetFits(set)
<1> DEFINE nssais == UNION {NssaiErrors(n) : n \in Range(AllNssais(set))}
           lists == UNION {DnnListErrors(l) : l \in Range(set.dnnLists)}
           others == PlmnIdSetErrors(set, isSliceProfile) \ (nssais \cup lists)
<1>1. Clean(nssais) <=> \A n \in Range(AllNssais(set)) : n.sst \in 0..255
  BY NssaiErrorsClean DEF Clean
<1>2. Range(AllNssais(set)) = Range(set.defaultSingleNssais) \cup Range(set.singleNssais)
  BY RangeOfBoth DEF NssaisAreLists, AllNssais
<1>3. (\A n \in Range(AllNssais(set)) : n.sst \in 0..255)
        <=> NssaisFit(set.defaultSingleNssais) /\ NssaisFit(set.singleNssais)
  BY <1>2 DEF NssaisFit, Range
<1>4. Clean(lists) <=> \A l \in Range(set.dnnLists) : Clean(DnnListErrors(l))
  BY DEF Clean
<1>5. (\A l \in Range(set.dnnLists) : Clean(DnnListErrors(l)))
        <=> \A i \in DOMAIN set.dnnLists : DnnListFits(set.dnnLists[i])
  BY DnnListErrorsClean DEF Range
<1>6. nssais \cup lists \subseteq PlmnIdSetErrors(set, isSliceProfile)
  BY DEF PlmnIdSetErrors
<1>7. others \subseteq {"plmnIdSetIdentifier", "noDefaultDnnList", "danglingDnnListId"}
  BY Zenon DEF PlmnIdSetErrors, Raise
<1>8. Clean(others)
  <2> HIDE DEF others
  <2> QED
    BY <1>7 DEF Clean, NumberErrors
<1>9. PlmnIdSetErrors(set, isSliceProfile) = nssais \cup lists \cup others
  BY <1>6
<1> HIDE DEF nssais, lists, others
<1> QED
  BY <1>1, <1>3, <1>4, <1>5, <1>8, <1>9, CleanUnion DEF PlmnIdSetFits

SetsAreLists(sets) == \A i \in DOMAIN sets : NssaisAreLists(sets[i])

LEMMA CommonUnlessEmptyClean ==
  ASSUME NEW sets, SetsAreLists(sets), NEW isSliceProfile
  PROVE  Clean(CommonUnlessEmpty(sets, isSliceProfile)) <=> PlmnIdSetsFit(sets)
<1>1. CASE sets = <<>>
  <2>1. CommonUnlessEmpty(sets, isSliceProfile) = {}
    BY <1>1 DEF CommonUnlessEmpty
  <2>2. PlmnIdSetsFit(<<>>)
    BY DEF PlmnIdSetsFit
  <2> QED
    BY <1>1, <2>1, <2>2, NumberNames
<1>2. CASE sets # <<>>
  <2> DEFINE errors == UNION {PlmnIdSetErrors(s, isSliceProfile) : s \in Range(sets)}
             plmn == Raise(/\ isSliceProfile
                           /\ \A s \in Range(sets) : s.plmnIdSetIdentifier # DEFAULT_VALUE,
                           "noDefaultPlmn")
  <2>1. Clean(errors) <=> \A s \in Range(sets) : Clean(PlmnIdSetErrors(s, isSliceProfile))
    BY DEF Clean
  <2>2. (\A s \in Range(sets) : Clean(PlmnIdSetErrors(s, isSliceProfile))) <=> PlmnIdSetsFit(sets)
    BY PlmnIdSetErrorsClean DEF SetsAreLists, PlmnIdSetsFit, Range
  <2>3. Clean(plmn)
    BY CleanRaise DEF NumberErrors
  <2>4. CommonUnlessEmpty(sets, isSliceProfile) = errors \cup plmn
    BY <1>2 DEF CommonUnlessEmpty, checkForCommonUdmSliceProfileRules
  <2> HIDE DEF errors, plmn
  <2>5. Clean(CommonUnlessEmpty(sets, isSliceProfile)) <=> Clean(errors) /\ Clean(plmn)
    BY <2>4, CleanUnion
  <2> QED
    BY <2>1, <2>2, <2>3, <2>5
<1> QED
  BY <1>1, <1>2

LEMMA RepeatedClean ==
  ASSUME NEW sets
  PROVE  Clean(checkForRepeatedDnnsandNssais(sets))
<1>1. checkForRepeatedDnnsandNssais(sets) \subseteq {"repeatedNssai", "repeatedDnn"}
  BY DEF checkForRepeatedDnnsandNssais, Raise
<1> QED
  BY <1>1 DEF Clean, NumberErrors

LEMMA UpdateSpecificClean ==
  ASSUME NEW sets, NEW related
  PROVE  Clean(checkForUpdateSpecificUdmSliceProfileRules(sets, related))
<1>1. checkForUpdateSpecificUdmSliceProfileRules(sets, related)
        \subseteq {"repeatedNssai", "repeatedDnn", "dnnListIdDeleted"}
  BY DEF checkForUpdateSpecificUdmSliceProfileRules, Raise
<1> QED
  BY <1>1 DEF Clean, NumberErrors

LEMMA ScalarErrorsClean ==
  ASSUME NEW u, \A n \in u.dlPacketCount : n \in Int
  PROVE  Clean(ScalarErrors(u)) <=> /\ u.ueUsageType \subseteq 0..255
                                    /\ \A n \in u.dlPacketCount : n >= -1
<1> DEFINE A == Raise(\E r \in u.subscribedUeAmbr : r.uplink \notin BitRateFormat, "uplink")
           B == Raise(\E r \in u.subscribedUeAmbr : r.downlink \notin BitRateFormat, "downlink")
           C == Raise(~(Range(u.ratRestrictions) \subseteq RatTypes), "ratRestrictions")
           D == Raise(~(Range(u.coreNetworkTypeRestrictions) \subseteq CoreNetworkTypes),
                      "coreNetworkTypeRestrictions")
           E == Raise(\E n \in u.dlPacketCount : n < -1, "dlPacketCount")
           F == Raise(Unknown(u.roamingOdb, RoamingOdbs), "roamingOdb")
           G == Raise(\E n \in u.ueUsageType : n \notin 0..255, "ueUsageType")
<1>1. Clean(E) <=> \A n \in u.dlPacketCount : n >= -1
  <2>1. Clean(E) <=> ~\E n \in u.dlPacketCount : n < -1
    BY CleanRaise, NumberNames
  <2> HIDE DEF E
  <2> QED
    BY <2>1
<1>2. Clean(G) <=> u.ueUsageType \subseteq 0..255
  <2>1. Clean(G) <=> ~\E n \in u.ueUsageType : n \notin 0..255
    BY CleanRaise, NumberNames
  <2> HIDE DEF G
  <2> QED
    BY <2>1
<1>3. Clean(A) /\ Clean(B) /\ Clean(C) /\ Clean(D) /\ Clean(F)
  BY CleanRaise DEF NumberErrors
<1>4. ScalarErrors(u) = A \cup B \cup C \cup D \cup E \cup F \cup G
  BY DEF ScalarErrors
<1> HIDE DEF A, B, C, D, E, F, G
<1>5. Clean(ScalarErrors(u)) <=> /\ Clean(A) /\ Clean(B) /\ Clean(C) /\ Clean(D) /\ Clean(E)
                                 /\ Clean(F) /\ Clean(G)
  BY <1>4 DEF Clean
<1> QED
  BY <1>1, <1>2, <1>3, <1>5

LEMMA AreaErrorsClean ==
  ASSUME NEW u
  PROVE  Clean(AreaErrors(u))
<1>1. AreaErrors(u) \subseteq {"serviceAreas", "forbiddenAreas", "restrictionWithoutAreas",
                               "maxNumOfTas", "restrictionType"}
  BY Zenon DEF AreaErrors, Raise
<1> QED
  BY <1>1 DEF Clean, NumberErrors

LEMMA StaticIpAddressErrorsClean ==
  ASSUME NEW e
  PROVE  Clean(StaticIpAddressErrors(e)) <=> e.snssai.sst \in 0..255
<1> DEFINE sst == Raise(e.snssai.sst \notin 0..255, "staticIpSst")
           others == StaticIpAddressErrors(e) \ sst
<1>1. Clean(sst) <=> e.snssai.sst \in 0..255
  BY CleanRaise, NumberNames
<1>2. sst \subseteq StaticIpAddressErrors(e)
  BY DEF StaticIpAddressErrors
<1>3. others \subseteq {"staticIpSd", "ipAddressSize", "ipAddress"}
  BY Zenon DEF StaticIpAddressErrors, Raise
<1>4. Clean(others)
  <2> HIDE DEF others
  <2> QED
    BY <1>3 DEF Clean, NumberErrors
<1>5. StaticIpAddressErrors(e) = sst \cup others
  BY <1>2
<1> HIDE DEF sst, others
<1> QED
  BY <1>1, <1>4, <1>5, CleanUnion

LEMMA UdmSliceDataErrorsClean ==
  ASSUME NEW sets, SetsAreLists(sets), NEW profile
  PROVE  Clean(UdmSliceDataErrors(sets, profile)) <=> PlmnIdSetsFit(sets)
<1> DEFINE common == CommonUnlessEmpty(sets, FALSE)
           repeated == checkForRepeatedDnnsandNssais(sets)
           dangling == Raise(~(ReferencedPairs(sets) \subseteq
                                 DnnListIdPairs(sets) \cup DnnListIdPairs(profile.plmnIdSets)),
                             "dnnListIdNotFound")
<1>1. Clean(common) <=> PlmnIdSetsFit(sets)
  BY CommonUnlessEmptyClean
<1>2. Clean(repeated) /\ Clean(dangling)
  BY RepeatedClean, CleanRaise DEF NumberErrors
<1>3. UdmSliceDataErrors(sets, profile) = common \cup repeated \cup dangling
  BY DEF UdmSliceDataErrors
<1> HIDE DEF common, repeated, dangling
<1>4. Clean(UdmSliceDataErrors(sets, profile))
        <=> Clean(common) /\ Clean(repeated) /\ Clean(dangling)
  BY <1>3 DEF Clean
<1> QED
  BY <1>1, <1>2, <1>4

SubscriptionIsTyped(u) ==
  /\ \A n \in u.dlPacketCount : n \in Int
  /\ \A sets \in u.udmSliceData : SetsAreLists(sets)

LEMMA SubscriptionErrorsClean ==
  ASSUME NEW u, SubscriptionIsTyped(u), NEW profile
  PROVE  Clean(checkForCommonUdmSubscriptionRules(u, profile)) <=> UdmStaticDataFits(u)
<1> DEFINE lists == UNION {Range(s.nssaiDnnIpLists) : s \in u.staticIpAddress}
           static == UNION {StaticIpAddressErrors(e) : e \in lists}
           slices == UNION {UdmSliceDataErrors(sets, profile) : sets \in u.udmSliceData}
           scalars == ScalarErrors(u)
           areas == AreaErrors(u)
<1>1. Clean(scalars) <=> /\ u.ueUsageType \subseteq 0..255
                         /\ \A n \in u.dlPacketCount : n >= -1
  BY ScalarErrorsClean DEF SubscriptionIsTyped
<1>2. Clean(areas)
  BY AreaErrorsClean
<1>3. Clean(slices) <=> \A sets \in u.udmSliceData : PlmnIdSetsFit(sets)
  <2>1. Clean(slices) <=> \A sets \in u.udmSliceData : Clean(UdmSliceDataErrors(sets, profile))
    BY DEF Clean
  <2> QED
    BY <2>1, UdmSliceDataErrorsClean DEF SubscriptionIsTyped
<1>4. Clean(static) <=> \A s \in u.staticIpAddress : \A i \in DOMAIN Ssts(s) : Ssts(s)[i] \in 0..255
  <2>1. Clean(static) <=> \A e \in lists : Clean(StaticIpAddressErrors(e))
    BY DEF Clean
  <2>2. Clean(static) <=> \A e \in lists : e.snssai.sst \in 0..255
    BY <2>1, StaticIpAddressErrorsClean
  <2>3. (\A e \in lists : e.snssai.sst \in 0..255)
          <=> \A s \in u.staticIpAddress : \A i \in DOMAIN s.nssaiDnnIpLists :
                s.nssaiDnnIpLists[i].snssai.sst \in 0..255
    BY DEF Range
  <2> QED
    BY <2>2, <2>3 DEF Ssts
<1>5. checkForCommonUdmSubscriptionRules(u, profile) = areas \cup scalars \cup static \cup slices
  BY DEF checkForCommonUdmSubscriptionRules
<1> HIDE DEF lists, static, slices, scalars, areas
<1>6. Clean(checkForCommonUdmSubscriptionRules(u, profile))
        <=> Clean(areas) /\ Clean(scalars) /\ Clean(static) /\ Clean(slices)
  BY <1>5 DEF Clean
<1> QED
  BY <1>1, <1>2, <1>3, <1>4, <1>6 DEF UdmStaticDataFits

(***************************************************************************)
(* The answer to one change.                                               *)
(***************************************************************************)
IsTyped(kind, resource) ==
  CASE kind = "udmSliceProfile" -> SetsAreLists(resource.plmnIdSets)
    [] kind = "udmStaticData" -> SubscriptionIsTyped(resource)
    [] OTHER -> TRUE

LEMMA OutcomeErrors ==
  ASSUME NEW errors
  PROVE  /\ Conflict(errors).errors = errors
         /\ Unprocessable(errors).errors = errors
  BY DEF Conflict, Unprocessable

LEMMA CheckedAgainstClean ==
  ASSUME NEW u, SubscriptionIsTyped(u), UdmStaticDataFits(u), NEW profiles,
         NEW errors, Clean(errors)
  PROVE  Clean(CheckedAgainst(u, profiles, errors).errors)
<1>1. CASE profiles = {}
  <2>1. CheckedAgainst(u, profiles, errors).errors = errors \cup {"noRelatedUdmSliceProfile"}
    BY <1>1, OutcomeErrors DEF CheckedAgainst
  <2> QED
    BY <2>1 DEF Clean, NumberErrors
<1>2. CASE profiles # {}
  <2> DEFINE common == UNION {checkForCommonUdmSubscriptionRules(u, p) : p \in profiles}
  <2>1. CheckedAgainst(u, profiles, errors) = Conflict(errors \cup common)
    BY <1>2, Zenon DEF CheckedAgainst
  <2>2. Clean(common)
    BY SubscriptionErrorsClean DEF Clean
  <2> HIDE DEF common
  <2> QED
    BY <2>1, <2>2, OutcomeErrors, CleanUnion
<1> QED
  BY <1>1, <1>2

LEMMA UdmStaticDataClean ==
  ASSUME NEW c, NEW related, SubscriptionIsTyped(c.data), UdmStaticDataFits(c.data)
  PROVE  Clean(UdmStaticDataRules(c, related).errors)
<1> DEFINE profiles == getRelatedUdmSliceProfile(related, c.data.udmSliceProfileId)
           journal == ProvJournal(related, c.path)
           stored == RelatedResource(related, c.path)
           imsi == Raise(\E j \in journal : j.imsi = "", "noImsi")
<1>1. /\ Clean(imsi)
      /\ Clean({"noProvJournal"}) /\ Clean({"noRelatedResource"}) /\ Clean({})
  BY CleanRaise DEF Clean, NumberErrors
<1>2. /\ UdmStaticDataRules(c, related)
           = checkForCreationUdmSubscriptionRules(c.data, journal, profiles)
         \/ UdmStaticDataRules(c, related)
              = checkForUpdateUdmSubscriptionRules(c.data, stored, profiles)
      /\ checkForCreationUdmSubscriptionRules(c.data, journal, profiles)
           = IF journal = {} THEN Unprocessable({"noProvJournal"})
             ELSE CheckedAgainst(c.data, profiles, imsi)
      /\ checkForUpdateUdmSubscriptionRules(c.data, stored, profiles)
           = IF stored = {} THEN Unprocessable({"noRelatedResource"})
             ELSE CheckedAgainst(c.data, profiles, {})
  BY DEF UdmStaticDataRules, checkForCreationUdmSubscriptionRules,
         checkForUpdateUdmSubscriptionRules
<1> HIDE DEF profiles, journal, stored, imsi
<1>3. /\ Clean(CheckedAgainst(c.data, profiles, imsi).errors)
      /\ Clean(CheckedAgainst(c.data, profiles, {}).errors)
  BY <1>1, CheckedAgainstClean
<1> QED
  BY <1>1, <1>2, <1>3, OutcomeErrors

LEMMA UdmSliceProfileClean ==
  ASSUME NEW c, NEW related, SetsAreLists(c.data.plmnIdSets), PlmnIdSetsFit(c.data.plmnIdSets)
  PROVE  Clean(UdmSliceProfileRules(c, related).errors)
<1> DEFINE sets == c.data.plmnIdSets
           stored == RelatedResource(related, c.path)
           common == CommonUnlessEmpty(sets, TRUE)
           repeated == checkForRepeatedDnnsandNssais(sets)
           specific == UNION {checkForUpdateSpecificUdmSliceProfileRules(sets, r) : r \in stored}
<1>1. Clean(common) /\ Clean(repeated) /\ Clean({"noRelatedResource"})
  BY CommonUnlessEmptyClean, RepeatedClean DEF Clean, NumberErrors
<1>2. Clean(specific)
  BY UpdateSpecificClean DEF Clean
<1>3. \/ UdmSliceProfileRules(c, related) = Conflict(common \cup repeated)
      \/ UdmSliceProfileRules(c, related) = Unprocessable({"noRelatedResource"})
      \/ UdmSliceProfileRules(c, related) = Conflict(common \cup specific)
  BY DEF UdmSliceProfileRules, checkForCreationUdmSliceProfileRules,
         checkForUpdateUdmSliceProfileRules
<1> HIDE DEF sets, stored, common, repeated, specific
<1> QED
  BY <1>1, <1>2, <1>3, OutcomeErrors, CleanUnion

LEMMA RoamingAreaClean ==
  ASSUME NEW c, NEW related
  PROVE  Clean(UdmRoamingAreaRules(c, related).errors)
<1> DEFINE common == checkForCommonUdmRoamingAreaRules(c.data)
           stored == RelatedResource(related, c.path)
<1>1. common \subseteq {"emptyAreaList", "emptyTacs", "tacs"}
  BY DEF checkForCommonUdmRoamingAreaRules, Raise
<1>2. UdmRoamingAreaRules(c, related) \in {Conflict(common), Unprocessable({"noRelatedResource"})}
  BY DEF UdmRoamingAreaRules, checkForCreationUdmRoamingAreaRules, checkForUpdateUdmRoamingAreaRules
<1> HIDE DEF common
<1>3. Clean(common) /\ Clean({"noRelatedResource"})
  BY <1>1 DEF Clean, NumberErrors
<1> QED
  BY <1>2, <1>3, OutcomeErrors

LEMMA SmsClean ==
  ASSUME NEW op, NEW sms, NEW related, NEW journal
  PROVE  Clean(SmsValidationRules(op, sms, related, journal).errors)
<1> DEFINE common == CommonSmsValidationRules(sms)
           update == UpdateSpecificSmsValidationRules(related)
           create == CreateSpecificSmsValidationRules(journal)
           imsi == Raise(\E j \in journal : j.imsi = "", "noImsi")
           r == SmsValidationRules(op, sms, related, journal)
<1>1. common.errors \subseteq {"R5", "R6", "R7"}
  BY OutcomeErrors
  DEF CommonSmsValidationRules, checkSmsSubscribed, checkMtSmsSubscribed, checkMoSmsSubscribed,
      Raise
<1>2. update = Unprocessable({"noRelatedResource"}) \/ update = Success
  BY DEF UpdateSpecificSmsValidationRules
<1>3. create = Unprocessable({"noProvJournal"}) \/ create = Conflict(imsi)
  BY DEF CreateSpecificSmsValidationRules
<1>4. imsi \subseteq {"noImsi"} /\ Success.errors = {}
  BY DEF Raise, Success
<1>5. \A a, b : WorstOf(a, b).errors = a.errors \cup b.errors
  BY DEF WorstOf
<1>6. r = WorstOf(common, update) \/ r = WorstOf(common, create) \/ r = Success
  BY Zenon DEF SmsValidationRules
<1> HIDE DEF common, update, create, imsi, r
<1>7. /\ update.errors \subseteq {"noRelatedResource"}
      /\ create.errors \subseteq {"noProvJournal", "noImsi"}
  <2>1. update.errors \subseteq {"noRelatedResource"}
    BY <1>2, <1>4, OutcomeErrors
  <2>2. CASE create = Unprocessable({"noProvJournal"})
    BY <2>1, <2>2, OutcomeErrors
  <2>3. CASE create = Conflict(imsi)
    <3>1. create.errors = imsi
      BY <2>3, OutcomeErrors, Zenon
    <3> QED
      BY <2>1, <3>1, <1>4
  <2> QED
    BY <1>3, <2>2, <2>3
<1>8. r.errors \subseteq {"R5", "R6", "R7", "noRelatedResource", "noProvJournal", "noImsi"}
  BY <1>1, <1>4, <1>5, <1>6, <1>7
<1>9. Clean(r.errors)
  BY <1>8 DEF Clean, NumberErrors
<1> QED
  BY <1>9 DEF r

LEMMA FittingIsClean ==
  ASSUME NEW c, NEW related, IsTyped(c.path.kind, c.data), Fits(c.path.kind, c.data)
  PROVE  Clean(CheckChange(c, related).errors)
<1>1. \/ CheckChange(c, related) = Success
      \/ /\ c.path.kind = "udmStaticData"
         /\ CheckChange(c, related) = UdmStaticDataRules(c, related)
      \/ /\ c.path.kind = "udmSliceProfile"
         /\ CheckChange(c, related) = UdmSliceProfileRules(c, related)
      \/ CheckChange(c, related) = UdmRoamingAreaRules(c, related)
      \/ \E a, b : CheckChange(c, related) = SmsValidationRules(c.operation, c.data, a, b)
      \/ CheckChange(c, related) = Unprocessable({"unexpectedPath"})
  BY Zenon DEF CheckChange
<1>2. Clean(Success.errors) /\ Clean(Unprocessable({"unexpectedPath"}).errors)
  BY OutcomeErrors DEF Clean, NumberErrors, Success
<1>3. c.path.kind = "udmStaticData" => Clean(UdmStaticDataRules(c, related).errors)
  BY UdmStaticDataClean DEF IsTyped, Fits
<1>4. c.path.kind = "udmSliceProfile" => Clean(UdmSliceProfileRules(c, related).errors)
  BY UdmSliceProfileClean DEF IsTyped, Fits
<1> QED
  BY <1>1, <1>2, <1>3, <1>4, RoamingAreaClean, SmsClean

(***************************************************************************)
(* What passes has its numbers in their ranges.                            *)
(***************************************************************************)
LEMMA PassingFits ==
  ASSUME NEW c, NEW related, c.operation # "DELETE", CheckChange(c, related).valid,
         IsTyped(c.path.kind, c.data)
  PROVE  Fits(c.path.kind, c.data)
<1>1. CASE c.path.kind = "udmSliceProfile"
  <2> DEFINE sets == c.data.plmnIdSets
  <2>1. UdmSliceProfileRules(c, related).valid
    BY <1>1 DEF CheckChange
  <2>2. CommonUnlessEmpty(sets, TRUE) = {}
    BY <2>1, SliceProfileCommon
  <2>3. SetsAreLists(sets)
    BY <1>1 DEF IsTyped
  <2>4. PlmnIdSetsFit(sets)
    BY <2>2, <2>3, CommonUnlessEmptyClean, NumberNames
  <2> QED
    BY <1>1, <2>4 DEF Fits
<1>2. CASE c.path.kind = "udmStaticData"
  <2>1. UdmStaticDataRules(c, related).valid
    BY <1>2 DEF CheckChange
  <2>2. PICK p : checkForCommonUdmSubscriptionRules(c.data, p) = {}
    BY <2>1, SubscriptionCommon
  <2>3. SubscriptionIsTyped(c.data)
    BY <1>2 DEF IsTyped
  <2>4. UdmStaticDataFits(c.data)
    BY <2>2, <2>3, SubscriptionErrorsClean, NumberNames
  <2> QED
    BY <1>2, <2>4 DEF Fits
<1>3. CASE c.path.kind \notin {"udmSliceProfile", "udmStaticData"}
  BY <1>3 DEF Fits
<1> QED
  BY <1>1, <1>2, <1>3

(***************************************************************************)
(* computeMutations changes no number, and the numbers of what is written  *)
(* are those of the entity.                                                *)
(***************************************************************************)
LEMMA IncludedFit ==
  ASSUME NEW nssais, NssaisShape(nssais), NssaisFit(nssais)
  PROVE  NssaisFit(includeNssai(nssais))
<1> DEFINE included == includeNssai(nssais)
<1>1. /\ DOMAIN included = DOMAIN nssais
      /\ \A i \in DOMAIN nssais :
           included[i] = IF nssais[i].dnnListId = ""
                         THEN [nssais[i] EXCEPT !.dnnListId = DEFAULT_VALUE] ELSE nssais[i]
  BY DEF includeNssai
<1> HIDE DEF included
<1>2. ASSUME NEW n, NssaiDetailsShape(n)
      PROVE  [n EXCEPT !.dnnListId = DEFAULT_VALUE].sst = n.sst
  BY <1>2 DEF NssaiDetailsShape
<1>3. \A i \in DOMAIN nssais : included[i].sst = nssais[i].sst
  BY <1>1, <1>2 DEF NssaisShape
<1>4. NssaisFit(included)
  BY <1>1, <1>3 DEF NssaisFit
<1> QED
  BY <1>4 DEF included

LEMMA MutatedSetFits ==
  ASSUME NEW set, PlmnIdSetShape(set), PlmnIdSetFits(set)
  PROVE  PlmnIdSetFits([set EXCEPT !.defaultSingleNssais = includeNssai(@),
                                   !.singleNssais = includeNssai(@)])
<1> DEFINE D == includeNssai(set.defaultSingleNssais)
           S == includeNssai(set.singleNssais)
           mutated == [set EXCEPT !.defaultSingleNssais = includeNssai(@),
                                  !.singleNssais = includeNssai(@)]
<1>1. NssaisFit(D) /\ NssaisFit(S)
  BY IncludedFit DEF PlmnIdSetShape, SliceInfoShape, PlmnIdSetFits
<1>2. mutated = [[set EXCEPT !.defaultSingleNssais = D] EXCEPT !.singleNssais = S]
  BY Zenon
<1>3. DOMAIN set = {"plmnIdSetIdentifier", "defaultSingleNssais", "singleNssais", "nssaiOthers",
                    "dnnLists", "others"}
  BY DEF PlmnIdSetShape
<1> HIDE DEF D, S, mutated
<1>4. /\ mutated.defaultSingleNssais = D /\ mutated.singleNssais = S
      /\ mutated.dnnLists = set.dnnLists
  BY <1>2, <1>3
<1>5. PlmnIdSetFits(mutated)
  BY <1>1, <1>4 DEF PlmnIdSetFits
<1> QED
  BY <1>5 DEF mutated

LEMMA MutatedSetsFit ==
  ASSUME NEW sets, PlmnIdSetsShape(sets), PlmnIdSetsFit(sets)
  PROVE  PlmnIdSetsFit(MutateSets(sets))
<1> DEFINE mutated(i) == [sets[i] EXCEPT !.defaultSingleNssais = includeNssai(@),
                                         !.singleNssais = includeNssai(@)]
<1>1. MutateSets(sets) = [i \in DOMAIN sets |-> mutated(i)]
  BY DEF MutateSets
<1>2. \A i \in DOMAIN sets : PlmnIdSetFits(mutated(i))
  BY MutatedSetFits DEF PlmnIdSetsShape, PlmnIdSetsFit
<1> HIDE DEF mutated
<1> QED
  BY <1>1, <1>2 DEF PlmnIdSetsFit

LEMMA MutatedFits ==
  ASSUME NEW c, c.operation # "DELETE",
         c = [operation |-> c.operation, path |-> c.path, data |-> c.data],
         ReadableResource(c.path.kind, c.data), Fits(c.path.kind, c.data)
  PROVE  Fits(c.path.kind, computeMutations(c).data)
<1> DEFINE m == computeMutations(c)
           kind == c.path.kind
           data == c.data
<1>1. /\ kind = "udmSliceProfile" =>
           m.data = [data EXCEPT !.plmnIdSets = MutateSets(data.plmnIdSets)]
      /\ kind = "udmStaticData" =>
           m.data = [data EXCEPT !.udmSliceData = {MutateSets(sets) : sets \in data.udmSliceData}]
  BY MutatedChange
<1>2. ReadableResource(kind, data) /\ Fits(kind, data)
  OBVIOUS
<1> HIDE DEF m, kind, data
<1>3. kind = "udmSliceProfile" => Fits(kind, m.data)
  <2> HAVE kind = "udmSliceProfile"
  <2> DEFINE sets == MutateSets(data.plmnIdSets)
  <2>1. UdmSliceProfileShape(data) /\ PlmnIdSetsFit(data.plmnIdSets)
        /\ AllDnnListsPass(data.plmnIdSets)
    BY <1>2 DEF ReadableResource, Fits
  <2>2. PlmnIdSetsFit(sets) /\ PlmnIdSetsShape(sets)
    BY <2>1, MutatedSetsFit, MutatedSets DEF UdmSliceProfileShape
  <2>3. m.data = [data EXCEPT !.plmnIdSets = sets]
    BY <1>1
  <2> HIDE DEF sets
  <2>4. m.data.plmnIdSets = sets
    BY <2>1, <2>2, <2>3, MutatedProfile
  <2> QED
    BY <2>2, <2>4 DEF Fits
<1>4. kind = "udmStaticData" => Fits(kind, m.data)
  <2> HAVE kind = "udmStaticData"
  <2> DEFINE new == {MutateSets(sets) : sets \in data.udmSliceData}
  <2>1. /\ UdmStaticDataShape(data) /\ UdmStaticDataFits(data)
        /\ \A sets \in data.udmSliceData : AllDnnListsPass(sets)
    BY <1>2 DEF ReadableResource, Fits
  <2>2. \A sets \in data.udmSliceData : PlmnIdSetsShape(sets) /\ PlmnIdSetsFit(sets)
    BY <2>1 DEF UdmStaticDataShape, UdmStaticDataFits
  <2>3. \A sets \in new : PlmnIdSetsFit(sets)
    BY <2>2, MutatedSetsFit
  <2>4. m.data = [data EXCEPT !.udmSliceData = new]
    BY <1>1, Zenon
  <2>5. DOMAIN data = {"udmSliceProfileId", "idOthers", "subscribedUeAmbr", "ratRestrictions",
                       "coreNetworkTypeRestrictions", "forbiddenAreas", "serviceAreaRestriction",
                       "dlPacketCount", "ueUsageType", "roamingOdb", "staticIpAddress",
                       "udmSliceData", "others"}
    BY <2>1 DEF UdmStaticDataShape
  <2> HIDE DEF new
  <2>6. /\ m.data.udmSliceData = new
        /\ m.data.ueUsageType = data.ueUsageType /\ m.data.dlPacketCount = data.dlPacketCount
        /\ m.data.staticIpAddress = data.staticIpAddress
    BY <2>4, <2>5
  <2>7. UdmStaticDataFits(m.data)
    BY <2>1, <2>3, <2>6 DEF UdmStaticDataFits
  <2> QED
    BY <2>7 DEF Fits
<1>5. kind \notin {"udmSliceProfile", "udmStaticData"} => Fits(kind, m.data)
  BY DEF Fits
<1>6. Fits(kind, m.data)
  BY <1>3, <1>4, <1>5
<1> QED
  BY <1>6 DEF m, kind

LEMMA SameNumbersFit ==
  ASSUME NEW u, NEW v, SameNumbers(u, v), UdmStaticDataFits(v)
  PROVE  UdmStaticDataFits(u)
<1>1. /\ u.ueUsageType \subseteq 0..255
      /\ \A n \in u.dlPacketCount : n >= -1
      /\ \A sets \in u.udmSliceData : PlmnIdSetsFit(sets)
  BY DEF SameNumbers, UdmStaticDataFits
<1>2. ASSUME NEW s \in u.staticIpAddress
      PROVE  \A i \in DOMAIN Ssts(s) : Ssts(s)[i] \in 0..255
  <2>1. PICK t \in v.staticIpAddress : Ssts(s) = Ssts(t)
    BY DEF SameNumbers
  <2> QED
    BY <2>1 DEF UdmStaticDataFits
<1> QED
  BY <1>1, <1>2 DEF UdmStaticDataFits

LEMMA WrittenInRange ==
  ASSUME NEW kind, NEW resource, ReadableResource(kind, resource), Fits(kind, resource)
  PROVE  InRange(kind, ResourceToJson(kind, resource))
<1> DEFINE j == ResourceToJson(kind, resource)
           r == ResourceFromJson(kind, j, 0)
<1>1. CASE kind = "udmSliceProfile"
  <2>1. UdmSliceProfileShape(resource) /\ AllDnnListsPass(resource.plmnIdSets)
    BY <1>1 DEF ReadableResource
  <2>2. j = udmSliceProfileToJson(resource) /\ r = getUdmSliceProfile(j)
    BY <1>1 DEF ResourceToJson, ResourceFromJson
  <2>3. r = resource
    BY <2>1, <2>2, UdmSliceProfileRead
  <2> QED
    BY <2>3, InRangeAsRead
<1>2. CASE kind = "udmStaticData"
  <2>1. UdmStaticDataShape(resource) /\ \A sets \in resource.udmSliceData : AllDnnListsPass(sets)
    BY <1>2 DEF ReadableResource
  <2>2. j = udmStaticDataToJson(resource) /\ r = getUdmStaticData(j, 0)
    BY <1>2 DEF ResourceToJson, ResourceFromJson
  <2>3. SameNumbers(r, resource)
    BY <2>1, <2>2, UdmStaticDataRead
  <2>4. Fits(kind, r)
    BY <1>2, <2>3, SameNumbersFit DEF Fits
  <2> QED
    BY <2>4, InRangeAsRead
<1>3. CASE kind \notin {"udmSliceProfile", "udmStaticData"}
  BY <1>3 DEF InRange
<1> QED
  BY <1>1, <1>2, <1>3

(***************************************************************************)
(* What is read from the data of a message: the lists are sequences, and   *)
(* the numbers are integers.                                               *)
(***************************************************************************)
IsObject(v) == v \in Values /\ Is(v, "object")

LEMMA MembersOfValues ==
  ASSUME NEW v, IsObject(v), NEW name
  PROVE  /\ \A s \in Member(v, name, "object") : IsObject(s)
         /\ Optional(v, name, "int") \subseteq Int
         /\ Elements(v, name) \in Seq(Values)
<1>1. \A n \in DOMAIN v.object : v.object[n] \in Values
  BY ValuesAssumption DEF IsObject
<1>2. \A type : \A s \in Member(v, name, type) :
        s = v.object[name] /\ s \in Values /\ Is(s, type)
  BY <1>1, MemberIs DEF HasMember
<1>3. \A n \in Optional(v, name, "int") : n \in Int
  <2> SUFFICES ASSUME NEW s \in Member(v, name, "int")
               PROVE  s["int"] \in Int
    BY DEF Optional
  <2>1. s \in Values /\ Is(s, "int")
    BY <1>2
  <2> QED
    BY <2>1, ValuesAssumption
<1>4. Elements(v, name) \in Seq(Values)
  <2>1. CASE Member(v, name, "array") = {}
    BY <2>1 DEF Elements
  <2>2. CASE Member(v, name, "array") # {}
    <3>1. PICK s : s \in Member(v, name, "array")
      BY <2>2
    <3>2. s = v.object[name] /\ s \in Values /\ Is(s, "array")
      BY <1>2, <3>1
    <3>3. s.array \in Seq(Values)
      BY <3>2, ValuesAssumption
    <3>4. Elements(v, name) = v.object[name].array
      BY <2>2 DEF Elements
    <3> QED
      BY <3>2, <3>3, <3>4
  <2> QED
    BY <2>1, <2>2
<1> QED
  BY <1>2, <1>3, <1>4 DEF IsObject

LEMMA ElementsTaken ==
  ASSUME NEW v, IsObject(v), NEW name \in TakenForObjects, NEW e \in Range(Elements(v, name))
  PROVE  IsObject(e)
<1>1. Is(e, "object")
  BY ValuesAssumption DEF IsObject
<1>2. e \in Values
  BY MembersOfValues DEF Range
<1> QED
  BY <1>1, <1>2 DEF IsObject

LEMMA NssaisAreRead ==
  ASSUME NEW v, IsObject(v)
  PROVE  NssaisAreLists(PlmnIdSetFromJson(v))
<1> DEFINE S == {NssaiDetailsFromJson(n) : n \in Values}
<1>1. ASSUME NEW name
      PROVE  NssaisFromJson(v, name) \in Seq(S)
  <2>1. CASE Member(v, "nssai", "object") = {}
    <3>1. NssaisFromJson(v, name) = <<>>
      BY <2>1, NoNssais
    <3> QED
      BY <3>1
  <2>2. CASE Member(v, "nssai", "object") # {}
    <3>1. PICK s : s \in Member(v, "nssai", "object")
      BY <2>2
    <3> DEFINE list == Elements(s, name)
    <3>2. list \in Seq(Values)
      BY <3>1, MembersOfValues
    <3>3. Member(v, "nssai", "object") = {s}
      BY <3>1, MemberIs
    <3>4. NssaisFromJson(v, name) = [i \in DOMAIN list |-> NssaiDetailsFromJson(list[i])]
      BY <3>3, NssaisOfNssai
    <3> HIDE DEF list
    <3>5. DOMAIN list = 1..Len(list) /\ \A i \in 1..Len(list) : list[i] \in Values
      BY <3>2
    <3>6. \A i \in 1..Len(list) : NssaiDetailsFromJson(list[i]) \in S
      BY <3>5
    <3> HIDE DEF S
    <3> DEFINE read == [i \in 1..Len(list) |-> NssaiDetailsFromJson(list[i])]
    <3>7. read \in [1..Len(list) -> S] /\ Len(list) \in Nat
      BY <3>2, <3>6
    <3>8. read = NssaisFromJson(v, name)
      BY <3>4, <3>5
    <3> HIDE DEF read
    <3> QED
      BY <3>7, <3>8
  <2> QED
    BY <2>1, <2>2
<1>2. /\ PlmnIdSetFromJson(v).defaultSingleNssais = NssaisFromJson(v, "defaultSingleNssais")
      /\ PlmnIdSetFromJson(v).singleNssais = NssaisFromJson(v, "singleNssais")
  BY DEF PlmnIdSetFromJson
<1> QED
  BY <1>1, <1>2 DEF NssaisAreLists

LEMMA SetsAreRead ==
  ASSUME NEW v, IsObject(v)
  PROVE  SetsAreLists(getPlmnIdSets(v))
<1> DEFINE sets == Elements(v, "plmnIdSets")
<1>1. getPlmnIdSets(v) = [i \in DOMAIN sets |-> PlmnIdSetFromJson(sets[i])]
  BY DEF getPlmnIdSets
<1>2. \A i \in DOMAIN sets : IsObject(sets[i])
  BY ElementsTaken DEF TakenForObjects, Range
<1> HIDE DEF sets
<1> QED
  BY <1>1, <1>2, NssaisAreRead DEF SetsAreLists

LEMMA ResourceIsTyped ==
  ASSUME NEW kind, NEW v, IsObject(v) \/ DOMAIN v.object = {}, NEW initial
  PROVE  IsTyped(kind, ResourceFromJson(kind, v, initial))
<1>1. SetsAreLists(getPlmnIdSets(v))
  <2>1. CASE DOMAIN v.object = {}
    <3>1. Elements(v, "plmnIdSets") = <<>>
      BY <2>1, NothingIsRead
    <3>2. DOMAIN getPlmnIdSets(v) = {}
      BY <3>1 DEF getPlmnIdSets
    <3> QED
      BY <3>2 DEF SetsAreLists
  <2> QED
    BY <2>1, SetsAreRead
<1>2. CASE kind = "udmSliceProfile"
  BY <1>1, <1>2 DEF IsTyped, ResourceFromJson, getUdmSliceProfile
<1>3. CASE kind = "udmStaticData"
  <2> DEFINE u == getUdmStaticData(v, initial)
  <2>1. /\ u.dlPacketCount = Optional(v, "dlPacketCount", "int")
        /\ u.udmSliceData = {getPlmnIdSets(s) : s \in Member(v, "udmSliceData", "object")}
    BY DEF getUdmStaticData
  <2> HIDE DEF u
  <2>2. CASE DOMAIN v.object = {}
    <3>1. u.dlPacketCount = {} /\ u.udmSliceData = {}
      BY <2>1, <2>2, NothingIsRead DEF Optional
    <3> QED
      BY <1>3, <3>1 DEF IsTyped, SubscriptionIsTyped, ResourceFromJson, u
  <2>3. CASE IsObject(v)
    <3>1. \A n \in u.dlPacketCount : n \in Int
      BY <2>1, <2>3, MembersOfValues
    <3>2. \A sets \in u.udmSliceData : SetsAreLists(sets)
      BY <2>1, <2>3, MembersOfValues, SetsAreRead
    <3> QED
      BY <1>3, <3>1, <3>2 DEF IsTyped, SubscriptionIsTyped, ResourceFromJson, u
  <2> QED
    BY <2>2, <2>3
<1>4. CASE kind \notin {"udmSliceProfile", "udmStaticData"}
  BY <1>4 DEF IsTyped
<1> QED
  BY <1>2, <1>3, <1>4

(***************************************************************************)
(* When the data is without faults and its numbers are in their ranges, so *)
(* are those of the entity that is read from it.                           *)
(***************************************************************************)
\* A member that is there, and of its type.
LEMMA Mandatory ==
  ASSUME NEW v, NEW name, NEW names, name \in names, NEW type,
         HasMember(v, name), Mistyped(v, names, type) = {}
  PROVE  Member(v, name, type) = {v.object[name]} /\ Is(v.object[name], type)
  BY DEF Mistyped, Member

LEMMA IntRequired ==
  ASSUME NEW v, NEW name, NEW names, name \in names, HasMember(v, name),
         Mistyped(v, names, "int") = {}
  PROVE  v.object[name].int \in Optional(v, name, "int")
  BY Mandatory DEF Optional

LEMMA FivegQosProfileFaultless ==
  ASSUME NEW q, FivegQosProfileFaults(q) = {}, FivegQosProfileInRange(q)
  PROVE  FivegQosProfileFits(FivegQosProfileFromJson(q))
<1> DEFINE r == FivegQosProfileFromJson(q)
           arp == q.object["arp"]
<1>1. /\ r.fiveqi = q.object["5qi"].int
      /\ r.priorityLevel = Optional(q, "priorityLevel", "int")
      /\ r.arp.priorityLevel = arp.object["priorityLevel"].int
  BY DEF FivegQosProfileFromJson
<1>2. /\ HasMember(q, "5qi") /\ HasMember(q, "arp")
      /\ Mistyped(q, {"5qi", "priorityLevel"}, "int") = {}
      /\ Mistyped(q, {"arp"}, "object") = {}
      /\ \A a \in Member(q, "arp", "object") : ArpFaults(a) = {}
  BY DEF FivegQosProfileFaults, Missing, HasMember
<1>3. r.fiveqi \in Optional(q, "5qi", "int")
  BY <1>1, <1>2, IntRequired
<1>4. arp \in Member(q, "arp", "object")
  BY <1>2, Mandatory
<1>5. HasMember(arp, "priorityLevel") /\ Mistyped(arp, {"priorityLevel"}, "int") = {}
  BY <1>2, <1>4 DEF ArpFaults, Missing, HasMember
<1>6. r.arp.priorityLevel \in Optional(arp, "priorityLevel", "int")
  BY <1>1, <1>5, IntRequired
<1> HIDE DEF r, arp
<1>7. FivegQosProfileFits(r)
  BY <1>1, <1>3, <1>4, <1>6 DEF FivegQosProfileInRange, FivegQosProfileFits
<1> QED
  BY <1>7 DEF r

\* The elements of an array that has to be of objects.
LEMMA ObjectsOfArray ==
  ASSUME NEW v, NEW name, NEW names, name \in names, ArrayFaults(v, names, "object") = {}
  PROVE  \A i \in DOMAIN Elements(v, name) : Elements(v, name)[i] \in Objects(v, name)
  BY DEF ArrayFaults, Objects, Range

LEMMA NssaisFaultless ==
  ASSUME NEW j, NEW name \in {"defaultSingleNssais", "singleNssais"},
         \A s \in Member(j, "nssai", "object") :
           SliceInfoFaults(s) = {} /\ \A n \in Objects(s, name) : SstInRange(n)
  PROVE  NssaisFit(NssaisFromJson(j, name))
<1>1. CASE Member(j, "nssai", "object") = {}
  <2>1. NssaisFromJson(j, name) = <<>>
    BY <1>1, NoNssais
  <2> QED
    BY <2>1 DEF NssaisFit
<1>2. CASE Member(j, "nssai", "object") # {}
  <2>1. PICK s : s \in Member(j, "nssai", "object")
    BY <1>2
  <2> DEFINE list == Elements(s, name)
  <2>2. Member(j, "nssai", "object") = {s}
    BY <2>1, MemberIs
  <2>3. NssaisFromJson(j, name) = [i \in DOMAIN list |-> NssaiDetailsFromJson(list[i])]
    BY <2>2, NssaisOfNssai
  <2>4. /\ ArrayFaults(s, {"defaultSingleNssais", "singleNssais"}, "object") = {}
        /\ \A n \in Objects(s, name) : NssaiDetailsFaults(n) = {} /\ SstInRange(n)
    BY <2>1 DEF SliceInfoFaults
  <2>5. \A i \in DOMAIN list : list[i] \in Objects(s, name)
    BY <2>4, ObjectsOfArray
  <2>6. ASSUME NEW n, NssaiDetailsFaults(n) = {}, SstInRange(n)
        PROVE  NssaiDetailsFromJson(n).sst \in 0..255
    <3> DEFINE snssai == n.object["nssai"]
    <3>1. /\ HasMember(n, "nssai") /\ Mistyped(n, {"nssai"}, "object") = {}
          /\ \A x \in Member(n, "nssai", "object") : SnssaiFaults(x) = {}
      BY <2>6 DEF NssaiDetailsFaults, Missing, HasMember
    <3>2. snssai \in Member(n, "nssai", "object")
      BY <3>1, Mandatory
    <3>3. HasMember(snssai, "sst") /\ Mistyped(snssai, {"sst"}, "int") = {}
      BY <3>1, <3>2 DEF SnssaiFaults, Missing, HasMember
    <3>4. snssai.object["sst"].int \in Optional(snssai, "sst", "int")
      BY <3>3, IntRequired
    <3>5. snssai.object["sst"].int \in 0..255
      BY <2>6, <3>2, <3>4 DEF SstInRange
    <3> QED
      BY <3>5 DEF NssaiDetailsFromJson
  <2> HIDE DEF list
  <2> QED
    BY <2>3, <2>4, <2>5, <2>6 DEF NssaisFit
<1> QED
  BY <1>1, <1>2

LEMMA DnnListFaultless ==
  ASSUME NEW l, DnnListFaults(l) = {},
         \A d \in Objects(l, "dnnDataList") : \A q \in Member(d, "5gQosProfile", "object") :
           FivegQosProfileInRange(q)
  PROVE  DnnListFits(DnnListFromJson(l))
<1> DEFINE dnns == Elements(l, "dnnDataList")
<1>1. DnnListFromJson(l).dnnDataList = [i \in DOMAIN dnns |-> DnnDataFromJson(dnns[i])]
  BY DEF DnnListFromJson
<1>2. \A i \in DOMAIN dnns : dnns[i] \in Objects(l, "dnnDataList")
  BY ObjectsOfArray DEF DnnListFaults
<1>3. \A d \in Objects(l, "dnnDataList") : DnnDataFaults(d) = {}
  BY DEF DnnListFaults
<1>4. ASSUME NEW d \in Objects(l, "dnnDataList")
      PROVE  \A r \in DnnDataFromJson(d).attributes.fivegQosProfile : FivegQosProfileFits(r)
  <2>1. DnnDataFromJson(d).attributes.fivegQosProfile
          = {FivegQosProfileFromJson(q) : q \in Member(d, "5gQosProfile", "object")}
    BY DEF DnnDataFromJson
  <2>2. UNION {FivegQosProfileFaults(q) : q \in Member(d, "5gQosProfile", "object")} = {}
    BY <1>3, Zenon DEF DnnDataFaults
  <2>3. \A q \in Member(d, "5gQosProfile", "object") :
          FivegQosProfileFits(FivegQosProfileFromJson(q))
    BY <2>2, FivegQosProfileFaultless
  <2> QED
    BY <2>1, <2>3
<1> HIDE DEF dnns
<1> QED
  BY <1>1, <1>2, <1>4 DEF DnnListFits

LEMMA PlmnIdSetFaultless ==
  ASSUME NEW j, NEW isSliceData, PlmnIdSetFaults(j, isSliceData) = {}, PlmnIdSetInRange(j)
  PROVE  PlmnIdSetFits(PlmnIdSetFromJson(j))
<1> DEFINE set == PlmnIdSetFromJson(j)
           lists == Elements(j, "dnnLists")
<1>1. /\ set.defaultSingleNssais = NssaisFromJson(j, "defaultSingleNssais")
      /\ set.singleNssais = NssaisFromJson(j, "singleNssais")
      /\ set.dnnLists = [i \in DOMAIN lists |-> DnnListFromJson(lists[i])]
  BY DEF PlmnIdSetFromJson
<1>2. /\ UNION {SliceInfoFaults(s) : s \in Member(j, "nssai", "object")} = {}
      /\ ArrayFaults(j, {"dnnLists"}, "object") = {}
      /\ UNION {DnnListFaults(l) : l \in Objects(j, "dnnLists")} = {}
  BY DEF PlmnIdSetFaults
<1>3. /\ NssaisFit(NssaisFromJson(j, "defaultSingleNssais"))
      /\ NssaisFit(NssaisFromJson(j, "singleNssais"))
  BY <1>2, NssaisFaultless DEF PlmnIdSetInRange
<1>4. \A i \in DOMAIN lists : lists[i] \in Objects(j, "dnnLists")
  BY <1>2, ObjectsOfArray
<1>5. \A l \in Objects(j, "dnnLists") : DnnListFits(DnnListFromJson(l))
  BY <1>2, DnnListFaultless DEF PlmnIdSetInRange
<1> HIDE DEF set, lists
<1>6. PlmnIdSetFits(set)
  BY <1>1, <1>3, <1>4, <1>5 DEF PlmnIdSetFits
<1> QED
  BY <1>6 DEF set

LEMMA PlmnIdSetsFaultless ==
  ASSUME NEW j, NEW isSliceData, PlmnIdSetsInRange(j),
         UNION {PlmnIdSetFaults(s, isSliceData) : s \in Range(Elements(j, "plmnIdSets"))} = {}
  PROVE  PlmnIdSetsFit(getPlmnIdSets(j))
<1> DEFINE sets == Elements(j, "plmnIdSets")
<1>1. getPlmnIdSets(j) = [i \in DOMAIN sets |-> PlmnIdSetFromJson(sets[i])]
  BY DEF getPlmnIdSets
<1>2. \A i \in DOMAIN sets : PlmnIdSetFaults(sets[i], isSliceData) = {} /\ PlmnIdSetInRange(sets[i])
  BY DEF Range, PlmnIdSetsInRange
<1> HIDE DEF sets
<1> QED
  BY <1>1, <1>2, PlmnIdSetFaultless DEF PlmnIdSetsFit

LEMMA StaticIpFaultless ==
  ASSUME NEW s, StaticIpAddressFaults(s) = {}, NEW initial \in 0..255,
         \A e \in Range(Elements(s, "nssaiDnnIpLists")) : SstInRange(e)
  PROVE  LET r == StaticIpAddressFromJson(s, initial)
         IN  \A i \in DOMAIN Ssts(r) : Ssts(r)[i] \in 0..255
<1> DEFINE lists == Elements(s, "nssaiDnnIpLists")
           r == StaticIpAddressFromJson(s, initial)
<1>1. r.nssaiDnnIpLists = [i \in DOMAIN lists |-> NssaiDnnIpsFromJson(lists[i], initial)]
  BY DEF StaticIpAddressFromJson
<1>2. \A e : NssaiDnnIpsFromJson(e, initial).snssai.sst = SstOf(e, initial)
  BY DEF NssaiDnnIpsFromJson
<1>3. \A i \in DOMAIN lists : NssaiDnnIpsFaults(lists[i]) = {} /\ SstInRange(lists[i])
  BY DEF StaticIpAddressFaults, Range
<1>4. ASSUME NEW e, NssaiDnnIpsFaults(e) = {}, SstInRange(e)
      PROVE  SstOf(e, initial) \in 0..255
  <2> DEFINE snssai == e.object["nssai"]
  <2>1. CASE ~HasMember(e, "nssai")
    BY <2>1 DEF SstOf
  <2>2. CASE HasMember(e, "nssai")
    <3>1. /\ Mistyped(e, {"nssai"}, "object") = {}
          /\ \A x \in Member(e, "nssai", "object") : SnssaiFaults(x) = {}
      BY <1>4 DEF NssaiDnnIpsFaults
    <3>2. snssai \in Member(e, "nssai", "object")
      BY <2>2, <3>1, Mandatory
    <3>3. HasMember(snssai, "sst") /\ Mistyped(snssai, {"sst"}, "int") = {}
      BY <3>1, <3>2 DEF SnssaiFaults, Missing, HasMember
    <3>4. snssai.object["sst"].int \in Optional(snssai, "sst", "int")
      BY <3>3, IntRequired
    <3> QED
      BY <1>4, <2>2, <3>2, <3>4 DEF SstInRange, SstOf
  <2> QED
    BY <2>1, <2>2
<1> HIDE DEF lists, r
<1>5. DOMAIN Ssts(r) = DOMAIN lists /\ \A i \in DOMAIN lists : Ssts(r)[i] = SstOf(lists[i], initial)
  BY <1>1, <1>2 DEF Ssts
<1>6. \A i \in DOMAIN Ssts(r) : Ssts(r)[i] \in 0..255
  BY <1>3, <1>4, <1>5
<1> QED
  BY <1>6 DEF r

LEMMA UdmStaticDataFaultless ==
  ASSUME NEW j, UdmStaticDataFaults(j) = {}, UdmStaticDataInRange(j), NEW initial \in 0..255
  PROVE  UdmStaticDataFits(getUdmStaticData(j, initial))
<1> DEFINE u == getUdmStaticData(j, initial)
<1>1. /\ u.ueUsageType = Optional(j, "ueUsageType", "int")
      /\ u.dlPacketCount = Optional(j, "dlPacketCount", "int")
      /\ u.staticIpAddress = {StaticIpAddressFromJson(s, initial) :
                                s \in Member(j, "staticIpAddress", "object")}
      /\ u.udmSliceData = {getPlmnIdSets(s) : s \in Member(j, "udmSliceData", "object")}
  BY DEF getUdmStaticData
<1>2. UNION {StaticIpAddressFaults(s) : s \in Member(j, "staticIpAddress", "object")} = {}
  BY Zenon DEF UdmStaticDataFaults
<1>3. \A s \in Member(j, "udmSliceData", "object") : UdmSliceDataFaults(s) = {}
  BY UdmStaticDataParts
<1> HIDE DEF u
<1>4. \A s \in Member(j, "udmSliceData", "object") : PlmnIdSetsFit(getPlmnIdSets(s))
  <2> SUFFICES ASSUME NEW s \in Member(j, "udmSliceData", "object")
               PROVE  PlmnIdSetsFit(getPlmnIdSets(s))
    OBVIOUS
  <2>1. UNION {PlmnIdSetFaults(x, TRUE) : x \in Range(Elements(s, "plmnIdSets"))} = {}
    BY <1>3 DEF UdmSliceDataFaults
  <2>2. PlmnIdSetsInRange(s)
    BY DEF UdmStaticDataInRange
  <2> QED
    BY <2>1, <2>2, PlmnIdSetsFaultless
<1>5. \A s \in u.staticIpAddress : \A i \in DOMAIN Ssts(s) : Ssts(s)[i] \in 0..255
  <2> SUFFICES ASSUME NEW s \in Member(j, "staticIpAddress", "object"),
                      NEW r, r = StaticIpAddressFromJson(s, initial)
               PROVE  \A i \in DOMAIN Ssts(r) : Ssts(r)[i] \in 0..255
    BY <1>1
  <2>1. StaticIpAddressFaults(s) = {}
    BY <1>2
  <2>2. \A e \in Range(Elements(s, "nssaiDnnIpLists")) : SstInRange(e)
    BY DEF UdmStaticDataInRange
  <2> QED
    BY <2>1, <2>2, StaticIpFaultless
<1>6. u.ueUsageType \subseteq 0..255 /\ \A n \in u.dlPacketCount : n >= -1
  BY <1>1 DEF UdmStaticDataInRange
<1>7. UdmStaticDataFits(u)
  BY <1>1, <1>4, <1>5, <1>6 DEF UdmStaticDataFits
<1> QED
  BY <1>7 DEF u

LEMMA FaultlessFits ==
  ASSUME NEW kind, NEW j, NEW initial \in 0..255, InRange(kind, j), ResourceFaults(kind, j) = {}
  PROVE  Fits(kind, ResourceFromJson(kind, j, initial))
<1>1. CASE kind = "udmSliceProfile"
  <2>1. UdmSliceProfileFaults(j) = {} /\ PlmnIdSetsInRange(j)
    BY <1>1 DEF ResourceFaults, InRange
  <2>2. UNION {PlmnIdSetFaults(s, FALSE) : s \in Range(Elements(j, "plmnIdSets"))} = {}
    BY <2>1 DEF UdmSliceProfileFaults
  <2>3. PlmnIdSetsFit(getPlmnIdSets(j))
    BY <2>1, <2>2, PlmnIdSetsFaultless
  <2> QED
    BY <1>1, <2>3 DEF Fits, ResourceFromJson, getUdmSliceProfile
<1>2. CASE kind = "udmStaticData"
  <2>1. UdmStaticDataFaults(j) = {} /\ UdmStaticDataInRange(j)
    BY <1>2 DEF ResourceFaults, InRange
  <2>2. UdmStaticDataFits(getUdmStaticData(j, initial))
    BY <2>1, UdmStaticDataFaultless
  <2> QED
    BY <1>2, <2>2 DEF Fits, ResourceFromJson
<1>3. CASE kind \notin {"udmSliceProfile", "udmStaticData"}
  BY <1>3 DEF Fits
<1> QED
  BY <1>1, <1>2, <1>3

LEMMA NothingFits ==
  ASSUME NEW kind, NEW initial
  PROVE  Fits(kind, ResourceFromJson(kind, EmptyObject, initial))
<1>1. DOMAIN EmptyObject.object = {}
  BY DEF EmptyObject, NoMembers
<1>2. /\ \A name, type : Member(EmptyObject, name, type) = {}
      /\ \A name : Elements(EmptyObject, name) = <<>>
  BY <1>1, NothingIsRead
<1>3. PlmnIdSetsFit(getPlmnIdSets(EmptyObject))
  BY <1>2 DEF getPlmnIdSets, PlmnIdSetsFit
<1>4. UdmStaticDataFits(getUdmStaticData(EmptyObject, initial))
  <2> DEFINE u == getUdmStaticData(EmptyObject, initial)
  <2>1. u.ueUsageType = {} /\ u.dlPacketCount = {} /\ u.staticIpAddress = {} /\ u.udmSliceData = {}
    BY <1>2 DEF getUdmStaticData, Optional
  <2> QED
    BY <2>1 DEF UdmStaticDataFits
<1> QED
  BY <1>3, <1>4 DEF Fits, ResourceFromJson, getUdmSliceProfile

(***************************************************************************)
(* The data of a change of a message that can be read.                     *)
(***************************************************************************)
IsMessage(message) == message \in Messages \cup {<<>>}

LEMMA DataOfMessage ==
  ASSUME NEW b, IsMessage(b.changes), Readable(b), NEW i \in DOMAIN b.changes, NEW initial,
         NEW c, c = ChangeFromJson(b.changes[i], initial)
  PROVE  /\ c = [operation |-> c.operation, path |-> c.path, data |-> c.data]
         /\ c.path = PathOf(b.changes[i])
         /\ \E j : /\ c.data = ResourceFromJson(c.path.kind, j, initial)
                   /\ \/ j = EmptyObject
                      \/ /\ j \in DataRead(b.changes[i]) /\ IsObject(j)
                         /\ ResourceFaults(c.path.kind, j) = {}
<1> DEFINE members == b.changes[i]
           kind == PathOf(members).kind
           data == IF DataRead(members) = {} THEN EmptyObject
                   ELSE CHOOSE d \in DataRead(members) : TRUE
<1>1. /\ c = [operation |-> c.operation, path |-> c.path, data |-> c.data]
      /\ c.path = PathOf(members)
      /\ c.data = ResourceFromJson(kind, data, initial)
  BY DEF ChangeFromJson
<1>2. ~MalformedChange(members) /\ ChangeFaults(members) = {}
  BY DEF Readable, Malformed, BodyFaults
<1>3. Given(members, "data") \subseteq Values
  <2>1. b.changes \in Messages
    BY DEF IsMessage
  <2>2. members \in Range(b.changes)
    BY DEF Range
  <2> QED
    BY <2>1, <2>2, MessagesAssumption
<1>4. DataRead(members) \subseteq Given(members, "data")
  BY DEF DataRead, Given
<1>5. \A d \in DataRead(members) : IsObject(d) /\ ResourceFaults(kind, d) = {}
  BY <1>2, <1>3, <1>4 DEF MalformedChange, ChangeFaults, IsObject
<1>6. data = EmptyObject \/ data \in DataRead(members)
  OBVIOUS
<1> HIDE DEF data, kind
<1> QED
  BY <1>1, <1>5, <1>6 DEF kind

LEMMA ChangeIsTyped ==
  ASSUME NEW b, IsMessage(b.changes), Readable(b), NEW i \in DOMAIN b.changes, NEW initial
  PROVE  LET c == ChangeFromJson(b.changes[i], initial) IN IsTyped(c.path.kind, c.data)
<1> DEFINE c == ChangeFromJson(b.changes[i], initial)
<1>1. c = ChangeFromJson(b.changes[i], initial)
  OBVIOUS
<1> HIDE DEF c
<1>2. PICK j : /\ c.data = ResourceFromJson(c.path.kind, j, initial)
               /\ j = EmptyObject \/ IsObject(j)
  BY <1>1, DataOfMessage
<1>3. DOMAIN EmptyObject.object = {}
  BY DEF EmptyObject, NoMembers
<1>4. IsTyped(c.path.kind, c.data)
  BY <1>2, <1>3, ResourceIsTyped
<1> QED
  BY <1>4 DEF c

LEMMA AnsweredInRange ==
  ASSUME NEW b, IsMessage(b.changes), NEW m, NEW a \in MayAnswer(getValidationData(b, m)),
         a.code = HTTP_OK,
         NEW w \in Range(validatorResponseToJson(a).changes), NEW data \in Given(w, "data")
  PROVE  InRange(PathOf(w).kind, data)
<1> DEFINE list == getChangesToValidate(b, m)
           related == getRelatedResources(b, m)
<1>1. validatorResponseToJson(a).changes = [i \in DOMAIN a.changes |-> ChangeToJson(a.changes[i])]
  BY AnsweredChanges
<1>2. PICK i \in DOMAIN a.changes : w = ChangeToJson(a.changes[i])
  BY <1>1 DEF Range
<1>3. Readable(b) /\ AllPass(list, related) /\ a.changes = Mutated(list)
  BY AnswersAllowed
<1> DEFINE members == b.changes[i]
           c == ChangeFromJson(members, m)
<1>4. i \in DOMAIN b.changes /\ list[i] = c /\ a.changes[i] = computeMutations(c)
  BY <1>3 DEF Mutated, getChangesToValidate
<1>5. CheckChange(c, related).valid
  BY <1>3, <1>4 DEF AllPass, getChangesToValidate
<1>6. IsTyped(c.path.kind, c.data)
  BY <1>3, <1>4, ChangeIsTyped
<1>7. c = [operation |-> c.operation, path |-> c.path, data |-> c.data]
  BY <1>3, <1>4, DataOfMessage
<1>8. PICK j : /\ c.data = ResourceFromJson(c.path.kind, j, m)
               /\ ResourceFaults(c.path.kind, j) = {} \/ DOMAIN j.object = {}
  <2>1. ChangeFaults(members) = {}
    BY <1>3, <1>4 DEF Readable, BodyFaults
  <2> HIDE DEF members
  <2> QED
    BY <2>1, DataOfChange
<1> HIDE DEF members, list, related
<1>9. c.operation # "DELETE"
  <2> SUFFICES ASSUME c.operation = "DELETE" PROVE FALSE
    OBVIOUS
  <2>1. computeMutations(c) = c
    BY DEF computeMutations
  <2>2. Given(w, "data") = {}
    BY <1>2, <1>4, <2>1, WrittenChange
  <2> QED
    BY <2>2
<1> DEFINE mutated == computeMutations(c)
<1> HIDE DEF c
<1>10. ReadableResource(c.path.kind, c.data) /\ Fits(c.path.kind, c.data)
  BY <1>5, <1>6, <1>8, <1>9, PassingResource, PassingFits
<1>11. /\ mutated.operation = c.operation /\ mutated.path = c.path
       /\ ReadableResource(c.path.kind, mutated.data)
       /\ Fits(c.path.kind, mutated.data)
  BY <1>7, <1>9, <1>10, MutatedResource, MutatedFits
<1>12. w = ChangeToJson(mutated)
  BY <1>2, <1>4
<1> HIDE DEF mutated
<1>13. data = ResourceToJson(c.path.kind, mutated.data) /\ PathOf(w) = c.path
  BY <1>9, <1>11, <1>12, WrittenChange
<1> QED
  BY <1>11, <1>13, WrittenInRange

(***************************************************************************)
(* No request is refused for a number when all of its numbers are in their *)
(* ranges.                                                                 *)
(***************************************************************************)
LEMMA InRangeIsClean ==
  ASSUME NEW b, IsMessage(b.changes), Readable(b), NEW m \in 0..255, NEW related,
         NEW i \in DOMAIN b.changes,
         \A data \in DataRead(b.changes[i]) : InRange(PathOf(b.changes[i]).kind, data)
  PROVE  Clean(CheckChange(ChangeFromJson(b.changes[i], m), related).errors)
<1> DEFINE c == ChangeFromJson(b.changes[i], m)
<1>1. c = ChangeFromJson(b.changes[i], m) /\ IsTyped(c.path.kind, c.data)
  BY ChangeIsTyped
<1> HIDE DEF c
<1>2. c.path = PathOf(b.changes[i])
  BY <1>1, DataOfMessage
<1>3. PICK j : /\ c.data = ResourceFromJson(c.path.kind, j, m)
               /\ \/ j = EmptyObject
                  \/ j \in DataRead(b.changes[i]) /\ ResourceFaults(c.path.kind, j) = {}
  BY <1>1, DataOfMessage
<1>4. Fits(c.path.kind, c.data)
  BY <1>2, <1>3, NothingFits, FaultlessFits
<1>5. Clean(CheckChange(c, related).errors)
  BY <1>1, <1>4, FittingIsClean
<1> QED
  BY <1>5 DEF c

LEMMA NumbersRefuse ==
  ASSUME NEW b, IsMessage(b.changes), Readable(b), NEW m \in 0..255,
         NEW a \in MayAnswer(getValidationData(b, m)),
         a.errors # {}, a.errors \subseteq NumberErrors
  PROVE  \E c \in Range(b.changes) : \E data \in DataRead(c) : ~InRange(PathOf(c).kind, data)
<1> DEFINE r == getValidationData(b, m)
           list == getChangesToValidate(b, m)
<1>1. /\ r.uri = "/" /\ r.format = "ok" /\ r.errors = {}
      /\ r.changes = list
  BY DEF getValidationData, Readable
<1>2. \A code, changes, errors : Answer(code, changes, errors).errors = errors
  BY DEF Answer
<1> HIDE DEF r
<1>3. \/ a = Answer(HTTP_BAD_REQUEST, <<>>, {"malformed request"})
      \/ a = Answer(HTTP_INTERNAL_SERVER_ERROR, <<>>, {"malformed response"})
      \/ a = Verdict(r)
  BY <1>1 DEF MayAnswer, r
<1>4. a = Verdict(r)
  <2>1. "malformed request" \notin NumberErrors /\ "malformed response" \notin NumberErrors
    BY DEF NumberErrors
  <2>2. a.errors # {"malformed request"} /\ a.errors # {"malformed response"}
    BY <2>1
  <2>3. ASSUME NEW code, NEW changes, NEW errors, a = Answer(code, changes, errors)
        PROVE  a.errors = errors
    BY <1>2, <2>3
  <2> QED
    BY <1>3, <2>2, <2>3, Zenon
<1>5. a.errors = ErrorsOf(r.changes, r.related)
  BY <1>2, <1>4 DEF Verdict
<1>6. PICK e \in NumberErrors, i \in DOMAIN list : e \in CheckChange(list[i], r.related).errors
  <2>1. PICK e \in NumberErrors : e \in ErrorsOf(list, r.related)
    BY <1>1, <1>5
  <2> HIDE DEF list
  <2> QED
    BY <2>1 DEF ErrorsOf
<1>7. i \in DOMAIN b.changes /\ list[i] = ChangeFromJson(b.changes[i], m)
  BY <1>6 DEF getChangesToValidate
<1>8. ~Clean(CheckChange(ChangeFromJson(b.changes[i], m), r.related).errors)
  BY <1>6, <1>7 DEF Clean
<1>9. PICK data \in DataRead(b.changes[i]) : ~InRange(PathOf(b.changes[i]).kind, data)
  BY <1>7, <1>8, InRangeIsClean
<1> QED
  BY <1>7, <1>9 DEF Range

LEMMA AnsweredErrors ==
  ASSUME NEW b, NEW m, NEW a \in MayAnswer(getValidationData(b, m))
  PROVE  validatorResponseToJson(a).errors = a.errors
<1>1. \E code, changes, errors : a = Answer(code, changes, errors)
  BY DEF MayAnswer, Verdict
<1> QED
  BY <1>1 DEF Answer, validatorResponseToJson

-------------------------------------------------------------------------------
(* The numbers                                                                 *)

(***************************************************************************)
(* The inductive invariant: the numbers of a change that is answered with  *)
(* 200 are in their ranges, as the database will have them.                *)
(***************************************************************************)
NumbersInv ==
  /\ NumbersDecide
  /\ Accepted => \A c \in Written : \A data \in Given(c, "data") : InRange(PathOf(c).kind, data)

LEMMA ForgottenNumbers ==
  ASSUME Forget, DbInRange(db)'
  PROVE  NumbersInv'
<1>1. step' = "idle"
  BY DEF Forget
<1> QED
  BY <1>1 DEF NumbersInv, NumbersDecide, Accepted

LEMMA NumbersInvNext ==
  ASSUME TypeOK, NumbersInv, [Next]_vars
  PROVE  NumbersInv'
<1>1. DbInRange(db) /\ IsMessage(body.changes)
  BY DEF NumbersInv, NumbersDecide, TypeOK, IsMessage
<1>2. CASE Send
  <2>1. step' = "sent" /\ DbInRange(db)'
    BY <1>1, <1>2 DEF Send, DbInRange
  <2> QED
    BY <2>1 DEF NumbersInv, NumbersDecide, Accepted
<1>3. CASE Handle
  <2>1. PICK a \in MayAnswer(getValidationData(body, memory)) : answer' = validatorResponseToJson(a)
    BY <1>3 DEF Handle
  <2>2. db' = db /\ body' = body /\ memory' = memory /\ step' = "answered"
    BY <1>3 DEF Handle
  <2>3. answer'.code = a.code /\ answer'.errors = a.errors
    BY <2>1, AnsweredChanges, AnsweredErrors
  <2>4. NumbersDecide'
    BY <1>1, <2>2, <2>3, NumbersRefuse DEF NumbersDecide, DbInRange
  <2>5. Accepted' =>
          \A c \in Written' : \A data \in Given(c, "data") : InRange(PathOf(c).kind, data)
    BY <1>1, <2>1, <2>3, AnsweredInRange DEF Accepted, Written
  <2> QED
    BY <2>4, <2>5 DEF NumbersInv
<1>4. CASE Store
  <2>1. \A c \in Written : \A data \in Given(c, "data") : InRange(PathOf(c).kind, data)
    BY <1>4 DEF NumbersInv, Store
  <2>2. \A p \in DOMAIN db' : InRange(p.kind, db'[p])
    BY <1>1, <1>4, <2>1, StoredFrom DEF DbInRange
  <2>3. DbInRange(db)'
    BY <2>2 DEF DbInRange
  <2> QED
    BY <1>4, <2>3, ForgottenNumbers DEF Store
<1>5. CASE Abandon
  <2>1. Forget /\ DbInRange(db)'
    BY <1>1, <1>5 DEF Abandon, DbInRange
  <2> QED
    BY <2>1, ForgottenNumbers
<1>6. CASE UNCHANGED vars
  BY <1>6 DEF vars, NumbersInv, NumbersDecide, DbInRange, Accepted, Written
<1> QED
  BY <1>2, <1>3, <1>4, <1>5, <1>6 DEF Next

(***************************************************************************)
(* NumbersDecide: whatever way a number comes into the database, over any  *)
(* number of rounds, it is in the range its name allows, if it was when it *)
(* was there from the start: of the numbers the parser reads the rules     *)
(* forget none, and neither computeMutations nor ValidatorRapidJsonEncoder *)
(* makes another number of one. And the rules of ValidationData.cpp refuse *)
(* no request for its numbers unless one is out of its range: at neither   *)
(* end of a range do the rules ask for more than the range, provided that  *)
(* the memory an sst is read from without an nssai has a number in it.     *)
(***************************************************************************)
THEOREM NumbersInTheirRange ==
  ASSUME DbInRange(InitialDb)
  PROVE  Spec => []NumbersDecide
<1>1. Init => NumbersInv
  BY DEF Init, NumbersInv, NumbersDecide, Accepted
<1>2. TypeOK /\ NumbersInv /\ [Next]_vars => NumbersInv'
  BY NumbersInvNext
<1>3. NumbersInv => NumbersDecide
  BY DEF NumbersInv
<1> QED
  BY <1>1, <1>2, <1>3, JsonTypeCorrect, PTL DEF Spec

-------------------------------------------------------------------------------
(* The rounds are rounds of ProvisioningFlow                                   *)

(***************************************************************************)
(* The inductive invariant, for plain messages: the request is about what  *)
(* is in the database, nothing in it depends on the memory, and a 200 has  *)
(* what the encoder wrote for the changes, which passed.                   *)
(***************************************************************************)
MappedInv ==
  /\ DbIsReadAlike(db)
  /\ step # "idle" => body.changes \in Messages /\ body.related = db /\ memory \in Uninitialized
  /\ Accepted =>
       LET list == Decoded(body.changes, memory)
       IN  /\ Readable(body)
           /\ AllPass(list, DecodedResources(body.related, memory))
           /\ answer.changes = [i \in DOMAIN list |-> ChangeToJson(computeMutations(list[i]))]

(***************************************************************************)
(* A change that passed is read from its answer as it was mutated.         *)
(***************************************************************************)
LEMMA OperationRead ==
  ASSUME NEW members, NEW op, Given(members, "operation") = {[string |-> op]}, NEW initial
  PROVE  ChangeFromJson(members, initial).operation = op
<1>1. (CHOOSE v \in Given(members, "operation") : TRUE) = [string |-> op]
  OBVIOUS
<1> QED
  BY <1>1 DEF ChangeFromJson

LEMMA EmptyIsReadAlike ==
  ASSUME NEW kind, NEW initial, NEW other
  PROVE  ResourceFromJson(kind, EmptyObject, initial) = ResourceFromJson(kind, EmptyObject, other)
<1>1. Member(EmptyObject, "staticIpAddress", "object") = {}
  BY DEF Member, HasMember, EmptyObject, NoMembers
<1>2. getUdmStaticData(EmptyObject, initial) = getUdmStaticData(EmptyObject, other)
  BY <1>1 DEF getUdmStaticData
<1> QED
  BY <1>2 DEF ResourceFromJson

LEMMA MutatedIsChange ==
  ASSUME NEW c, c = [operation |-> c.operation, path |-> c.path, data |-> c.data]
  PROVE  LET m == computeMutations(c)
         IN  m = [operation |-> m.operation, path |-> m.path, data |-> m.data]
<1> DEFINE m == computeMutations(c)
<1>1. ASSUME NEW d, NEW x, NEW y, NEW z
      PROVE  [[operation |-> x, path |-> y, data |-> z] EXCEPT !.data = d]
             = [operation |-> x, path |-> y, data |-> d]
  OBVIOUS
<1>2. ASSUME NEW d
      PROVE  [c EXCEPT !.data = d] = [operation |-> c.operation, path |-> c.path, data |-> d]
  <2> DEFINE r == [operation |-> c.operation, path |-> c.path, data |-> c.data]
  <2>1. c = r /\ [r EXCEPT !.data = d] = [operation |-> c.operation, path |-> c.path, data |-> d]
    BY <1>1
  <2> HIDE DEF r
  <2> QED
    BY <2>1
<1>3. DOMAIN c = {"operation", "path", "data"}
  OBVIOUS
<1>4. m = c \/ \E d : m = [c EXCEPT !.data = d]
  <2>1. CASE c.path.kind = "udmSliceProfile" /\ c.operation # "DELETE"
    <3> DEFINE d == [c.data EXCEPT !.plmnIdSets = MutateSets(c.data.plmnIdSets)]
    <3>1. m = [c EXCEPT !.data.plmnIdSets = MutateSets(@)]
      BY <2>1, Zenon DEF computeMutations
    <3>2. m = [c EXCEPT !.data = d]
      BY <1>3, <3>1
    <3> QED
      BY <3>2
  <2>2. CASE c.path.kind = "udmStaticData" /\ c.operation # "DELETE"
    <3> DEFINE data == {MutateSets(sets) : sets \in c.data.udmSliceData}
               d == [c.data EXCEPT !.udmSliceData = data]
    <3>1. m = [c EXCEPT !.data.udmSliceData = {MutateSets(sets) : sets \in @}]
      BY <2>2, Zenon DEF computeMutations
    <3>2. m = [c EXCEPT !.data = d]
      BY <1>3, <3>1
    <3> QED
      BY <3>2
  <2>3. CASE c.path.kind \notin {"udmSliceProfile", "udmStaticData"} \/ c.operation = "DELETE"
    BY <2>3 DEF computeMutations
  <2> QED
    BY <2>1, <2>2, <2>3
<1> HIDE DEF m
<1> QED
  BY <1>2, <1>4 DEF m

LEMMA ChangeReadsBack ==
  ASSUME NEW members, NEW initial, NEW related, ChangeFaults(members) = {}, IsPlain(members),
         LET c == ChangeFromJson(members, initial)
         IN  CheckChange(c, related).valid /\ StaticIpIsWritten(c.path.kind, c.data)
  PROVE  LET m == computeMutations(ChangeFromJson(members, initial))
         IN  \A other : ChangeFromJson(ChangeToJson(m), other) = m
<1> DEFINE c == ChangeFromJson(members, initial)
           m == computeMutations(c)
           w == ChangeToJson(m)
<1>1. /\ c = [operation |-> c.operation, path |-> c.path, data |-> c.data]
      /\ CheckChange(c, related).valid
      /\ StaticIpIsWritten(c.path.kind, c.data)
  BY DataOfChange
<1>2. PICK op \in Operations : /\ Given(members, "operation") = {[string |-> op]}
                               /\ op = "DELETE" => Given(members, "data") = {}
  BY DEF IsPlain
<1>3. c.operation = op
  BY <1>2, OperationRead
<1>4. ASSUME NEW other, op = "DELETE"
      PROVE  ChangeFromJson(w, other) = m
  <2>1. DataRead(members) = {}
    BY <1>2, <1>4 DEF Given, DataRead
  <2>2. c.data = ResourceFromJson(c.path.kind, EmptyObject, initial)
    BY <2>1 DEF ChangeFromJson
  <2> HIDE DEF c
  <2>3. m = c
    BY <1>3, <1>4 DEF computeMutations
  <2>4. PathOf(w) = c.path /\ DataRead(w) = {} /\ Given(w, "operation") = {[string |-> c.operation]}
    BY <1>3, <1>4, <2>3, WrittenChange
  <2> HIDE DEF w
  <2>5. ChangeFromJson(w, other).operation = c.operation
    BY <2>4, OperationRead
  <2>6. ChangeFromJson(w, other)
        = [operation |-> ChangeFromJson(w, other).operation, path |-> PathOf(w),
           data |-> ResourceFromJson(PathOf(w).kind, EmptyObject, other)]
    BY <2>4 DEF ChangeFromJson
  <2> QED
    BY <1>1, <2>2, <2>3, <2>4, <2>5, <2>6, EmptyIsReadAlike
<1>5. ASSUME NEW other, op # "DELETE"
      PROVE  ChangeFromJson(w, other) = m
  <2> DEFINE j == ResourceToJson(c.path.kind, m.data)
  <2>1. /\ m.operation = c.operation
        /\ m.path = c.path
        /\ ResourceFromJson(c.path.kind, j, other) = m.data
    BY <1>1, <1>3, <1>5, AcceptedDataReadsBack
  <2>2. m = [operation |-> m.operation, path |-> m.path, data |-> m.data]
    BY <1>1, MutatedIsChange
  <2> HIDE DEF m, c
  <2>3. /\ PathOf(w) = m.path
        /\ DataRead(w) = {ResourceToJson(m.path.kind, m.data)}
        /\ Given(w, "operation") = {[string |-> m.operation]}
    BY <1>3, <1>5, <2>1, WrittenChange
  <2>4. DataRead(w) = {j}
    BY <2>1, <2>3
  <2> HIDE DEF w, j
  <2>5. ChangeFromJson(w, other).operation = m.operation
    BY <2>3, OperationRead
  <2>6. ChangeFromJson(w, other)
        = [operation |-> ChangeFromJson(w, other).operation, path |-> PathOf(w),
           data |-> ResourceFromJson(PathOf(w).kind, j, other)]
    BY <2>4 DEF ChangeFromJson
  <2> QED
    BY <2>1, <2>2, <2>3, <2>5, <2>6
<1> QED
  BY <1>4, <1>5

(***************************************************************************)
(* A message, as ProvisioningFlow has it.                                  *)
(***************************************************************************)
\* A message that was sent with other resources is read on its own.
LEMMA ReadableMessage ==
  ASSUME NEW b, Readable(b)
  PROVE  Readable([changes |-> b.changes, related |-> <<>>])
<1> DEFINE alone == [changes |-> b.changes, related |-> <<>>]
<1>1. alone.changes = b.changes /\ DOMAIN alone.related = {}
  OBVIOUS
<1> HIDE DEF alone
<1> QED
  BY <1>1 DEF Readable, Malformed, BodyFaults

LEMMA ReadAlike ==
  ASSUME NEW content, DbIsReadAlike(content), NEW m \in Uninitialized
  PROVE  DecodedResources(content, m) = DecodedResources(content, 0)
<1>1. \A i : /\ [related |-> content].related = content
  OBVIOUS
<1>2. \A i : DecodedResources(content, i)
             = [p \in {p \in DOMAIN content : p.kind # "other"} |->
                  ResourceFromJson(p.kind, content[p], i)]
  BY <1>1 DEF DecodedResources, getRelatedResources
<1>3. \A p \in DOMAIN content :
        ResourceFromJson(p.kind, content[p], m) = ResourceFromJson(p.kind, content[p], 0)
  BY DEF DbIsReadAlike, IsReadAlike
<1> QED
  BY <1>2, <1>3

LEMMA DecodedMessage ==
  ASSUME NEW message, NEW m
  PROVE  Decoded(message, m) = [i \in DOMAIN message |-> ChangeFromJson(message[i], m)]
<1>1. [changes |-> message].changes = message
  OBVIOUS
<1> QED
  BY <1>1 DEF Decoded, getChangesToValidate

LEMMA PlainMessage ==
  ASSUME MessagesArePlain, NEW b, Readable(b), b.changes \in Messages, NEW m \in Uninitialized
  PROVE  /\ Decoded(b.changes, m) \in DecodedMessages
         /\ Distinct(b.changes)
         /\ \A i \in DOMAIN b.changes :
              /\ IsPlain(b.changes[i])
              /\ ChangeFaults(b.changes[i]) = {}
              /\ LET c == ChangeFromJson(b.changes[i], m)
                 IN  StaticIpIsWritten(c.path.kind, c.data)
<1>1. Readable([changes |-> b.changes, related |-> <<>>])
  BY ReadableMessage
<1>2. Decoded(b.changes, m) \in DecodedMessages
  BY <1>1 DEF DecodedMessages
<1>3. \A i \in DOMAIN b.changes : ChangeFaults(b.changes[i]) = {}
  BY DEF Readable, BodyFaults
<1>4. Distinct(b.changes) /\ \A i \in DOMAIN b.changes : IsPlain(b.changes[i])
  BY <1>1 DEF MessagesArePlain, Range
<1>5. \A i \in DOMAIN b.changes : ChangeFromJson(b.changes[i], m) \in Range(Decoded(b.changes, m))
  BY DecodedMessage DEF Range
<1>6. \A c \in Range(Decoded(b.changes, m)) : StaticIpIsWritten(c.path.kind, c.data)
  BY <1>2 DEF MessagesArePlain
<1> QED
  BY <1>2, <1>3, <1>4, <1>5, <1>6

\* The answer is read as the mutated changes.
LEMMA AnswerReadsBack ==
  ASSUME MessagesArePlain, NEW b, b.changes \in Messages, Readable(b), NEW m \in Uninitialized,
         NEW content, AllPass(Decoded(b.changes, m), content), NEW written,
         LET list == Decoded(b.changes, m)
         IN  written = [i \in DOMAIN list |-> ChangeToJson(computeMutations(list[i]))]
  PROVE  \A other : Decoded(written, other) = Mutated(Decoded(b.changes, m))
<1> DEFINE list == Decoded(b.changes, m)
<1>1. list = [i \in DOMAIN b.changes |-> ChangeFromJson(b.changes[i], m)]
  BY DecodedMessage
<1>2. \A i \in DOMAIN b.changes : CheckChange(list[i], content).valid
  BY <1>1 DEF AllPass
<1>3. ASSUME NEW i \in DOMAIN b.changes, NEW other
      PROVE  ChangeFromJson(ChangeToJson(computeMutations(list[i])), other)
             = computeMutations(list[i])
  <2>1. list[i] = ChangeFromJson(b.changes[i], m)
    BY <1>1
  <2> HIDE DEF list
  <2> QED
    BY <1>2, <2>1, PlainMessage, ChangeReadsBack
<1> SUFFICES ASSUME NEW other PROVE Decoded(written, other) = Mutated(list)
  OBVIOUS
<1>4. Decoded(written, other) = [i \in DOMAIN written |-> ChangeFromJson(written[i], other)]
  BY DecodedMessage
<1>5. DOMAIN list = DOMAIN b.changes
  BY <1>1
<1>6. written = [i \in DOMAIN list |-> ChangeToJson(computeMutations(list[i]))]
  OBVIOUS
<1> HIDE DEF list
<1> QED
  BY <1>3, <1>4, <1>5, <1>6 DEF Mutated

(***************************************************************************)
(* The instance has the rules once more: they are the same rules.          *)
(***************************************************************************)
LEMMA SameRules ==
  ASSUME NEW list, NEW content
  PROVE  Flow!AllPass(list, content) = AllPass(list, content) /\ Flow!Mutated(list) = Mutated(list)
  BY DEF HTTP_OK, HTTP_CONFLICT, HTTP_UNPROCESSABLE_ENTITY, Raise, Success, Conflict,
         Unprocessable, WorstCode, WorstOf, SscModes, SessionTypes, PreemptCaps,
         PreemptVulns, SecurityLevels, Repeats, HasRepeats, Known, SscModesErrors,
         SessionTypesErrors, FivegQosErrors, Unknown, DnnDataErrors, DEFAULT_VALUE,
         AllNssais, SnssaiOf, Snssais, DnnListIdsOf, ReferencedIds, NssaiErrors,
         DnnListErrors, PlmnIdSetErrors, checkForCommonUdmSliceProfileRules, DnnNames,
         checkForRepeatedDnnsandNssais, First, FirstSets, NssaisOf, DnnsOf,
         checkForRepeatedNssaisOnUpdate, Times, InAll, RepeatedDnnsOnUpdate, DnnListIdPairs,
         DnnListIdDefined, checkForUpdateSpecificUdmSliceProfileRules, CommonUnlessEmpty,
         checkForCreationUdmSliceProfileRules, checkForUpdateUdmSliceProfileRules,
         includeNssai, MutateSets, RestrictionTypes, RatTypes, CoreNetworkTypes,
         RoamingOdbs, AreaErrors, ScalarErrors, IpAddressFormat, StaticIpAddressErrors,
         ReferencedPairs, UdmSliceDataErrors, checkForCommonUdmSubscriptionRules,
         CheckedAgainst, checkForCreationUdmSubscriptionRules,
         checkForUpdateUdmSubscriptionRules, Holds, checkSmsSubscribed,
         checkMtSmsSubscribed, checkMoSmsSubscribed, CommonSmsValidationRules,
         CreateSpecificSmsValidationRules, UpdateSpecificSmsValidationRules,
         SmsValidationRules, isTac, TacLists, checkForCommonUdmRoamingAreaRules,
         checkForCreationUdmRoamingAreaRules, checkForUpdateUdmRoamingAreaRules,
         RelatedResource, buildProvJournalResourcePathFromMscId, ProvJournal,
         getRelatedUdmSliceProfile, UdmStaticDataRules, UdmSliceProfileRules,
         UdmRoamingAreaRules, CheckChange, computeMutations, AllPass, Mutated, Range,
         Cardinality, Flow!HTTP_OK, Flow!HTTP_CONFLICT, Flow!HTTP_UNPROCESSABLE_ENTITY,
         Flow!Raise, Flow!Success, Flow!Conflict, Flow!Unprocessable, Flow!WorstCode,
         Flow!WorstOf, Flow!SscModes, Flow!SessionTypes, Flow!PreemptCaps,
         Flow!PreemptVulns, Flow!SecurityLevels, Flow!Repeats, Flow!HasRepeats, Flow!Known,
         Flow!SscModesErrors, Flow!SessionTypesErrors, Flow!FivegQosErrors, Flow!Unknown,
         Flow!DnnDataErrors, Flow!DEFAULT_VALUE, Flow!AllNssais, Flow!SnssaiOf,
         Flow!Snssais, Flow!DnnListIdsOf, Flow!ReferencedIds, Flow!NssaiErrors,
         Flow!DnnListErrors, Flow!PlmnIdSetErrors, Flow!checkForCommonUdmSliceProfileRules,
         Flow!DnnNames, Flow!checkForRepeatedDnnsandNssais, Flow!First, Flow!FirstSets,
         Flow!NssaisOf, Flow!DnnsOf, Flow!checkForRepeatedNssaisOnUpdate, Flow!Times,
         Flow!InAll, Flow!RepeatedDnnsOnUpdate, Flow!DnnListIdPairs, Flow!DnnListIdDefined,
         Flow!checkForUpdateSpecificUdmSliceProfileRules, Flow!CommonUnlessEmpty,
         Flow!checkForCreationUdmSliceProfileRules, Flow!checkForUpdateUdmSliceProfileRules,
         Flow!includeNssai, Flow!MutateSets, Flow!RestrictionTypes, Flow!RatTypes,
         Flow!CoreNetworkTypes, Flow!RoamingOdbs, Flow!AreaErrors, Flow!ScalarErrors,
         Flow!IpAddressFormat, Flow!StaticIpAddressErrors, Flow!ReferencedPairs,
         Flow!UdmSliceDataErrors, Flow!checkForCommonUdmSubscriptionRules,
         Flow!CheckedAgainst, Flow!checkForCreationUdmSubscriptionRules,
         Flow!checkForUpdateUdmSubscriptionRules, Flow!Holds, Flow!checkSmsSubscribed,
         Flow!checkMtSmsSubscribed, Flow!checkMoSmsSubscribed,
         Flow!CommonSmsValidationRules, Flow!CreateSpecificSmsValidationRules,
         Flow!UpdateSpecificSmsValidationRules, Flow!SmsValidationRules, Flow!isTac,
         Flow!TacLists, Flow!checkForCommonUdmRoamingAreaRules,
         Flow!checkForCreationUdmRoamingAreaRules, Flow!checkForUpdateUdmRoamingAreaRules,
         Flow!RelatedResource, Flow!buildProvJournalResourcePathFromMscId, Flow!ProvJournal,
         Flow!getRelatedUdmSliceProfile, Flow!UdmStaticDataRules, Flow!UdmSliceProfileRules,
         Flow!UdmRoamingAreaRules, Flow!CheckChange, Flow!computeMutations, Flow!AllPass,
         Flow!Mutated, Flow!Range, Flow!Cardinality

(***************************************************************************)
(* What makes a step of ProvisioningFlow, on what is read from the JSON.   *)
(***************************************************************************)
LEMMA OneClient ==
  ASSUME NEW x, NEW v
  PROVE  /\ [[c \in {Client} |-> x] EXCEPT ![Client] = v] = [c \in {Client} |-> v]
         /\ [c \in {Client} |-> x][Client] = x
  OBVIOUS

LEMMA FlowReads ==
  ASSUME RoundStep = "idle", NEW intent \in DecodedMessages, Flow!Sensible(intent),
         RoundStep' = "read", RoundChanges' = intent, RoundRelated' = DecodedResources(db, 0),
         DecodedResources(db, 0)' = DecodedResources(db, 0), RoundAnswer' = RoundAnswer
  PROVE  Flow!Next
<1> HIDE DEF RoundStep, RoundChanges, RoundRelated, RoundAnswer
<1>1. Flow!Read(Client)
  BY OneClient, Zenon DEF Flow!Read
<1> QED
  BY <1>1, Zenon DEF Flow!Next

LEMMA FlowValidates ==
  ASSUME RoundStep = "read", RoundStep' = "answered", 
         RoundAnswer' = IF Flow!AllPass(RoundChanges, RoundRelated)
                        THEN {Flow!Mutated(RoundChanges)} ELSE {},
         DecodedResources(db, 0)' = DecodedResources(db, 0),
         RoundChanges' = RoundChanges, RoundRelated' = RoundRelated
  PROVE  Flow!Next
<1>1. Flow!Validate(Client)
  BY OneClient, Zenon DEF Flow!Validate
<1> QED
  BY <1>1, Zenon DEF Flow!Next

LEMMA FlowForgets ==
  ASSUME RoundStep' = "idle", RoundChanges' = <<>>, RoundRelated' = DecodedInitialDb,
         RoundAnswer' = {}
  PROVE  Flow!Forget(Client)
  BY OneClient, Zenon DEF Flow!Forget

LEMMA FlowStores ==
  ASSUME RoundStep = "answered", NEW accepted \in RoundAnswer, 
         DecodedResources(db, 0)' = Flow!ApplyAll(DecodedResources(db, 0), accepted),
         Flow!Forget(Client)
  PROVE  Flow!Next
<1>1. Flow!Store(Client)
  BY OneClient, Zenon DEF Flow!Store
<1> QED
  BY <1>1, Zenon DEF Flow!Next

LEMMA FlowAbandons ==
  ASSUME RoundStep # "idle", DecodedResources(db, 0)' = DecodedResources(db, 0), Flow!Forget(Client)
  PROVE  Flow!Next
<1>1. Flow!Abandon(Client)
  BY OneClient, Zenon DEF Flow!Abandon
<1> QED
  BY <1>1, Zenon DEF Flow!Next

(***************************************************************************)
(* What Store makes of the database, change by change.                     *)
(***************************************************************************)
LEMMA LastOfDistinct ==
  ASSUME NEW list, \A i, k \in DOMAIN list : list[i].path = list[k].path => i = k,
         DOMAIN list \subseteq Int
  PROVE  /\ \A i \in DOMAIN list : Flow!LastFor(list, list[i].path) = {list[i]}
         /\ \A p : (\A i \in DOMAIN list : list[i].path # p) => Flow!LastFor(list, p) = {}
<1>1. \A i \in DOMAIN list : Flow!LastFor(list, list[i].path) = {list[i]}
  BY DEF Flow!LastFor
<1> QED
  BY <1>1 DEF Flow!LastFor

LEMMA StoredAsApplied ==
  ASSUME MessagesArePlain, MappedInv, Store
  PROVE  /\ DbIsReadAlike(db')
         /\ DecodedResources(db', 0)
              = Flow!ApplyAll(DecodedResources(db, 0), Mutated(Decoded(body.changes, memory)))
<1> DEFINE list == Decoded(body.changes, memory)
           m(i) == computeMutations(list[i])
           w(i) == ChangeToJson(m(i))
           N == DOMAIN body.changes
           J(i) == ResourceToJson(m(i).path.kind, m(i).data)
<1>1. /\ body.changes \in Messages /\ memory \in Uninitialized /\ Readable(body)
      /\ AllPass(list, DecodedResources(body.related, memory))
      /\ answer.changes = [i \in DOMAIN list |-> w(i)]
  BY DEF MappedInv, Accepted, Store
<1>2. list = [i \in N |-> ChangeFromJson(body.changes[i], memory)]
  BY DecodedMessage
<1>3. answer.changes = [i \in N |-> w(i)]
  BY <1>1, <1>2
<1>4. Mutated(list) = [i \in N |-> m(i)]
  BY <1>2 DEF Mutated
<1>5. ASSUME NEW i \in N
      PROVE  /\ m(i).path = PathOf(body.changes[i])
             /\ PathOf(w(i)) = m(i).path
             /\ m(i).operation = "DELETE" => Given(w(i), "data") = {}
             /\ m(i).operation # "DELETE" =>
                  /\ Given(w(i), "data") = {J(i)}
                  /\ m(i).path.kind # "other"
                  /\ \A other : ResourceFromJson(m(i).path.kind, J(i), other) = m(i).data
  <2> DEFINE c == ChangeFromJson(body.changes[i], memory)
             related == DecodedResources(body.related, memory)
  <2>1. list[i] = c /\ c.path = PathOf(body.changes[i])
    BY <1>2 DEF ChangeFromJson
  <2>2. CheckChange(c, related).valid
    BY <1>1, <1>2, <2>1 DEF AllPass
  <2>3. /\ ChangeFaults(body.changes[i]) = {}
        /\ StaticIpIsWritten(c.path.kind, c.data)
        /\ c = [operation |-> c.operation, path |-> c.path, data |-> c.data]
    BY <1>1, PlainMessage, DataOfChange
  <2>4. c.operation # "DELETE" =>
          LET data == computeMutations(c).data
              j    == ResourceToJson(c.path.kind, data)
          IN  /\ computeMutations(c).operation = c.operation
              /\ computeMutations(c).path = c.path
              /\ c.path.kind \in KindsWithRules
              /\ \A other : ResourceFromJson(c.path.kind, j, other) = data
    BY <2>2, <2>3, AcceptedDataReadsBack
  <2>5. m(i) = computeMutations(c) /\ (c.operation = "DELETE" => computeMutations(c) = c)
    BY <2>1 DEF computeMutations
  <2> HIDE DEF m, list, c
  <2>6. /\ PathOf(w(i)) = m(i).path
        /\ m(i).operation = "DELETE" => Given(w(i), "data") = {}
        /\ m(i).operation # "DELETE" => Given(w(i), "data") = {J(i)}
    BY WrittenChange
  <2> HIDE DEF w, J
  <2>7. m(i).operation = c.operation /\ m(i).path = c.path
    BY <2>4, <2>5
  <2>8. m(i).operation # "DELETE" =>
          /\ m(i).path.kind # "other"
          /\ \A other : ResourceFromJson(m(i).path.kind, J(i), other) = m(i).data
    BY <2>4, <2>5, <2>7 DEF KindsWithRules, J
  <2> QED
    BY <2>1, <2>6, <2>7, <2>8
<1>6. \A i, k \in N : m(i).path = m(k).path => i = k
  BY <1>1, <1>5, PlainMessage DEF Distinct
<1> DEFINE Of(p) == UNION {Given(c, "data") : c \in {c \in Written : PathOf(c) = p}}
           paths == {PathOf(c) : c \in Written}
<1>7. db' = [p \in paths \cup (DOMAIN db \ Deleted) |->
               IF Of(p) = {} THEN db[p] ELSE CHOOSE d \in Of(p) : TRUE]
  BY DEF Store
<1> HIDE DEF list, m, w, J
<1>8. Written = {w(i) : i \in {i \in N : m(i).operation # "DELETE"}}
  BY <1>3, <1>5 DEF Written, Range
<1>9. Deleted = {m(i).path : i \in {i \in N : m(i).operation = "DELETE"}}
  BY <1>3, <1>5 DEF Deleted, Range
<1>10. paths = {m(i).path : i \in {i \in N : m(i).operation # "DELETE"}}
  BY <1>5, <1>8
<1>11. ASSUME NEW i \in N, m(i).operation # "DELETE"
       PROVE  Of(m(i).path) = {J(i)}
  <2>1. {c \in Written : PathOf(c) = m(i).path} = {w(i)}
    BY <1>5, <1>6, <1>8, <1>11
  <2> QED
    BY <1>5, <1>11, <2>1
<1>12. ASSUME NEW p, p \notin paths PROVE Of(p) = {}
  BY <1>12
<1> HIDE DEF Of, paths
<1>13. /\ DOMAIN db' = paths \cup (DOMAIN db \ Deleted)
       /\ \A i \in N : m(i).operation # "DELETE" => db'[m(i).path] = J(i)
       /\ \A p \in DOMAIN db \ Deleted : p \notin paths => db'[p] = db[p]
  BY <1>7, <1>10, <1>11, <1>12
<1>14. DbIsReadAlike(db')
  <2> SUFFICES ASSUME NEW p \in DOMAIN db' PROVE IsReadAlike(p, db'[p])
    BY DEF DbIsReadAlike
  <2>1. CASE p \in paths
    <3>1. PICK i \in N : m(i).operation # "DELETE" /\ p = m(i).path
      BY <1>10, <2>1
    <3> QED
      BY <1>5, <1>13, <3>1 DEF IsReadAlike
  <2>2. CASE p \notin paths
    <3>1. p \in DOMAIN db /\ db'[p] = db[p]
      BY <1>13, <2>2
    <3> QED
      BY <3>1 DEF MappedInv, DbIsReadAlike
  <2> QED
    BY <2>1, <2>2
<1> DEFINE muts == Mutated(list)
           content == DecodedResources(db, 0)
           after == DecodedResources(db', 0)
<1>15. /\ content = [p \in DOMAIN db |-> ResourceFromJson(p.kind, db[p], 0)]
       /\ after = [p \in DOMAIN db' |-> ResourceFromJson(p.kind, db'[p], 0)]
  <2>1. ASSUME NEW d, DbIsReadAlike(d)
        PROVE  DecodedResources(d, 0) = [p \in DOMAIN d |-> ResourceFromJson(p.kind, d[p], 0)]
    <3>1. [related |-> d].related = d
      OBVIOUS
    <3> QED
      BY <2>1, <3>1 DEF DecodedResources, getRelatedResources, DbIsReadAlike, IsReadAlike
  <2> QED
    BY <1>14, <2>1 DEF MappedInv
<1>16. /\ DOMAIN muts = N
       /\ \A i \in N : muts[i] = m(i)
  BY <1>4
<1>17. N \subseteq Int
  <2>1. body.changes \in Seq(Range(body.changes))
    BY <1>1, MessagesAssumption
  <2> QED
    BY <2>1
<1> HIDE DEF muts, content, after, N
<1>18. /\ \A i \in N : Flow!LastFor(muts, m(i).path) = {m(i)}
       /\ \A p : (\A i \in N : m(i).path # p) => Flow!LastFor(muts, p) = {}
  <2>1. \A i, k \in DOMAIN muts : muts[i].path = muts[k].path => i = k
    BY <1>6, <1>16
  <2>2. /\ \A i \in DOMAIN muts : Flow!LastFor(muts, muts[i].path) = {muts[i]}
        /\ \A p : (\A i \in DOMAIN muts : muts[i].path # p) => Flow!LastFor(muts, p) = {}
    BY <1>16, <1>17, <2>1, LastOfDistinct
  <2> QED
    BY <1>16, <2>2
<1> DEFINE written == {p \in {muts[i].path : i \in DOMAIN muts} :
                         \E c \in Flow!LastFor(muts, p) : c.operation # "DELETE"}
           kept == {p \in DOMAIN content : Flow!LastFor(muts, p) = {}}
<1>19. written = paths
  BY <1>10, <1>16, <1>18
<1>20. kept = {p \in DOMAIN content : \A i \in N : m(i).path # p}
  BY <1>18
<1>21. Flow!ApplyAll(content, muts)
       = [p \in written \cup kept |->
            IF p \in kept THEN content[p] ELSE (CHOOSE c \in Flow!LastFor(muts, p) : TRUE).data]
  BY DEF Flow!ApplyAll
<1> HIDE DEF written, kept
<1>22. DOMAIN content = DOMAIN db /\ DOMAIN after = DOMAIN db'
  BY <1>15
<1>23. DOMAIN after = written \cup kept
  BY <1>9, <1>10, <1>13, <1>19, <1>20, <1>22
<1>24. ASSUME NEW p \in kept
       PROVE  after[p] = content[p]
  BY <1>9, <1>10, <1>13, <1>15, <1>20, <1>22
<1>25. ASSUME NEW p \in written \cup kept, p \notin kept
       PROVE  after[p] = (CHOOSE c \in Flow!LastFor(muts, p) : TRUE).data
  <2>1. PICK i \in N : m(i).operation # "DELETE" /\ p = m(i).path
    BY <1>10, <1>19, <1>25
  <2>2. after[p] = m(i).data
    BY <1>5, <1>13, <1>15, <1>22, <1>23, <2>1
  <2>3. (CHOOSE c \in Flow!LastFor(muts, p) : TRUE) = m(i)
    BY <1>18, <2>1
  <2> QED
    BY <2>2, <2>3
<1>26. after = Flow!ApplyAll(content, muts)
  BY <1>15, <1>21, <1>22, <1>23, <1>24, <1>25
<1> QED
  BY <1>14, <1>26 DEF after, content, muts, list

(***************************************************************************)
(* The invariant, and what each action is in ProvisioningFlow: a request   *)
(* that cannot be read, and an answer that is not a 200, are steps it does *)
(* not see.                                                                *)
(***************************************************************************)
LEMMA MappedInvInit ==
  ASSUME DbIsReadAlike(InitialDb), Init
  PROVE  MappedInv
  BY DEF Init, MappedInv, Accepted

LEMMA MappedInvNext ==
  ASSUME MessagesArePlain, MappedInv, [Next]_vars
  PROVE  MappedInv'
<1>1. CASE Send
  <2>1. PICK message \in Messages : body' = [changes |-> message, related |-> db]
    BY <1>1 DEF Send
  <2>2. db' = db /\ step' = "sent" /\ memory' \in Uninitialized
    BY <1>1 DEF Send
  <2>3. body'.changes \in Messages /\ body'.related = db'
    BY <2>1, <2>2
  <2> QED
    BY <2>2, <2>3 DEF MappedInv, DbIsReadAlike, Accepted
<1>2. CASE Handle
  <2>1. PICK a \in MayAnswer(getValidationData(body, memory)) : answer' = validatorResponseToJson(a)
    BY <1>2 DEF Handle
  <2>2. step = "sent" /\ step' = "answered" /\ db' = db /\ body' = body /\ memory' = memory
    BY <1>2 DEF Handle
  <2>3. /\ answer'.code = a.code
        /\ answer'.changes = [i \in DOMAIN a.changes |-> ChangeToJson(a.changes[i])]
    BY <2>1, AnsweredChanges
  <2> DEFINE list == Decoded(body.changes, memory)
             content == DecodedResources(body.related, memory)
  <2>4. list = getChangesToValidate(body, memory) /\ content = getRelatedResources(body, memory)
    BY DEF Decoded, DecodedResources, getChangesToValidate, getRelatedResources
  <2>5. a.code = HTTP_OK => Readable(body) /\ AllPass(list, content) /\ a.changes = Mutated(list)
    BY <2>4, AnswersAllowed
  <2> HIDE DEF list, content
  <2>6. Accepted' =>
          /\ Readable(body) /\ AllPass(list, content)
          /\ answer'.changes = [i \in DOMAIN list |-> ChangeToJson(computeMutations(list[i]))]
    BY <2>3, <2>5 DEF Accepted, Mutated
  <2>7. /\ DbIsReadAlike(db')
        /\ body'.changes \in Messages /\ body'.related = db' /\ memory' \in Uninitialized
    BY <2>2 DEF MappedInv, DbIsReadAlike
  <2> QED
    BY <2>2, <2>6, <2>7 DEF MappedInv, list, content
<1>3. CASE Store
  <2>1. DbIsReadAlike(db') /\ step' = "idle"
    BY <1>3, StoredAsApplied DEF Store, Forget
  <2> QED
    BY <2>1 DEF MappedInv, DbIsReadAlike, Accepted
<1>4. CASE Abandon
  <2>1. db' = db /\ step' = "idle"
    BY <1>4 DEF Abandon, Forget
  <2> QED
    BY <2>1 DEF MappedInv, DbIsReadAlike, Accepted
<1>5. CASE UNCHANGED vars
  BY <1>5 DEF vars, MappedInv, DbIsReadAlike, Accepted
<1> QED
  BY <1>1, <1>2, <1>3, <1>4, <1>5 DEF Next

\* A message that is sensible is sensible as it is read.
LEMMA SensibleAsRead ==
  ASSUME MessagesArePlain, MappedInv, NEW message \in Messages, NEW m \in Uninitialized,
         Readable([changes |-> message, related |-> <<>>]), Sensible(message)
  PROVE  Flow!Sensible(Decoded(message, m))
<1>1. Decoded(message, m) = [i \in DOMAIN message |-> ChangeFromJson(message[i], m)]
  BY DecodedMessage
<1>2. DOMAIN DecodedResources(db, 0) = DOMAIN db
  <2>1. [related |-> db].related = db
    OBVIOUS
  <2> QED
    BY <2>1 DEF DecodedResources, getRelatedResources, MappedInv, DbIsReadAlike, IsReadAlike
<1> SUFFICES ASSUME NEW i \in DOMAIN message
             PROVE  LET c == ChangeFromJson(message[i], m)
                    IN  c.operation = "CREATE" <=> c.path \notin DOMAIN db
  BY <1>1, <1>2 DEF Flow!Sensible
<1>3. IsPlain(message[i])
  BY DEF MessagesArePlain, Range
<1>4. PICK op \in Operations : Given(message[i], "operation") = {[string |-> op]}
  BY <1>3 DEF IsPlain
<1>5. ChangeFromJson(message[i], m).operation = op
  BY <1>4, OperationRead
<1>6. ChangeFromJson(message[i], m).path = PathOf(message[i])
  BY DEF ChangeFromJson
<1>7. [string |-> "CREATE"] \in Given(message[i], "operation") <=> op = "CREATE"
  <2>1. \A x : [string |-> x].string = x
    OBVIOUS
  <2>2. [string |-> "CREATE"] = [string |-> op] <=> op = "CREATE"
    BY <2>1
  <2> QED
    BY <1>4, <2>2
<1> QED
  BY <1>5, <1>6, <1>7 DEF Sensible

FlowVars == <<DecodedResources(db, 0), RoundStep, RoundChanges, RoundRelated, RoundAnswer>>

LEMMA FlowStutters ==
  ASSUME UNCHANGED FlowVars
  PROVE  UNCHANGED Flow!vars
  BY DEF FlowVars, Flow!vars

LEMMA OutOfRound ==
  ASSUME ~InRound
  PROVE  /\ RoundStep = "idle"
         /\ RoundChanges = <<>>
         /\ RoundRelated = DecodedInitialDb
         /\ RoundAnswer = {}
  BY DEF RoundStep, RoundChanges, RoundRelated, RoundAnswer

LEMMA SendImplements ==
  ASSUME MessagesArePlain, MappedInv, Send
  PROVE  [Flow!Next]_(Flow!vars)
<1>1. PICK message \in Messages : Sensible(message) /\ body' = [changes |-> message, related |-> db]
  BY DEF Send
<1>2. /\ db' = db /\ step = "idle" /\ step' = "sent" /\ memory' \in Uninitialized
      /\ body'.changes = message /\ body'.related = db
  BY <1>1 DEF Send
<1>3. ~InRound /\ ~Accepted'
  BY <1>2 DEF InRound, Accepted
<1>4. DecodedResources(db, 0)' = DecodedResources(db, 0)
  BY <1>2
<1>5. CASE Readable(body')
  <2>1. /\ InRound'
        /\ RoundStep = "idle" /\ RoundStep' = "read"
        /\ RoundAnswer = {} /\ RoundAnswer' = {}
    BY <1>2, <1>3, <1>5, OutOfRound DEF InRound, RoundStep, RoundAnswer
  <2>2. /\ RoundChanges' = Decoded(message, memory')
        /\ RoundRelated' = DecodedResources(db, memory')
    BY <1>2, <2>1 DEF RoundChanges, RoundRelated
  <2>3. RoundRelated' = DecodedResources(db, 0)
    BY <1>2, <2>2, ReadAlike DEF MappedInv
  <2>4. Readable([changes |-> message, related |-> <<>>])
    BY <1>2, <1>5, ReadableMessage
  <2>5. Decoded(message, memory') \in DecodedMessages
    BY <1>2, <2>4 DEF DecodedMessages
  <2>6. Flow!Sensible(Decoded(message, memory'))
    BY <1>1, <1>2, <2>4, SensibleAsRead
  <2> QED
    BY <1>4, <2>1, <2>2, <2>3, <2>5, <2>6, FlowReads
<1>6. CASE ~Readable(body')
  <2>1. ~InRound'
    BY <1>6 DEF InRound
  <2>2. UNCHANGED FlowVars
    BY <1>3, <1>4, <2>1, OutOfRound DEF FlowVars, RoundStep, RoundChanges, RoundRelated, RoundAnswer
  <2> QED
    BY <2>2, FlowStutters
<1> QED
  BY <1>5, <1>6

LEMMA HandleImplements ==
  ASSUME MessagesArePlain, MappedInv, MappedInv', Handle
  PROVE  [Flow!Next]_(Flow!vars)
<1>1. step = "sent" /\ step' = "answered" /\ db' = db /\ body' = body /\ memory' = memory
  BY DEF Handle
<1>2. ~Accepted /\ DecodedResources(db, 0)' = DecodedResources(db, 0) /\ InRound' = InRound
  BY <1>1 DEF Accepted, InRound
<1>3. RoundChanges' = RoundChanges /\ RoundRelated' = RoundRelated /\ RoundAnswer = {}
  BY <1>1, <1>2 DEF RoundChanges, RoundRelated, RoundAnswer
<1>4. CASE Accepted'
  <2> DEFINE list == Decoded(body.changes, memory)
             content == DecodedResources(body.related, memory)
  <2>1. Readable(body) /\ AllPass(list, content)
    BY <1>1, <1>4 DEF MappedInv
  <2>2. InRound
    BY <1>1, <2>1 DEF InRound
  <2>3. /\ RoundStep = "read" /\ RoundStep' = "answered"
        /\ RoundAnswer' = {Decoded(answer'.changes, 0)}
    BY <1>2, <1>4, <2>2 DEF RoundStep, RoundAnswer
  <2>4. Decoded(answer'.changes, 0) = Mutated(list)
    <3>1. answer'.changes = [i \in DOMAIN list |-> ChangeToJson(computeMutations(list[i]))]
      BY <1>1, <1>4 DEF MappedInv
    <3>2. body.changes \in Messages /\ memory \in Uninitialized
      BY <1>1 DEF MappedInv
    <3> QED
      BY <2>1, <3>1, <3>2, AnswerReadsBack
  <2>5. RoundChanges = list /\ RoundRelated = content
    BY <2>2 DEF RoundChanges, RoundRelated
  <2> HIDE DEF list, content
  <2>6. RoundAnswer' = IF Flow!AllPass(RoundChanges, RoundRelated)
                       THEN {Flow!Mutated(RoundChanges)} ELSE {}
    BY <2>1, <2>3, <2>4, <2>5, SameRules
  <2> QED
    BY <1>2, <1>3, <2>3, <2>6, FlowValidates
<1>5. CASE ~Accepted'
  <2>1. RoundStep' = RoundStep /\ RoundAnswer' = {}
    BY <1>2, <1>5 DEF RoundStep, RoundAnswer
  <2> QED
    BY <1>2, <1>3, <2>1, FlowStutters DEF FlowVars
<1> QED
  BY <1>4, <1>5

LEMMA StoreImplements ==
  ASSUME MessagesArePlain, MappedInv, Store
  PROVE  [Flow!Next]_(Flow!vars)
<1>1. Accepted /\ step = "answered" /\ step' = "idle"
  BY DEF Store, Forget, Accepted
<1>2. InRound /\ ~InRound'
  BY <1>1 DEF MappedInv, InRound
<1>3. RoundStep = "answered" /\ RoundAnswer = {Mutated(Decoded(body.changes, memory))}
  <2>1. RoundStep = "answered" /\ RoundAnswer = {Decoded(answer.changes, 0)}
    BY <1>1, <1>2 DEF RoundStep, RoundAnswer
  <2>2. Decoded(answer.changes, 0) = Mutated(Decoded(body.changes, memory))
    BY <1>1, AnswerReadsBack DEF MappedInv
  <2> QED
    BY <2>1, <2>2
<1>4. Flow!Forget(Client)
  BY <1>2, FlowForgets DEF RoundStep, RoundChanges, RoundRelated, RoundAnswer
<1>5. DecodedResources(db, 0)'
      = Flow!ApplyAll(DecodedResources(db, 0), Mutated(Decoded(body.changes, memory)))
  BY StoredAsApplied
<1> QED
  BY <1>3, <1>4, <1>5, FlowStores

LEMMA AbandonImplements ==
  ASSUME Abandon
  PROVE  [Flow!Next]_(Flow!vars)
<1>1. db' = db /\ step' = "idle"
  BY DEF Abandon, Forget
<1>2. ~InRound' /\ DecodedResources(db, 0)' = DecodedResources(db, 0)
  BY <1>1 DEF InRound
<1>3. CASE InRound
  <2>1. RoundStep # "idle"
    BY <1>3 DEF RoundStep
  <2>2. Flow!Forget(Client)
    BY <1>2, FlowForgets DEF RoundStep, RoundChanges, RoundRelated, RoundAnswer
  <2> QED
    BY <1>2, <2>1, <2>2, FlowAbandons
<1>4. CASE ~InRound
  <2>1. UNCHANGED FlowVars
    BY <1>2, <1>4, OutOfRound DEF FlowVars, RoundStep, RoundChanges, RoundRelated, RoundAnswer
  <2> QED
    BY <2>1, FlowStutters
<1> QED
  BY <1>3, <1>4

(***************************************************************************)
(* FlowSpec: whoever provisions sees the rounds of ProvisioningFlow. The   *)
(* parser and the encoder do to the changes what computeMutations does and *)
(* nothing else, over any number of rounds: what is stored is read as what *)
(* was accepted, without a member that was left out or filled from the     *)
(* memory.                                                                 *)
(*                                                                         *)
(* MessagesArePlain leaves out what is known to be read otherwise: an      *)
(* element of a static IP address without a text, which is not written, a  *)
(* change with two operations, and two changes for one path.               *)
(***************************************************************************)
THEOREM RoundsImplementFlow ==
  ASSUME MessagesArePlain, DbIsReadAlike(InitialDb)
  PROVE  Spec => FlowSpec
<1>1. Init => MappedInv
  BY MappedInvInit
<1>2. MappedInv /\ [Next]_vars => MappedInv'
  BY MappedInvNext
<1>3. Init => Flow!Init
  <2> SUFFICES ASSUME Init PROVE Flow!Init
    OBVIOUS
  <2>1. db = InitialDb /\ ~InRound
    BY DEF Init, InRound
  <2>2. DecodedResources(db, 0) = DecodedInitialDb
    BY <2>1 DEF DecodedInitialDb
  <2> QED
    BY <2>1, <2>2, OutOfRound DEF Flow!Init
<1>4. MappedInv /\ [Next]_vars => [Flow!Next]_(Flow!vars)
  <2> SUFFICES ASSUME MappedInv, [Next]_vars PROVE [Flow!Next]_(Flow!vars)
    OBVIOUS
  <2>1. MappedInv'
    BY MappedInvNext
  <2>2. CASE UNCHANGED vars
    <3>1. UNCHANGED FlowVars
      BY <2>2 DEF vars, FlowVars, RoundStep, RoundChanges, RoundRelated, RoundAnswer,
                  InRound, Accepted
    <3> QED
      BY <3>1, FlowStutters
  <2> QED
    BY <2>1, <2>2, SendImplements, HandleImplements, StoreImplements, AbandonImplements DEF Next
<1> QED
  BY <1>1, <1>2, <1>3, <1>4, PTL DEF Spec, FlowSpec, Flow!Spec

-------------------------------------------------------------------------------
(* What is stored is final                                                     *)

(***************************************************************************)
(* A resource that was accepted, read from its answer and sent back is     *)
(* answered as it is: it is read as it was mutated, and mutated it is.     *)
(***************************************************************************)
LEMMA AcceptedIsFinal ==
  ASSUME NEW members, NEW m, NEW related, ChangeFaults(members) = {},
         LET c == ChangeFromJson(members, m)
         IN  /\ c.operation # "DELETE"
             /\ CheckChange(c, related).valid
             /\ StaticIpIsWritten(c.path.kind, c.data)
  PROVE  LET c == ChangeFromJson(members, m)
         IN  IsFinal(c.path, ResourceToJson(c.path.kind, computeMutations(c).data))
<1> DEFINE c == ChangeFromJson(members, m)
           mutated == computeMutations(c).data
           j == ResourceToJson(c.path.kind, mutated)
<1>1. c = [operation |-> c.operation, path |-> c.path, data |-> c.data] /\ c.operation # "DELETE"
  BY DataOfChange
<1>2. \A initial : ResourceFromJson(c.path.kind, j, initial) = mutated
  BY AcceptedDataReadsBack
<1> HIDE DEF c
<1>3. ASSUME NEW operation \in Operations \ {"DELETE"}
      PROVE  computeMutations([operation |-> operation, path |-> c.path, data |-> mutated]).data
             = mutated
  BY <1>1, <1>3, MutationsAreFinal
<1> HIDE DEF mutated
<1>4. ASSUME NEW operation \in Operations \ {"DELETE"}, NEW initial
      PROVE  Resent(c.path, operation, j, initial) = j
  <2>1. ResourceFromJson(c.path.kind, j, initial) = mutated
    BY <1>2
  <2> QED
    BY <1>3, <2>1 DEF Resent
<1>5. IsFinal(c.path, j)
  BY <1>4 DEF IsFinal
<1> QED
  BY <1>5 DEF c, j, mutated

LEMMA AnsweredIsFinal ==
  ASSUME MessagesArePlain, NEW b, b.changes \in Messages, NEW m \in Uninitialized,
         NEW a \in MayAnswer(getValidationData(b, m)), a.code = HTTP_OK,
         NEW w \in Range(validatorResponseToJson(a).changes), NEW data \in Given(w, "data")
  PROVE  IsFinal(PathOf(w), data)
<1> DEFINE list == getChangesToValidate(b, m)
           related == getRelatedResources(b, m)
<1>1. validatorResponseToJson(a).changes = [i \in DOMAIN a.changes |-> ChangeToJson(a.changes[i])]
  BY AnsweredChanges
<1>2. PICK i \in DOMAIN a.changes : w = ChangeToJson(a.changes[i])
  BY <1>1 DEF Range
<1>3. Readable(b) /\ AllPass(list, related) /\ a.changes = Mutated(list)
  BY AnswersAllowed
<1> DEFINE members == b.changes[i]
           c == ChangeFromJson(members, m)
           mutated == computeMutations(c)
<1>4. i \in DOMAIN b.changes /\ list[i] = c /\ a.changes[i] = mutated
  BY <1>3 DEF Mutated, getChangesToValidate
<1>5. CheckChange(c, related).valid
  BY <1>3, <1>4 DEF AllPass, getChangesToValidate
<1>6. ChangeFaults(members) = {} /\ StaticIpIsWritten(c.path.kind, c.data)
  BY <1>3, <1>4, PlainMessage
<1> HIDE DEF members, list, related
<1>7. w = ChangeToJson(mutated)
  BY <1>2, <1>4
<1>8. c.operation # "DELETE"
  <2> SUFFICES ASSUME c.operation = "DELETE" PROVE FALSE
    OBVIOUS
  <2>1. mutated = c
    BY DEF computeMutations
  <2> HIDE DEF mutated, c
  <2>2. Given(w, "data") = {}
    BY <1>7, <2>1, WrittenChange
  <2> QED
    BY <2>2
<1>9. mutated.operation = c.operation /\ mutated.path = c.path
  BY <1>5, <1>6, <1>8, AcceptedDataReadsBack
<1>10. IsFinal(c.path, ResourceToJson(c.path.kind, mutated.data))
  BY <1>5, <1>6, <1>8, AcceptedIsFinal
<1> HIDE DEF mutated, c
<1>11. data = ResourceToJson(mutated.path.kind, mutated.data) /\ PathOf(w) = mutated.path
  BY <1>7, <1>8, <1>9, WrittenChange
<1> QED
  BY <1>9, <1>10, <1>11

(***************************************************************************)
(* The inductive invariant, beside MappedInv: what is answered is final,   *)
(* and so is what is stored of it.                                         *)
(***************************************************************************)
FinalInv ==
  /\ StoredIsFinal
  /\ Accepted => \A c \in Written : \A data \in Given(c, "data") : IsFinal(PathOf(c), data)

LEMMA FinalInvNext ==
  ASSUME MessagesArePlain, MappedInv, FinalInv, [Next]_vars
  PROVE  FinalInv'
<1>1. \A p \in DOMAIN db : IsFinal(p, db[p])
  BY DEF FinalInv, StoredIsFinal, DbIsFinal
<1>2. CASE Send
  BY <1>1, <1>2 DEF Send, FinalInv, StoredIsFinal, DbIsFinal, Accepted
<1>3. CASE Handle
  <2>1. PICK a \in MayAnswer(getValidationData(body, memory)) : answer' = validatorResponseToJson(a)
    BY <1>3 DEF Handle
  <2>2. step = "sent" /\ db' = db
    BY <1>3 DEF Handle
  <2>3. answer'.code = a.code
    BY <2>1, AnsweredChanges
  <2>4. body.changes \in Messages /\ memory \in Uninitialized
    BY <2>2 DEF MappedInv
  <2>5. Accepted' => \A c \in Written' : \A data \in Given(c, "data") : IsFinal(PathOf(c), data)
    BY <2>1, <2>3, <2>4, AnsweredIsFinal DEF Accepted, Written
  <2> QED
    BY <1>1, <2>2, <2>5 DEF FinalInv, StoredIsFinal, DbIsFinal
<1>4. CASE Store
  <2>1. step' = "idle" /\ Accepted
    BY <1>4 DEF Store, Forget
  <2>2. \A p \in DOMAIN db' : IsFinal(p, db'[p])
    BY <1>1, <1>4, <2>1, StoredFrom DEF FinalInv
  <2> QED
    BY <2>1, <2>2 DEF FinalInv, StoredIsFinal, DbIsFinal, Accepted
<1>5. CASE Abandon
  BY <1>1, <1>5 DEF Abandon, Forget, FinalInv, StoredIsFinal, DbIsFinal, Accepted
<1>6. CASE UNCHANGED vars
  BY <1>6 DEF vars, FinalInv, StoredIsFinal, DbIsFinal, Accepted, Written
<1> QED
  BY <1>2, <1>3, <1>4, <1>5, <1>6 DEF Next

(***************************************************************************)
(* StoredIsFinal: the database does not drift. Over any number of rounds,  *)
(* what is stored is a fixed point of reading, mutating and writing: the   *)
(* JSON is the same to the last member, for whatever operation it is sent  *)
(* back and whatever the memory holds. This is for the messages of         *)
(* RoundsImplementFlow: an element of a static IP address without a text   *)
(* is left out once, and then read from what stands before it.             *)
(***************************************************************************)
THEOREM StoredResourcesAreFinal ==
  ASSUME MessagesArePlain, DbIsReadAlike(InitialDb), DbIsFinal(InitialDb)
  PROVE  Spec => []StoredIsFinal
<1>1. Init => MappedInv /\ FinalInv
  BY MappedInvInit DEF Init, FinalInv, StoredIsFinal, Accepted
<1>2. (MappedInv /\ FinalInv) /\ [Next]_vars => (MappedInv /\ FinalInv)'
  BY MappedInvNext, FinalInvNext
<1>3. FinalInv => StoredIsFinal
  BY DEF FinalInv
<1> QED
  BY <1>1, <1>2, <1>3, PTL DEF Spec

-------------------------------------------------------------------------------
(* What is proved of ProvisioningFlow holds of the rounds on JSON              *)

Facts == INSTANCE StoredProofs WITH
  Clients    <- {Client},
  Intents    <- DecodedMessages,
  InitialDb  <- DecodedInitialDb,
  Serialized <- TRUE,
  db         <- DecodedResources(db, 0),
  step       <- [c \in {Client} |-> RoundStep],
  changes    <- [c \in {Client} |-> RoundChanges],
  related    <- [c \in {Client} |-> RoundRelated],
  answer     <- [c \in {Client} |-> RoundAnswer]

(***************************************************************************)
(* What the parser reads without a fault has the shape ProvisioningFlow    *)
(* asks for.                                                               *)
(***************************************************************************)
LEMMA ReadIsSequence ==
  ASSUME NEW list \in Seq(Values), NEW read, read = [i \in DOMAIN list |-> read[i]]
  PROVE  Flow!IsSequence(read)
<1>1. Len(list) \in Nat /\ DOMAIN list = 1..Len(list)
  OBVIOUS
<1>2. \A i \in 1..Len(list) : read[i] \in Flow!Range(read)
  BY <1>1 DEF Flow!Range
<1>3. read \in [1..Len(list) -> Flow!Range(read)]
  BY <1>1, <1>2
<1> QED
  BY <1>1, <1>3 DEF Flow!IsSequence

LEMMA NssaisHaveShape ==
  ASSUME NEW v, IsObject(v), NEW name
  PROVE  LET nssais == NssaisFromJson(v, name)
         IN  Flow!IsSequence(nssais) /\ \A n \in Flow!Range(nssais) : Flow!IsNssai(n)
<1> DEFINE nssais == NssaisFromJson(v, name)
<1>1. PICK list \in Seq(Values) : nssais = [i \in DOMAIN list |-> NssaiDetailsFromJson(list[i])]
  <2>1. CASE Member(v, "nssai", "object") = {}
    <3>1. nssais = <<>>
      BY <2>1, NoNssais
    <3>2. <<>> = [i \in DOMAIN <<>> |-> NssaiDetailsFromJson(<<>>[i])]
      OBVIOUS
    <3>3. <<>> \in Seq(Values)
      OBVIOUS
    <3> HIDE DEF nssais
    <3> QED
      BY <3>1, <3>2, <3>3
  <2>2. CASE Member(v, "nssai", "object") # {}
    <3>1. PICK s : s \in Member(v, "nssai", "object")
      BY <2>2
    <3>2. Member(v, "nssai", "object") = {s} /\ Elements(s, name) \in Seq(Values)
      BY <3>1, MemberIs, MembersOfValues
    <3> QED
      BY <3>2, NssaisOfNssai
  <2> QED
    BY <2>1, <2>2
<1> HIDE DEF nssais
<1>2. Flow!IsSequence(nssais)
  BY <1>1, ReadIsSequence
<1>3. \A j : Flow!IsNssai(NssaiDetailsFromJson(j))
  BY DEF Flow!IsNssai, NssaiDetailsFromJson
<1>4. \A n \in Flow!Range(nssais) : Flow!IsNssai(n)
  BY <1>1, <1>3 DEF Flow!Range
<1> QED
  BY <1>2, <1>4 DEF nssais

LEMMA SetShaped ==
  ASSUME SuitsFlow, NEW v, IsObject(v), NEW isSliceData, PlmnIdSetFaults(v, isSliceData) = {}
  PROVE  Flow!IsPlmnIdSet(PlmnIdSetFromJson(v))
<1> DEFINE set == PlmnIdSetFromJson(v)
           lists == Elements(v, "dnnLists")
<1>1. /\ {"plmnIdSetIdentifier", "defaultSingleNssais", "singleNssais", "dnnLists"}
           \subseteq DOMAIN set
      /\ set.plmnIdSetIdentifier = Text(v, "plmnIdSetIdentifier")
      /\ set.defaultSingleNssais = NssaisFromJson(v, "defaultSingleNssais")
      /\ set.singleNssais = NssaisFromJson(v, "singleNssais")
      /\ set.dnnLists = [i \in DOMAIN lists |-> DnnListFromJson(lists[i])]
  BY DEF PlmnIdSetFromJson
<1>2. set.plmnIdSetIdentifier \in DOMAIN Rank
  BY <1>1 DEF SuitsFlow, IsObject
<1>3. \A i \in DOMAIN lists : IsObject(lists[i])
  <2>1. \A i \in DOMAIN lists : lists[i] \in Objects(v, "dnnLists")
    BY ObjectsOfArray DEF PlmnIdSetFaults
  <2>2. \A i \in DOMAIN lists : lists[i] \in Values
    BY MembersOfValues
  <2> QED
    BY <2>1, <2>2 DEF Objects, IsObject
<1>4. \A l \in Flow!Range(set.dnnLists) : Flow!IsSequence(l.dnnDataList)
  <2> SUFFICES ASSUME NEW l, IsObject(l)
               PROVE  Flow!IsSequence(DnnListFromJson(l).dnnDataList)
    BY <1>1, <1>3 DEF Flow!Range
  <2> DEFINE dnns == Elements(l, "dnnDataList")
             read == DnnListFromJson(l).dnnDataList
  <2>1. dnns \in Seq(Values) /\ read = [i \in DOMAIN dnns |-> DnnDataFromJson(dnns[i])]
    BY MembersOfValues DEF DnnListFromJson
  <2> HIDE DEF dnns, read
  <2>2. Flow!IsSequence(read)
    BY <2>1, ReadIsSequence
  <2> QED
    BY <2>2 DEF read
<1> HIDE DEF set, lists
<1>5. Flow!IsPlmnIdSet(set)
  <2>1. /\ Flow!IsSequence(set.defaultSingleNssais)
        /\ Flow!IsSequence(set.singleNssais)
        /\ \A n \in Flow!Range(set.defaultSingleNssais) \cup Flow!Range(set.singleNssais) :
             Flow!IsNssai(n)
    BY <1>1, NssaisHaveShape
  <2> QED
    BY <1>1, <1>2, <1>4, <2>1 DEF Flow!IsPlmnIdSet
<1> QED
  BY <1>5 DEF set

LEMMA SetsShaped ==
  ASSUME SuitsFlow, NEW v, IsObject(v), NEW isSliceData,
         UNION {PlmnIdSetFaults(s, isSliceData) : s \in Range(Elements(v, "plmnIdSets"))} = {}
  PROVE  /\ Flow!IsSequence(getPlmnIdSets(v))
         /\ \A s \in Flow!Range(getPlmnIdSets(v)) : Flow!IsPlmnIdSet(s)
<1> DEFINE sets == Elements(v, "plmnIdSets")
           read == getPlmnIdSets(v)
<1>1. sets \in Seq(Values) /\ read = [i \in DOMAIN sets |-> PlmnIdSetFromJson(sets[i])]
  BY MembersOfValues DEF getPlmnIdSets
<1>2. \A i \in DOMAIN sets :
        sets[i] \in Range(sets) /\ IsObject(sets[i]) /\ PlmnIdSetFaults(sets[i], isSliceData) = {}
  BY ElementsTaken DEF TakenForObjects, Range
<1> HIDE DEF sets, read
<1>3. Flow!IsSequence(read)
  BY <1>1, ReadIsSequence
<1>4. \A s \in Flow!Range(read) : Flow!IsPlmnIdSet(s)
  BY <1>1, <1>2, SetShaped DEF Flow!Range
<1> QED
  BY <1>3, <1>4 DEF read

LEMMA NothingInEmpty ==
  /\ \A name : Elements(EmptyObject, name) = <<>>
  /\ \A name, type : Member(EmptyObject, name, type) = {}
<1>1. DOMAIN EmptyObject.object = {}
  BY DEF EmptyObject, NoMembers
<1> QED
  BY <1>1, NothingIsRead

LEMMA ProfileShaped ==
  ASSUME SuitsFlow, NEW j,
         j = EmptyObject \/ (IsObject(j) /\ UdmSliceProfileFaults(j) = {})
  PROVE  Flow!IsProfile(getUdmSliceProfile(j))
<1> DEFINE profile == getUdmSliceProfile(j)
<1>1. /\ {"udmSliceProfileId", "plmnIdSets"} \subseteq DOMAIN profile
      /\ profile.plmnIdSets = getPlmnIdSets(j)
  BY DEF getUdmSliceProfile
<1>2. /\ Flow!IsSequence(getPlmnIdSets(j))
      /\ \A s \in Flow!Range(getPlmnIdSets(j)) : Flow!IsPlmnIdSet(s)
  <2>1. CASE j = EmptyObject
    <3>1. Elements(j, "plmnIdSets") = <<>>
      BY <2>1, NothingInEmpty
    <3>2. getPlmnIdSets(j) = <<>>
      BY <3>1 DEF getPlmnIdSets
    <3> QED
      BY <3>2 DEF Flow!IsSequence, Flow!Range
  <2>2. CASE IsObject(j) /\ UdmSliceProfileFaults(j) = {}
    BY <2>2, SetsShaped DEF UdmSliceProfileFaults
  <2> QED
    BY <2>1, <2>2
<1> HIDE DEF profile
<1>3. Flow!IsProfile(profile)
  BY <1>1, <1>2 DEF Flow!IsProfile
<1> QED
  BY <1>3 DEF profile

LEMMA SubscriptionShaped ==
  ASSUME SuitsFlow, NEW j, NEW initial,
         j = EmptyObject \/ (IsObject(j) /\ UdmStaticDataFaults(j) = {})
  PROVE  Flow!IsSubscription(getUdmStaticData(j, initial))
<1> DEFINE u == getUdmStaticData(j, initial)
<1>1. /\ {"udmSliceProfileId", "udmSliceData"} \subseteq DOMAIN u
      /\ u.udmSliceData = {getPlmnIdSets(s) : s \in Member(j, "udmSliceData", "object")}
  BY DEF getUdmStaticData
<1>2. \A s \in Member(j, "udmSliceData", "object") :
        \A set \in Flow!Range(getPlmnIdSets(s)) : Flow!IsPlmnIdSet(set)
  <2>1. CASE j = EmptyObject
    <3>1. Member(j, "udmSliceData", "object") = {}
      BY <2>1, NothingInEmpty
    <3> QED
      BY <3>1
  <2>2. CASE IsObject(j) /\ UdmStaticDataFaults(j) = {}
    <3>1. \A s \in Member(j, "udmSliceData", "object") :
            IsObject(s) /\ UdmSliceDataFaults(s) = {}
      BY <2>2, MembersOfValues, UdmStaticDataParts
    <3> QED
      BY <3>1, SetsShaped DEF UdmSliceDataFaults
  <2> QED
    BY <2>1, <2>2
<1> HIDE DEF u
<1>3. Flow!IsSubscription(u)
  BY <1>1, <1>2 DEF Flow!IsSubscription
<1> QED
  BY <1>3 DEF u

LEMMA IntentsShaped ==
  ASSUME SuitsFlow, NEW intent \in DecodedMessages
  PROVE  /\ Flow!IsSequence(intent)
         /\ \A c \in Flow!Range(intent) : Flow!IsChange(c)
<1>1. PICK m \in Messages, initial \in Uninitialized :
        /\ Readable([changes |-> m, related |-> <<>>])
        /\ intent = [i \in DOMAIN m |-> ChangeFromJson(m[i], initial)]
  BY DecodedMessage DEF DecodedMessages
<1>2. m \in Seq(Range(m))
  BY MessagesAssumption
<1>3. Flow!IsSequence(intent)
  <2>1. Len(m) \in Nat /\ DOMAIN m = 1..Len(m)
    BY <1>2
  <2>2. \A i \in 1..Len(m) : intent[i] \in Flow!Range(intent)
    BY <1>1, <2>1 DEF Flow!Range
  <2>3. intent \in [1..Len(m) -> Flow!Range(intent)]
    BY <1>1, <2>1, <2>2
  <2> QED
    BY <2>1, <2>3 DEF Flow!IsSequence
<1>4. ASSUME NEW i \in DOMAIN m, NEW c, c = ChangeFromJson(m[i], initial)
      PROVE  Flow!IsChange(c)
  <2> DEFINE b == [changes |-> m, related |-> <<>>]
  <2>1. b.changes = m /\ IsMessage(b.changes) /\ Readable(b)
    BY <1>1 DEF IsMessage
  <2> HIDE DEF b
  <2>2. /\ c = [operation |-> c.operation, path |-> c.path, data |-> c.data]
        /\ c.path = PathOf(m[i])
    BY <1>4, <2>1, DataOfMessage
  <2>3. PICK j : /\ c.data = ResourceFromJson(c.path.kind, j, initial)
                 /\ j = EmptyObject \/ (IsObject(j) /\ ResourceFaults(c.path.kind, j) = {})
    BY <1>4, <2>1, DataOfMessage
  <2>4. c.path.kind \in Flow!PathKinds
    <3>1. m[i] \in Range(m)
      BY DEF Range
    <3> QED
      BY <2>2, <3>1 DEF SuitsFlow, PathKinds, Flow!PathKinds
  <2>5. c.path.kind = "udmSliceProfile" => Flow!IsProfile(c.data)
    BY <2>3, ProfileShaped DEF ResourceFromJson, ResourceFaults
  <2>6. c.path.kind = "udmStaticData" => Flow!IsSubscription(c.data)
    BY <2>3, SubscriptionShaped DEF ResourceFromJson, ResourceFaults
  <2>7. {"operation", "path", "data"} \subseteq DOMAIN c
    BY <2>2
  <2> QED
    BY <2>4, <2>5, <2>6, <2>7 DEF Flow!IsChange
<1> QED
  BY <1>1, <1>3, <1>4 DEF Flow!Range

(***************************************************************************)
(* The assumptions the facts rest on.                                      *)
(***************************************************************************)
LEMMA SuitsFacts ==
  ASSUME SuitsFlow
  PROVE  /\ Facts!SerializedAssumption /\ Facts!RankAssumption
         /\ Facts!IntentsAssumption /\ Facts!InitialDbAssumption
<1>1. \A p \in DOMAIN DecodedInitialDb : p.kind \in PathKinds
  <2>1. [related |-> InitialDb].related = InitialDb
    OBVIOUS
  <2> QED
    BY <2>1, InitialDbAssumption
    DEF DecodedInitialDb, DecodedResources, getRelatedResources, ReadableDb, IsReadable
<1>2. \A x : Facts!IsSequence(x) = Flow!IsSequence(x)
  BY DEF Facts!IsSequence, Flow!IsSequence, Facts!Range, Flow!Range, Range
<1>3. Facts!PathKinds = Flow!PathKinds /\ Facts!PathKinds = PathKinds
  BY DEF Facts!PathKinds, Flow!PathKinds, PathKinds
<1>4. \A x : Facts!IsPlmnIdSet(x) = Flow!IsPlmnIdSet(x)
  BY <1>2 DEF Facts!IsPlmnIdSet, Flow!IsPlmnIdSet, Facts!IsNssai, Flow!IsNssai,
              Facts!Range, Flow!Range
<1>5. \A x : /\ Facts!IsProfile(x) = Flow!IsProfile(x)
             /\ Facts!IsSubscription(x) = Flow!IsSubscription(x)
  BY <1>2, <1>4 DEF Facts!IsProfile, Flow!IsProfile, Facts!IsSubscription, Flow!IsSubscription,
                    Facts!Range, Flow!Range
<1>6. \A x : Facts!IsChange(x) = Flow!IsChange(x)
  BY <1>3, <1>5 DEF Facts!IsChange, Flow!IsChange
<1>7. \A x : /\ Facts!ProfilesOf(x) = Flow!ProfilesOf(x)
             /\ Facts!SubscriptionsOf(x) = Flow!SubscriptionsOf(x)
  BY DEF Facts!ProfilesOf, Flow!ProfilesOf, Facts!SubscriptionsOf, Flow!SubscriptionsOf,
         Facts!PathsOf, Flow!PathsOf
<1>8. \A x : /\ Facts!DnnsAreDistinct(x) = Flow!DnnsAreDistinct(x)
             /\ Facts!ReferencesResolve(x) = Flow!ReferencesResolve(x)
  BY DEF Facts!DnnsAreDistinct, Flow!DnnsAreDistinct,
         Facts!ReferencesResolve, Flow!ReferencesResolve,
         Facts!HasRepeats, Flow!HasRepeats, Facts!Repeats, Flow!Repeats,
         Facts!DnnNames, Flow!DnnNames,
         Facts!ReferencedIds, Flow!ReferencedIds, Facts!DnnListIdsOf, Flow!DnnListIdsOf,
         Facts!AllNssais, Flow!AllNssais, Facts!DEFAULT_VALUE, Flow!DEFAULT_VALUE,
         Facts!Range, Flow!Range
<1> USE DEF SuitsFlow
<1>9. Facts!SerializedAssumption /\ Facts!RankAssumption
  OBVIOUS
<1>10. Facts!IntentsAssumption
  BY <1>2, <1>6, IntentsShaped DEF Facts!Range, Flow!Range
<1>11. Facts!InitialDbAssumption
  BY <1>1, <1>3, <1>5, <1>7, <1>8
<1> QED
  BY <1>9, <1>10, <1>11

(***************************************************************************)
(* The facts are about the same formulas: with all definitions unfolded    *)
(* there is no difference.                                                 *)
(***************************************************************************)
LEMMA SameFormulas ==
  /\ Facts!Spec <=> Flow!Spec
  /\ Facts!NoRepeatedDnns <=> Flow!NoRepeatedDnns
  /\ Facts!ProfileReferencesResolve <=> Flow!ProfileReferencesResolve
  /\ Facts!StoredProfilesPassAgain <=> Flow!StoredProfilesPassAgain
  /\ Facts!DnnListIdsStayOrMoveUp <=> Flow!DnnListIdsStayOrMoveUp
  /\ Facts!SubscriptionReferencesResolve <=> Flow!SubscriptionReferencesResolve
<1> USE DEF Facts!Init, Facts!vars, Facts!Next, Facts!Read, Facts!Validate, Facts!Store,
            Facts!Abandon, Facts!Forget, Facts!Sensible, Facts!ApplyAll, Facts!LastFor,
            Facts!ProfilesOf, Facts!PathsOf, Facts!DnnsAreDistinct, Facts!ReferencesResolve,
            Facts!DistinctIdentifiers, Facts!RepeatedNssais, Facts!HTTP_OK, Facts!HTTP_CONFLICT,
            Facts!HTTP_UNPROCESSABLE_ENTITY, Facts!Raise, Facts!Success, Facts!Conflict,
            Facts!Unprocessable, Facts!WorstCode, Facts!WorstOf, Facts!SscModes,
            Facts!SessionTypes, Facts!PreemptCaps, Facts!PreemptVulns, Facts!SecurityLevels,
            Facts!Repeats, Facts!HasRepeats, Facts!Known, Facts!SscModesErrors,
            Facts!SessionTypesErrors, Facts!FivegQosErrors, Facts!Unknown, Facts!DnnDataErrors,
            Facts!DEFAULT_VALUE, Facts!AllNssais, Facts!SnssaiOf, Facts!Snssais,
            Facts!DnnListIdsOf, Facts!ReferencedIds, Facts!NssaiErrors, Facts!DnnListErrors,
            Facts!PlmnIdSetErrors, Facts!checkForCommonUdmSliceProfileRules, Facts!DnnNames,
            Facts!checkForRepeatedDnnsandNssais, Facts!First, Facts!FirstSets, Facts!NssaisOf,
            Facts!DnnsOf, Facts!checkForRepeatedNssaisOnUpdate, Facts!Times, Facts!InAll,
            Facts!RepeatedDnnsOnUpdate, Facts!DnnListIdPairs, Facts!DnnListIdDefined,
            Facts!checkForUpdateSpecificUdmSliceProfileRules, Facts!CommonUnlessEmpty,
            Facts!checkForCreationUdmSliceProfileRules,
            Facts!checkForUpdateUdmSliceProfileRules, Facts!includeNssai, Facts!MutateSets,
            Facts!RestrictionTypes, Facts!RatTypes, Facts!CoreNetworkTypes, Facts!RoamingOdbs,
            Facts!AreaErrors, Facts!ScalarErrors, Facts!IpAddressFormat,
            Facts!StaticIpAddressErrors, Facts!ReferencedPairs, Facts!UdmSliceDataErrors,
            Facts!checkForCommonUdmSubscriptionRules, Facts!CheckedAgainst,
            Facts!checkForCreationUdmSubscriptionRules,
            Facts!checkForUpdateUdmSubscriptionRules, Facts!Holds, Facts!checkSmsSubscribed,
            Facts!checkMtSmsSubscribed, Facts!checkMoSmsSubscribed,
            Facts!CommonSmsValidationRules, Facts!CreateSpecificSmsValidationRules,
            Facts!UpdateSpecificSmsValidationRules, Facts!SmsValidationRules, Facts!isTac,
            Facts!TacLists, Facts!checkForCommonUdmRoamingAreaRules,
            Facts!checkForCreationUdmRoamingAreaRules, Facts!checkForUpdateUdmRoamingAreaRules,
            Facts!RelatedResource, Facts!buildProvJournalResourcePathFromMscId,
            Facts!ProvJournal, Facts!getRelatedUdmSliceProfile, Facts!UdmStaticDataRules,
            Facts!UdmSliceProfileRules, Facts!UdmRoamingAreaRules, Facts!CheckChange,
            Facts!computeMutations, Facts!AllPass, Facts!Mutated, Facts!Range,
            Facts!Cardinality, Flow!Init, Flow!vars, Flow!Next, Flow!Read, Flow!Validate,
            Flow!Store, Flow!Abandon, Flow!Forget, Flow!Sensible, Flow!ApplyAll, Flow!LastFor,
            Flow!ProfilesOf, Flow!PathsOf, Flow!DnnsAreDistinct, Flow!ReferencesResolve,
            Flow!DistinctIdentifiers, Flow!RepeatedNssais, Flow!HTTP_OK, Flow!HTTP_CONFLICT,
            Flow!HTTP_UNPROCESSABLE_ENTITY, Flow!Raise, Flow!Success, Flow!Conflict,
            Flow!Unprocessable, Flow!WorstCode, Flow!WorstOf, Flow!SscModes, Flow!SessionTypes,
            Flow!PreemptCaps, Flow!PreemptVulns, Flow!SecurityLevels, Flow!Repeats,
            Flow!HasRepeats, Flow!Known, Flow!SscModesErrors, Flow!SessionTypesErrors,
            Flow!FivegQosErrors, Flow!Unknown, Flow!DnnDataErrors, Flow!DEFAULT_VALUE,
            Flow!AllNssais, Flow!SnssaiOf, Flow!Snssais, Flow!DnnListIdsOf, Flow!ReferencedIds,
            Flow!NssaiErrors, Flow!DnnListErrors, Flow!PlmnIdSetErrors,
            Flow!checkForCommonUdmSliceProfileRules, Flow!DnnNames,
            Flow!checkForRepeatedDnnsandNssais, Flow!First, Flow!FirstSets, Flow!NssaisOf,
            Flow!DnnsOf, Flow!checkForRepeatedNssaisOnUpdate, Flow!Times, Flow!InAll,
            Flow!RepeatedDnnsOnUpdate, Flow!DnnListIdPairs, Flow!DnnListIdDefined,
            Flow!checkForUpdateSpecificUdmSliceProfileRules, Flow!CommonUnlessEmpty,
            Flow!checkForCreationUdmSliceProfileRules, Flow!checkForUpdateUdmSliceProfileRules,
            Flow!includeNssai, Flow!MutateSets, Flow!RestrictionTypes, Flow!RatTypes,
            Flow!CoreNetworkTypes, Flow!RoamingOdbs, Flow!AreaErrors, Flow!ScalarErrors,
            Flow!IpAddressFormat, Flow!StaticIpAddressErrors, Flow!ReferencedPairs,
            Flow!UdmSliceDataErrors, Flow!checkForCommonUdmSubscriptionRules,
            Flow!CheckedAgainst, Flow!checkForCreationUdmSubscriptionRules,
            Flow!checkForUpdateUdmSubscriptionRules, Flow!Holds, Flow!checkSmsSubscribed,
            Flow!checkMtSmsSubscribed, Flow!checkMoSmsSubscribed, Flow!CommonSmsValidationRules,
            Flow!CreateSpecificSmsValidationRules, Flow!UpdateSpecificSmsValidationRules,
            Flow!SmsValidationRules, Flow!isTac, Flow!TacLists,
            Flow!checkForCommonUdmRoamingAreaRules, Flow!checkForCreationUdmRoamingAreaRules,
            Flow!checkForUpdateUdmRoamingAreaRules, Flow!RelatedResource,
            Flow!buildProvJournalResourcePathFromMscId, Flow!ProvJournal,
            Flow!getRelatedUdmSliceProfile, Flow!UdmStaticDataRules, Flow!UdmSliceProfileRules,
            Flow!UdmRoamingAreaRules, Flow!CheckChange, Flow!computeMutations, Flow!AllPass,
            Flow!Mutated, Flow!Range, Flow!Cardinality
<1>1. Facts!Spec <=> Flow!Spec
  BY PTL DEF Facts!Spec, Flow!Spec
<1>2. Facts!NoRepeatedDnns <=> Flow!NoRepeatedDnns
  BY DEF Facts!NoRepeatedDnns, Flow!NoRepeatedDnns
<1>3. Facts!ProfileReferencesResolve <=> Flow!ProfileReferencesResolve
  BY DEF Facts!ProfileReferencesResolve, Flow!ProfileReferencesResolve
<1>4. Facts!StoredProfilesPassAgain <=> Flow!StoredProfilesPassAgain
  BY DEF Facts!StoredProfilesPassAgain, Flow!StoredProfilesPassAgain
<1>5. Facts!DnnListIdsStayOrMoveUp <=> Flow!DnnListIdsStayOrMoveUp
  BY PTL DEF Facts!DnnListIdsStayOrMoveUp, Flow!DnnListIdsStayOrMoveUp
<1>6. Facts!SubscriptionReferencesResolve <=> Flow!SubscriptionReferencesResolve
  BY DEF Facts!SubscriptionReferencesResolve, Flow!SubscriptionReferencesResolve,
         Facts!SubscriptionsResolve, Flow!SubscriptionsResolve,
         Facts!SubscriptionsOf, Flow!SubscriptionsOf,
         Facts!SubscriptionResolves, Flow!SubscriptionResolves
<1> QED
  BY <1>1, <1>2, <1>3, <1>4, <1>5, <1>6, PTL

LEMMA RoundsAreFacts ==
  ASSUME MessagesArePlain, DbIsReadAlike(InitialDb)
  PROVE  Spec => Facts!Spec
  BY RoundsImplementFlow, SameFormulas, PTL DEF FlowSpec

(***************************************************************************)
(* What the rules protect is protected from the first byte of a request to *)
(* the last one of an answer: in the slice profiles that are read from the *)
(* stored JSON no dnnList has a dnn twice, and every nssai points to a     *)
(* dnnList of its set, or to the default of a set without; and no update   *)
(* takes away a dnnListId but by moving it to a later identifier. Nothing  *)
(* the parser ignores, or the encoder leaves out, can break it.            *)
(***************************************************************************)
THEOREM StoredJsonKeepsReferences ==
  ASSUME MessagesArePlain, DbIsReadAlike(InitialDb), SuitsFlow
  PROVE  Spec => /\ [](Flow!NoRepeatedDnns /\ Flow!ProfileReferencesResolve)
                 /\ Flow!DnnListIdsStayOrMoveUp
<1>1. Facts!Spec => []Facts!NoRepeatedDnns
  BY SuitsFacts, Facts!DnnsStayDistinct, PTL
<1>2. Facts!Spec => []Facts!ProfileReferencesResolve
  BY SuitsFacts, Facts!ReferencesStayResolved, PTL
<1>3. Facts!Spec => Facts!DnnListIdsStayOrMoveUp
  BY SuitsFacts, Facts!DnnListIdsAreKept, PTL
<1> QED
  BY <1>1, <1>2, <1>3, RoundsAreFacts, SameFormulas, PTL

(***************************************************************************)
(* StoredProfilesPassAgain, on JSON: what is read from the stored JSON of  *)
(* a slice profile passes the rules of an update, but for the exceptions   *)
(* the property names. This is for a database that had no slice profile    *)
(* from the start; any other may hold ones no rule has seen.               *)
(***************************************************************************)
THEOREM StoredJsonPassesAgain ==
  ASSUME MessagesArePlain, DbIsReadAlike(InitialDb), SuitsFlow,
         \A p \in DOMAIN InitialDb : p.kind # "udmSliceProfile"
  PROVE  Spec => []Flow!StoredProfilesPassAgain
<1>1. Facts!ProfilesOf(DecodedInitialDb) = {}
  <2>1. [related |-> InitialDb].related = InitialDb
    OBVIOUS
  <2>2. DOMAIN DecodedInitialDb \subseteq DOMAIN InitialDb
    BY <2>1 DEF DecodedInitialDb, DecodedResources, getRelatedResources
  <2> QED
    BY <2>2 DEF Facts!ProfilesOf, Facts!PathsOf
<1>2. \A profile \in Facts!ProfilesOf(DecodedInitialDb) : Facts!KeptRules(profile)
  BY <1>1
<1>3. Facts!Spec => []Facts!StoredProfilesPassAgain
  BY <1>2, SuitsFacts, Facts!StoredProfilesPass, PTL
<1> QED
  BY <1>3, RoundsAreFacts, SameFormulas, PTL

(***************************************************************************)
(* SubscriptionReferencesResolve, on JSON: what a stored subscription      *)
(* points to is there in what is read from the stored JSON of the slice    *)
(* profile it refers to, although the two are written in different rounds, *)
(* and computeMutations adds references on the way. This is as long as     *)
(* slice profiles have the ids of their paths and are not deleted.         *)
(***************************************************************************)
THEOREM StoredJsonResolvesSubscriptions ==
  ASSUME MessagesArePlain, DbIsReadAlike(InitialDb), SuitsFlow,
         \A intent \in DecodedMessages : Flow!KeepsProfiles(intent),
         Flow!ProfilesHaveIdsOfPaths(DecodedInitialDb),
         Flow!SubscriptionsResolve(DecodedInitialDb)
  PROVE  Spec => []Flow!SubscriptionReferencesResolve
<1>1. \A intent \in DecodedMessages : Facts!KeepsProfiles(intent)
  BY DEF Facts!KeepsProfiles, Flow!KeepsProfiles, Facts!HasIdOfPath, Flow!HasIdOfPath,
         Facts!Range, Flow!Range
<1>2. Facts!ProfilesHaveIdsOfPaths(DecodedInitialDb)
  BY DEF Facts!ProfilesHaveIdsOfPaths, Flow!ProfilesHaveIdsOfPaths,
         Facts!HasIdOfPath, Flow!HasIdOfPath, Facts!PathsOf, Flow!PathsOf
<1>3. Facts!SubscriptionsResolve(DecodedInitialDb)
  BY DEF Facts!SubscriptionsResolve, Flow!SubscriptionsResolve,
         Facts!SubscriptionsOf, Flow!SubscriptionsOf, Facts!PathsOf, Flow!PathsOf,
         Facts!SubscriptionResolves, Flow!SubscriptionResolves,
         Facts!DnnListIdPairs, Flow!DnnListIdPairs, Facts!ReferencedPairs, Flow!ReferencedPairs,
         Facts!getRelatedUdmSliceProfile, Flow!getRelatedUdmSliceProfile,
         Facts!AllNssais, Flow!AllNssais, Facts!DEFAULT_VALUE, Flow!DEFAULT_VALUE,
         Facts!DnnListIdsOf, Flow!DnnListIdsOf, Facts!ReferencedIds, Flow!ReferencedIds,
         Facts!Range, Flow!Range
<1>4. Facts!Spec => []Facts!SubscriptionReferencesResolve
  BY <1>1, <1>2, <1>3, SuitsFacts, Facts!SubscriptionReferencesStayResolved, PTL
<1> QED
  BY <1>4, RoundsAreFacts, SameFormulas, PTL

===============================================================================
