------------------------------- MODULE JsonRound -------------------------------
(***************************************************************************)
(* The rounds of ProvisioningFlow with the JSON in them: whoever provisions*)
(* keeps JSON in the database, puts it into the body of a request as       *)
(* related resources, along with the changes, and stores the JSON of the   *)
(* changes that are answered with 200. The validator reads the body,       *)
(* applies its rules, and writes the answer. What the encoder writes comes *)
(* back to the parser with a later request, and the parser puts an error   *)
(* in a related resource in the same list as one in a change.              *)
(*                                                                         *)
(* One client, which has the database for itself.                          *)
(***************************************************************************)
EXTENDS ValidationJson

CONSTANTS
  Values,           \* the JSON values in the data that is sent
  Messages,         \* the lists of changes that are sent
  InitialDb,        \* what is in the database from the start
  Uninitialized,    \* what the memory may hold where an sst is not set
  ForeignNames,     \* names of members neither parser nor encoder knows
  MaxResources      \* bound on the resources in the database

ASSUME MaxResourcesAssumption == MaxResources \in Nat

\* An object the validator can be sent as a related resource, but for mandatory
\* members with nothing in them.
IsReadable(p, j) ==
  /\ p.kind \in PathKinds
  /\ Is(j, "object")
  /\ ResourceFaults(p.kind, j) \subseteq EmptiedNames

ReadableDb(content) == \A p \in DOMAIN content : IsReadable(p, content[p])

ASSUME InitialDbAssumption == ReadableDb(InitialDb)

\* What the parser takes for objects without asking.
TakenForObjects == {"plmnIdSets", "forbiddenAreas", "nssaiDnnIpLists", "ipAddress"}

ASSUME ValuesAssumption ==
  \A v \in Values :
    /\ Is(v, "int") => v.int \in Int
    /\ Is(v, "array") => v.array \in Seq(Values)
    /\ Is(v, "object") =>
         /\ \A name \in DOMAIN v.object : v.object[name] \in Values
         /\ \A name \in TakenForObjects : \A e \in Range(Elements(v, name)) : Is(e, "object")

ASSUME MessagesAssumption ==
  \A message \in Messages :
    /\ message \in Seq(Range(message))
    /\ \A members \in Range(message) :
         HasSchemaOfChange(members) /\ Given(members, "data") \subseteq Values

VARIABLES
  db,       \* the database: a function from paths to JSON objects
  step,     \* "idle", "sent" or "answered"
  body,     \* the body of the request
  memory,   \* what an sst has that the parser of this request does not set
  answer    \* the answer

vars == <<db, step, body, memory, answer>>

NoBody == [changes |-> <<>>, related |-> <<>>]

NoAnswer == Answer(HTTP_OK, <<>>, {})

Init ==
  /\ db = InitialDb
  /\ step = "idle"
  /\ body = NoBody
  /\ memory = 0
  /\ answer = NoAnswer

\* A resource is created where there is none, and there is room for it.
Sensible(message) ==
  \A i \in DOMAIN message :
    LET creates == [string |-> "CREATE"] \in Given(message[i], "operation")
    IN  /\ creates <=> PathOf(message[i]) \notin DOMAIN db
        /\ creates => Cardinality(DOMAIN db) + Len(message) <= MaxResources

\* The memory is as it is when the request comes.
Send ==
  /\ step = "idle"
  /\ \E message \in Messages :
       /\ Sensible(message)
       /\ body' = [changes |-> message, related |-> db]
  /\ memory' \in Uninitialized
  /\ step' = "sent"
  /\ UNCHANGED <<db, answer>>

Handle ==
  /\ step = "sent"
  /\ \E a \in MayAnswer(getValidationData(body, memory)) :
       answer' = validatorResponseToJson(a)
  /\ step' = "answered"
  /\ UNCHANGED <<db, body, memory>>

\* Seeded fault: an answer is kept for the next round.
ForgetRequestOnly ==
  /\ step' = "idle"
  /\ body' = NoBody
  /\ UNCHANGED answer
  /\ memory' = 0

Forget ==
  /\ step' = "idle"
  /\ body' = NoBody
  /\ answer' = NoAnswer
  /\ memory' = 0

Accepted == step = "answered" /\ answer.code = HTTP_OK

Deleted == {PathOf(c) : c \in {c \in Range(answer.changes) : Given(c, "data") = {}}}

Written == {c \in Range(answer.changes) : Given(c, "data") # {}}

\* No two changes of a message are for the same path.
Store ==
  /\ Accepted
  /\ db' = [p \in {PathOf(c) : c \in Written} \cup (DOMAIN db \ Deleted) |->
              LET data == UNION {Given(c, "data") : c \in {c \in Written : PathOf(c) = p}}
              IN  IF data = {} THEN db[p] ELSE CHOOSE d \in data : TRUE]
  /\ Forget

\* The answer was not a 200, or the client is gone before it stored.
Abandon ==
  /\ step # "idle"
  /\ Forget
  /\ UNCHANGED db

Next == Send \/ Handle \/ Store \/ Abandon

Spec == Init /\ [][Next]_vars

-------------------------------------------------------------------------------
(* The rounds as ProvisioningFlow has them: what is read from the JSON. A      *)
(* request that cannot be read is no round, and an answer that is not a 200    *)
(* leaves it as it was.                                                        *)

Decoded(message, initial) == getChangesToValidate([changes |-> message], initial)

DecodedResources(content, initial) == getRelatedResources([related |-> content], initial)

Readable(b) == ~Malformed(b) /\ BodyFaults(b) = {}

InRound == step # "idle" /\ Readable(body)

Client == "client"

DecodedInitialDb == DecodedResources(InitialDb, 0)

DecodedMessages ==
  {Decoded(m, initial) :
     m \in {m \in Messages : Readable([changes |-> m, related |-> <<>>])},
     initial \in Uninitialized}

RoundStep ==
  CASE ~InRound -> "idle"
    [] InRound /\ ~Accepted -> "read"
    [] InRound /\ Accepted -> "answered"

RoundChanges == IF InRound THEN Decoded(body.changes, memory) ELSE <<>>

RoundRelated == IF InRound THEN DecodedResources(body.related, memory) ELSE DecodedInitialDb

RoundAnswer == IF InRound /\ Accepted THEN {Decoded(answer.changes, 0)} ELSE {}

Flow == INSTANCE ProvisioningFlow WITH
  Clients    <- {Client},
  Intents    <- DecodedMessages,
  InitialDb  <- DecodedInitialDb,
  Serialized <- TRUE,
  db         <- DecodedResources(db, 0),
  step       <- [c \in {Client} |-> RoundStep],
  changes    <- [c \in {Client} |-> RoundChanges],
  related    <- [c \in {Client} |-> RoundRelated],
  answer     <- [c \in {Client} |-> RoundAnswer]

\* What the rules look at goes through the parser and the encoder as it is:
\* the rounds on JSON are rounds of ProvisioningFlow on what is read from it.
\* The encoder writes nothing the parser reads otherwise, the attributes of a
\* resource survive any number of rounds, and only computeMutations changes
\* them.
FlowSpec == Flow!Spec

\* This is for messages with one operation in each change, no data in a DELETE
\* and no two changes for one path, as far as the validator can read them, and
\* for resources that are read without what the memory holds.

IsPlain(members) ==
  \E op \in Operations :
    /\ Given(members, "operation") = {[string |-> op]}
    /\ op = "DELETE" => Given(members, "data") = {}

Distinct(message) ==
  \A i, k \in DOMAIN message : PathOf(message[i]) = PathOf(message[k]) => i = k

MessagesArePlain ==
  /\ \A message \in Messages : Readable([changes |-> message, related |-> <<>>]) =>
       Distinct(message) /\ \A members \in Range(message) : IsPlain(members)
  /\ \A intent \in DecodedMessages : \A c \in Range(intent) :
       StaticIpIsWritten(c.path.kind, c.data)

IsReadAlike(p, j) ==
  /\ p.kind # "other"
  /\ \A initial \in Uninitialized :
       ResourceFromJson(p.kind, j, initial) = ResourceFromJson(p.kind, j, 0)

DbIsReadAlike(content) == \A p \in DOMAIN content : IsReadAlike(p, content[p])

\* What is stored of a resource that is read, and sent as it is.
Resent(p, operation, j, initial) ==
  LET change == [operation |-> operation, path |-> p,
                 data |-> ResourceFromJson(p.kind, j, initial)]
  IN  ResourceToJson(p.kind, computeMutations(change).data)

IsFinal(p, j) ==
  p.kind \notin {"provJournal", "other"} =>
    \A operation \in Operations \ {"DELETE"} : \A initial \in Uninitialized :
      Resent(p, operation, j, initial) = j

DbIsFinal(content) == \A p \in DOMAIN content : IsFinal(p, content[p])

\* What ProvisioningFlow asks for beyond the shape of what the parser reads: the
\* texts that are sent as identifiers have an order, paths are of one of the
\* kinds, and the profiles that are there from the start have distinct dnns and
\* resolved references.
SuitsFlow ==
  /\ \A x \in DOMAIN Rank : Rank[x] \in Int
  /\ \A v \in Values : Is(v, "object") => Text(v, "plmnIdSetIdentifier") \in DOMAIN Rank
  /\ \A message \in Messages : \A members \in Range(message) : PathOf(members).kind \in PathKinds
  /\ \A profile \in Flow!ProfilesOf(DecodedInitialDb) :
       Flow!IsProfile(profile) /\ Flow!DnnsAreDistinct(profile) /\ Flow!ReferencesResolve(profile)
  /\ \A u \in Flow!SubscriptionsOf(DecodedInitialDb) : Flow!IsSubscription(u)

-------------------------------------------------------------------------------
(* Safety                                                                      *)

\* The database is a function from paths to objects, and a client that is idle
\* has forgotten its round.
TypeOK ==
  /\ \A p \in DOMAIN db : p.kind \in PathKinds /\ Is(db[p], "object")
  /\ step \in {"idle", "sent", "answered"}
  /\ body.changes \in Messages \cup {<<>>}
  /\ memory \in Uninitialized \cup {0}
  /\ answer.code \in {HTTP_OK, HTTP_BAD_REQUEST, HTTP_CONFLICT, HTTP_UNPROCESSABLE_ENTITY,
                      HTTP_INTERNAL_SERVER_ERROR}
  /\ step # "answered" => answer = NoAnswer

\* What is stored can be read again, as the related resource of any later
\* request, but for mandatory members that were empty: a fault in one stored
\* resource has every request with it refused.
StoredReadsBack ==
  \A p \in DOMAIN db : ResourceFaults(p.kind, db[p]) \subseteq EmptiedNames

\* What is stored is final: whoever reads a resource, changes nothing and sends it
\* back, for whatever operation, gets the JSON he read, to the last member, and
\* whatever the memory holds. What parser, computeMutations and encoder add, fill
\* in or leave out, they do in the first round.
StoredIsFinal == DbIsFinal(db)

\* The numbers that have a range, at the places where the parser reads them. A
\* number that is absent is in its range.

SstInRange(j) ==
  \A s \in Member(j, "nssai", "object") : Optional(s, "sst", "int") \subseteq 0..255

FivegQosProfileInRange(q) ==
  /\ Optional(q, "5qi", "int") \subseteq 0..255
  /\ Optional(q, "priorityLevel", "int") \subseteq 1..127
  /\ \A a \in Member(q, "arp", "object") : Optional(a, "priorityLevel", "int") \subseteq 1..15

PlmnIdSetInRange(j) ==
  /\ \A s \in Member(j, "nssai", "object") :
       \A n \in Objects(s, "defaultSingleNssais") \cup Objects(s, "singleNssais") : SstInRange(n)
  /\ \A l \in Objects(j, "dnnLists") : \A d \in Objects(l, "dnnDataList") :
       \A q \in Member(d, "5gQosProfile", "object") : FivegQosProfileInRange(q)

PlmnIdSetsInRange(j) == \A s \in Range(Elements(j, "plmnIdSets")) : PlmnIdSetInRange(s)

UdmStaticDataInRange(j) ==
  /\ Optional(j, "ueUsageType", "int") \subseteq 0..255
  /\ \A n \in Optional(j, "dlPacketCount", "int") : n >= -1
  /\ \A s \in Member(j, "udmSliceData", "object") : PlmnIdSetsInRange(s)
  /\ \A s \in Member(j, "staticIpAddress", "object") :
       \A e \in Range(Elements(s, "nssaiDnnIpLists")) : SstInRange(e)

InRange(kind, j) ==
  CASE kind = "udmSliceProfile" -> PlmnIdSetsInRange(j)
    [] kind = "udmStaticData" -> UdmStaticDataInRange(j)
    [] OTHER -> TRUE

DbInRange(content) == \A p \in DOMAIN content : InRange(p.kind, content[p])

NumberErrors ==
  {"sst", "staticIpSst", "fiveqi", "priorityLevel", "arpPriorityLevel", "ueUsageType", "dlPacketCount"}

\* Whatever way a number comes into the database, it is in the range its name
\* allows; and no request is refused for its numbers unless one is not, or the
\* sst of a static IP address that has no nssai happens to be.
NumbersDecide ==
  /\ DbInRange(db)
  /\ (step = "answered" /\ Readable(body) /\ answer.errors # {}
       /\ answer.errors \subseteq NumberErrors /\ memory \in 0..255) =>
       \E c \in Range(body.changes) : \E data \in DataRead(c) : ~InRange(PathOf(c).kind, data)

-------------------------------------------------------------------------------
(* What the release notes say, and the code does not do                        *)

\* "For DELETE operations, any resource path is allowed and the service will
\* always return HTTP 200": a request with deletions only is not refused for
\* what the rules or the parser say of it.
DeletesAreAnswered200 ==
  (/\ step = "answered"
   /\ body.changes # <<>>
   /\ \A c \in Range(body.changes) : Given(c, "operation") = {[string |-> "DELETE"]})
    => answer.code \notin {HTTP_CONFLICT, HTTP_UNPROCESSABLE_ENTITY}

===============================================================================
