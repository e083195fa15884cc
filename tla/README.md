# UDM Provisioning Validator: specification and proofs

The UDM Provisioning Validator is a stateless HTTP/2 service. A provisioning
function sends it a list of changes to 5G subscription data together with the
related resources it read from the database, and gets back either the changes,
completed with defaults (200), or the errors found (400, 409, 422, 500). This
directory has TLA+ modules that model the service, the TLC configurations that
check them on small instances, and TLAPS proofs of the properties of the rules,
of the server, of parser and encoder, and of the database over time for all
values of the constants.

Source locations are written `ValidationData.cpp:130`; paths are relative to
`src/` of the repository.

## 1. Inventory

| part | where | state it keeps | operations |
|---|---|---|---|
| process life cycle | `main.cpp`, `validatorEnvHandler.hpp` | environment, SIGTERM handler | register the OpenAPI validator, start the server, log on SIGTERM |
| request handlers | `ports/server/ValidatorHttp2AsyncServer.cpp` | locals of one handler per stream | `handleHttp2RequestHealthy`, `handleHttp2Request`, `checkInvalidRequest`, `checkInvalidResponse`, `sendResponse`, `start` |
| interface registry | `ports/ports.hpp` | one global map per interface | `registerInterface`, `get` (asserts), `remove` |
| OpenAPI validation | `domain/validation.cpp`, `ports/oaivalidator/` | the schema, read at start | `validateRequest`, `validateResponse` |
| rules | `entities/ValidationData.cpp`, `entities/*Sms*.cpp` | `changes`, `relatedResources`, `response` of one request | `applyValidationRules`, one rule set per kind of resource and operation, `computeMutations` |
| parser | `ports/json/*Parser.cpp` | the JSON document, one error string | `getValidationData` |
| encoder | `ports/json/*Encoder.cpp` | the JSON document | `validatorResponseToJson`, `errorResponseToJson` |
| tracing context | `entities/Context.cpp` | headers of one request | `copyTracingHeaders`, `getTracingHeaders` |
| lock queue | `entities/lockqueue.hpp` | a queue, a mutex, a condition variable | `push`, `pop`, `front`, `empty` (used by a unit test only) |
| log anonymizer | `ports/logs/` | none | `anonymizeJson` |
| libraries | `3pp/` (empty submodules) | | cpph2 (server), cpplog, cppmonitor, cppopenapi |

**How they interact.** `main` registers the OpenAPI validator and calls
`start`, which gives cpph2 two handlers and blocks in `join`. cpph2 runs the
handlers in its own threads. A handler asks the registry for the validator,
rejects what the schema rejects (400), parses the body (400, or 409 when the
parser found errors), applies the rules to each change, and sends the response
after the validator has looked at it (500 when it is rejected). Nothing of a
request outlives its handler: the memory of the system is the database, which
the sender of the requests reads and writes.

A resource makes a round trip: the sender keeps it as JSON, the parser reads it,
the rules look at some of it, `computeMutations` writes the default `dnnListId`,
the encoder writes it, and the sender stores what it was answered. The same
parser reads it again as a related resource of a later request, and what it then
finds wrong refuses that request, whatever it is about.

**What is hard.** Handlers interleave, with each other, with start-up and with
SIGTERM. Every failure on the way must end the stream, once. Changes are put in
the response while the list is still being checked. Verdict, code and errors
are computed apart from each other. And since the service is stateless, its
rules protect the database only over sequences of requests: each is checked
against what its sender read, maybe before somebody else wrote, and the
resources that are stored are not the ones that were checked, but mutated ones.
The hazards are listed, at their lines, in `PROJECT.json`.

**What makes each part correct.**

* *Handlers*: one answer per stream, one the request may get, after no more calls
  than its list of changes takes; 200 means all changes passed and all come back
  in order; a failure gives no change away; the order of the changes decides
  nothing.
* *Rules of one change*: verdict, code and errors agree; 422 wins over 409.
* *Rules over time*: what is accepted keeps the references between slice
  profiles and subscriptions intact, introduces no repetitions, and what is
  stored is accepted again, and answered as it is; numbers are in their ranges.
* *Parser and encoder*: together they are the identity on what the rules look
  at; what was stored can be read; nothing else is lost or made up on the way.
* *Registry*: it is not asked for what is not there.
* *Lock queue*: first in, first out, each element once; no caller of `pop`
  sleeps for ever beside an element, but for one element with each call of
  `front`, which takes nothing.

## 2. Modules

```
Outcomes <- DnnDataRules <- SliceProfileRules <- SubscriptionRules \
Outcomes <- SmsRules -------------------------------------------- > ValidationData
Outcomes <- RoamingAreaRules ------------------------------------/
ValidationData <- ValidationServer --(refines)--> ValidationService
ValidationData <- ProvisioningFlow
ValidationData, JsonValues <- SliceProfileJson <- SubscriptionJson <- ValidationJson
ValidationJson <- JsonRound --(refines)--> ProvisioningFlow
JsonRound <- JsonLeaves
RuleProofs <- ValidationServerProofs
RuleProofs <- FlowProofs <- StoredProofs ------------\
JsonProofs, RuleProofs <- JsonShapeProofs <- JsonRoundProofs
LockQueue --(refines)--> FifoQueue
```

| module | models | correspondence |
|---|---|---|
| `Outcomes` | `validation_response_t`, `addError`, `getWorstResponseCode` | an outcome is verdict, code and the names of the errors pushed |
| `DnnDataRules` | the checks of one `dnnData` | one operator per attribute group |
| `SliceProfileRules` | slice profile rules, at CREATE and UPDATE, and mutations | operators named as the functions; sub-rules of the 480-line common function have names of their own |
| `SubscriptionRules` | `udmStaticData` rules | as above |
| `SmsRules` | R5, R6, R7 and the rules of CREATE and UPDATE | one operator per rule class |
| `RoamingAreaRules` | `areaList` rules | as above |
| `ValidationData` | the dispatch in `applyValidationRules`, related-resource lookup, `computeMutations`; and, without the loop, what a list of changes comes to and what a request may be answered | `CheckChange` is the if-chain; `MayAnswer` is the abstract service's promise |
| `ValidationServer` | `main`, SIGTERM, the registry, the handlers | a program counter per stream; one action per call a handler makes, one per turn of the loop over the changes |
| `ValidationService` | the promise to clients | a stream is asked, answered once, forgotten |
| `ProvisioningFlow` | the service in use: rounds of read, validate and store | the validator's part is `CheckChange` and `computeMutations`; clients and database are external |
| `JsonValues` | rapidjson values as the code uses them, `getString`, the field errors of `ValidationData.hpp`, `strToJson`, `intToJson`, the vendor specific parser and encoder | a value is a record with one field, its type; a member's faults and its value are operators apart |
| `SliceProfileJson` | `getPlmnIdSets` and `getUdmSliceProfile` of the parser, `plmnIdsToJson` and `udmSliceProfileToJson` of the encoder | three operators for each kind of object: `...Faults`, `...FromJson`, `...ToJson` |
| `SubscriptionJson` | `getUdmStaticData`, `udmStaticDataToJson` | as above |
| `ValidationJson` | `getChangesToValidate`, `getRelatedResources`, the SMS parser, roaming areas, and their encoders | a change is the sequence of its members, because the parser reads them in their order |
| `JsonRound` | the rounds of `ProvisioningFlow` with JSON in the database, the request and the answer | parser, `MayAnswer` and encoder in one step; the client and the database are external |
| `JsonLeaves` | the properties of `JsonRound` about what was sent and what is answered, down to the scalars of a value of any depth | recursive, and so apart from what is proved about |
| `LockQueue` | `lockqueue.hpp`: the queue, its mutex, the waiting threads | a program counter per thread; a step ends where the mutex is taken or released, at the wait, at the notification, and between copying and removing in `pop` |
| `FifoQueue` | what `LockQueue` promises | elements are put, and taken in that order |
| `MC*` | values, requests, resources | |
| `RuleProofs`, `ValidationServerProofs`, `FlowProofs`, `StoredProofs`, `JsonProofs`, `JsonShapeProofs`, `JsonRoundProofs`, `LockQueueProofs` | theorems | see section 5 |

**Abstractions.** A regular expression is a constant: the set of strings it
matches. A resource path is its kind, which is what the regular expressions of
the code tell apart, and its identifier. An optional attribute is the empty set
when absent, a singleton otherwise. An error is the name of the rule that
raised it, and the vector of errors is a set: no rule reads it back, the code
only asks whether it is empty. `to_lower_copy` and the order of `std::string`,
on which the multimap of `checkForUpdateSpecificUdmSliceProfileRules` and the
map of related resources depend, are constants (`Lower`, `Rank`). What the
OpenAPI library says of a request or a response is a free choice, which covers
every schema. In the server and the flow a request is what its body decodes to,
and the three outcomes of the parser are given with it; `JsonRound` has the body.
There, strings are compared but never taken apart, a number `IsInt()` does not
take is a value of its own, and the members no rule looks at are one opaque
part, `others`, of the entity they are in.

The parser pushes an error and goes on, leaving the attribute as the constructor
made it; whoever asks for the entity first asks whether there was an error. So
the model has the faults and the entity apart, and the entity means something
only when there are no faults. One attribute has no value from its constructor,
the `sst` of a static IP address without an `nssai` (`types.hpp:213`): it is what
the memory holds, chosen anew with each request.

**Interleaving.** Handlers share only the registry, written before the server
starts. The step between two actions of a handler is where other handlers and
the signal may run; each action is one call of the handler, because what the
call does in between is on locals.

A definition whose comment says *seeded fault* is a variant of the definition
after it with a plausible mistake. No specification uses one; each shows, when
put in the place of the definition after it, that a property notices it.

## 3. Runs

| run | instance | shows |
|---|---|---|
| `server` | 2 streams, fair handlers, twenty requests: lists of one of a passing, a conflicting, an unprocessable and a both-failing change, lists of two of different codes in both orders, and some of three | `TypeOK`, `RegistryBeforeUse`, `LoopInvariant`, `AnswerInvariant`, `AcceptedTogether`, `NothingAcceptedOnFailure`, `UnprocessableFirst`, `OrderDoesNotDecide`, `HandlersComeCloser`, `Answered` (every handler ends its stream) and `ServiceSpec` (refinement of `ValidationService`, liveness included) |
| `server_shutdown` | 2 streams, ten requests | *violated*: `ShutsDown`, finding 4 |
| `flow_serialized` | 1 client, one profile with up to two plmnIdSets, one subscription, requests with one change or with both | `TypeOK`, `ProfileReferencesResolve`, `SubscriptionReferencesResolve`, `DnnListIdsStayOrMoveUp` |
| `flow_stale` | 2 clients whose rounds overlap, profiles that repeat nssais and dnns, deletions | `NoRepeatedDnns`, `StoredProfilesPassAgain` |
| `flow_deleted_list`, `flow_repeated_nssai`, `flow_dangling` | 1 client | *violated*: findings 1 to 3 |
| `json_round` | 1 client, up to 3 resources, 76 messages: for each kind of resource a full one, bare ones, ones with a fault in each place, ones with numbers at and beyond the ends of each range | `TypeOK`, `StoredReadsBack`, `StoredIsFinal`, `AnswerKeepsTheData`, `NumbersDecide`, `FlowSpec` (refinement of `ProvisioningFlow`) |
| `json_deletes`, `json_vendor_specific`, `json_unread_data` | the same | *violated*: `DeletesAreAnswered200`, `VendorSpecificIsKept`, `SuccessIsAboutTheData`, findings 5 to 7 |
| `lock_queue` | 2 threads push, 2 pop, 1 calls `front`, twice each; 1 spurious wake-up, fair threads | `TypeOK` (with mutual exclusion), `NoLostWakeUp`, `ElementsInOrder` (refinement of `FifoQueue`), `SleepersGetElements` |

The server runs say `CHECK_DEADLOCK FALSE` because `main` returns when the
port is taken, and then nothing happens any more. The flow runs check deadlock. The
lock queue run does not: threads end after their last call, and a caller of `pop`
may rightly wait for a push that never comes.

**Bounds and why they are enough.** Handlers are independent but for the
registry, so two streams show every pairwise interleaving. The loop looks at
verdicts only; lists of two with the worse code first and last, and lists of
three with the change that fails both ways in the middle, put each code behind
each other one, and the proofs cover all lists. In the flows, the rules compare
sets with the same identifier and with later ones, so two identifiers are
needed, in both orders of the multimap; a list needs two elements to repeat one,
and a third state of the database to repeat more; two clients are enough for a
stale read. The bounds are the sets `Requests` and `Intents` given by the MC
modules. In the flow with a subscription there is one slice profile, whose id is
that of its path, so that the lookup by the id inside of the profile
(`ValidationData.cpp:589`) always finds it: two profiles of one id are not among
the runs, and excluded by a hypothesis of the theorem (section 5). On JSON,
every attribute is present in some message and absent in another, every list has
two elements in some message, every vendor specific member occurs once on every
level, and every range is sent its two ends and the number next to each, which
is what `NumbersDecide` needs, and numbers are read nowhere else; one client is
enough because the parser and the encoder share nothing between requests, and
`MaxResources` is 3 so that a profile and a subscription are in the database
next to the journal. `Uninitialized` has a number in the range of `sst` and one
out of it. In the lock queue, an order to get wrong needs two elements, a lost
wake-up needs two sleepers and two pushes, of one thread or of two, and with a
caller of `front` in between it is the one that may be woken; `Calls` and
`MaxSpurious` bound the threads, and the proofs hold for any values of them.
Only a unit test of one thread uses the class in this repository; the model is
of what its mutex and its condition variable are for.

**Fairness.** `FairSpec` asks for weak fairness of `Handler(s)` for each stream:
handlers run in threads of the server, take no lock and wait for nothing, so a
handler that can go on is scheduled. Nothing is assumed of clients, of start-up
or of SIGTERM. The flow and JSON runs assume no fairness, and no safety property
depends on it. In the lock queue a thread that can go on does (`Operation(t)`),
as threads of an operating system do; callers need not call. Weak fairness is
enough for the mutex, which asks for less than a fair lock, because calls and
spurious wake-ups are finitely many.

## 4. Findings

1. *A deleted dnnListId may pass* (`ValidationData.cpp:1309`). "Do not allow
   deleting a dnnListId from UdmSliceProfile" (1299-1304), but the loop over the
   multimap ends at `end()` and not with the key: a dnnListId of a later
   identifier counts. `DnnListIdsStayOrMoveUp` is what does hold.
2. *A repeated nssai passes when the database has it once* (`:1554`). The
   comment at 1562 says it is "also duplicated in database". For dnns the code
   does compare the number of occurrences (1275), and `NoRepeatedDnns` holds.
3. *Dangling default* (`:209`). The check that nssais point to existing dnnLists
   runs before `computeMutations` writes `Default`, also where there are no
   dnnLists. The stored profile would be refused if it were sent back.
   The parser has a comment that an empty `dnnLists` is an error
   (`ValidatorRapidJsonParser.cpp:1151`), and no code for it.
4. *SIGTERM* (`main.cpp:16`). "Shutting down service. Waiting for pending
   request": nothing is told to shut down.
5. *A DELETE may be refused* (`ValidatorRapidJsonParser.cpp:820`). The release
   notes say that a DELETE is always answered 200 (`ReleaseNotes.md:59`). But a
   related resource that does not parse makes every request with it a 409, and
   the validator itself produces one: a profile with an empty `dnnLists` is
   accepted and answered without the member, which is mandatory when it is read
   back. `StoredReadsBack` names the attributes this can happen with.
6. *Vendor specific attributes of udmSliceData are lost*
   (`ValidatorRapidJsonEncoder.cpp:319`). The release notes have "Support for vendor
   specific attributes." (`ReleaseNotes.md:64`), and the parser reads those of
   `udmSliceData` (`ValidatorRapidJsonParser.cpp:699`), but the encoder writes its
   `plmnIdSets` and nothing else. On every other level they come back:
   `VendorSpecificIsKept` holds when no message has one in `udmSliceData`, and
   `AnswerKeepsTheData`, which allows this loss, allows no other one.
7. *Data that nobody looked at is answered 200*. "Ok - Validation was successful."
   is what the schema says of a 200 (`UDMProvisioningValidation.yaml:98`). A
   `plmnIdSets` of a slice profile that is no array is reported with
   `setParsingError`, which no caller looks at (`ValidatorRapidJsonParser.cpp:893`),
   and the profile goes on without any. And `data` is read only when
   `resource_path` was read before it (`:97`), although the members of a JSON object
   have no order: a change with the two the other way round is accepted as one of a
   resource without attributes. The trace of the run shows the first; messages of
   either kind alone violate `SuccessIsAboutTheData`, and without both it holds.
   `AnswerKeepsTheData` is about data that was read, with nothing found wrong in it.

## 5. Proofs

TLAPS proves, for any set of streams, any requests and any formats:

* `RuleProofs!CheckChangeConsistent`: for one change, verdict, code and errors
  agree. It follows from one lemma per rule set: `Conflict` and `Unprocessable`
  are consistent, and `WorstOf` keeps consistency.
* `RuleProofs!BarringNeedsSubscription`: R5 to R7 together.
* `ValidationServerProofs`: `TypeCorrect`, `RegistryIsUsedRegistered`,
  `LoopCorrect`, `AnswersAreAllowed`, `AcceptedTogetherAlways`,
  `NothingIsAcceptedOnFailure`, `UnprocessableIsFirst`, `OrderNeverDecides`,
  `EveryStepCounts`, `StepsAreBounded`, and `ImplementsService`, that every
  behaviour of the server is one of `ValidationService` (its safety part,
  `SafetySpec`).

**Argument.** The inductive invariant is `TypeOK /\ LoopInvariant /\
AnswerInvariant`. `AnswerInvariant` alone is not inductive: that the answer
given after the loop is `Verdict(request)` needs `LoopInvariant`, which relates
`ret`, `code`, the errors and the accepted changes after i turns to the first i
changes. The turn of the loop is a lemma on one step (`WorstOf` extends each
conjunct by one change; `CheckChangeConsistent` ties the verdict to the code),
the end of the loop a lemma that turns the invariant at the last index into
`Verdict`. The three properties on answers follow from `AnswerInvariant`: they
are facts about the members of `MayAnswer`. The refinement proof maps each
action to a step of the abstract service or to a stutter: `Receive` to `Ask`,
each action that ends the stream to `Reply`, `Close` to `Forget`. The registry
needs an invariant of its own: a stream is busy only while `main` is serving,
and then the registry is filled.

`OrderNeverDecides` (`OrderDoesNotDecide`) relates the answers of two streams. It
follows from `AnswerInvariant` too: that all changes pass, the worst code and the
errors of a list depend on the set of its changes only
(`SameChangesSameVerdict`), although the loop computes them one by one and goes
on behind a failure.

`EveryStepCounts` (`HandlersComeCloser`) and `StepsAreBounded` are the safety half
of `Answered`. `StepsLeft(s)` is a number between 0 and the length of the list plus
4, and 0 just when the handler has none left; each step of the handler makes it
smaller, and no step of another handler, of `main` or of the signal handler
touches it. So a handler that the server schedules at all ends its stream,
whatever the list is; that it is scheduled is `FairSpec`, and that part stays
with TLC.

The lock queue (`LockQueueProofs`), for any threads and numbers of calls:

* `LockQueueTypeCorrect` and `ImplementsFifo`. The invariant is `TypeOK`, which
  has mutual exclusion, and `CopiedIsFirst`: the element that `pop` has copied is
  still the first one when it is removed. Without it the removal could not be
  shown to be a `Take` of `FifoQueue`.
* `NoWakeUpIsLost`, when the threads are finitely many. It is by counting: a push
  adds an element and a thread that notifies, a notifier is replaced by the caller
  of `pop` or the call of `front` it wakes, a `pop` takes one of each away. A call
  of `front` takes no element, so it goes on counting after it has returned
  (`Looks`).

The database over time (`FlowProofs`), for any clients, any intents and any
initial database of the shape described below:

* `FlowTypeOK`, `DnnsStayDistinct` (`NoRepeatedDnns`) and
  `ReferencesStayResolved` (`ProfileReferencesResolve`), also when rounds overlap
  and related resources are stale. None of the three is inductive: a dnn that
  is repeated passes an UPDATE when the *related resource* has it more often, so
  it has to be known of everything a client has read that no dnn is repeated in
  it, and of everything a client was answered that it may be stored. `FlowInv`
  says so: the database, and what each client has read, hold only profiles with
  distinct dnns and resolved references, and so does each answer.
  Three lemmas carry it: an accepted profile has distinct dnns if the
  related one has; an accepted profile's references resolve, or it has no
  dnnLists; `computeMutations` keeps both, adding `Default` only where the first
  rule made sure that there is a list of this name, or where there are no lists.
* `DnnListIdsAreKept` (`DnnListIdsStayOrMoveUp`), when rounds are serialized:
  `SerialInv` adds that a client in a round has read what is still in the
  database, and that what it creates is not there.

What can be done with the database later (`StoredProofs`):

* `StoredProfilesPass` (`StoredProfilesPassAgain`), for stale reads too, if the
  common rules accept what is in the database from the start. `RulesInv` adds
  `KeptRules` to `FlowInv`: the common rules a stored profile has passed, but for
  the one on references, which `computeMutations` may break in a set without
  dnnLists. `computeMutations` changes only `dnnListId`s that are empty, and no
  other common rule looks at them. The rules of an update compare the profile
  with itself; the one that does not pass trivially is the nssai rule, which
  looks for a set with the same identifier and may find another one
  (`OwnSetIsFirst`): this is the exception the property names.
* `SubscriptionReferencesStayResolved` (`SubscriptionReferencesResolve`), with
  the hypotheses the property needs, each of them a case in which the code lets
  a reference dangle: rounds are done one at a time; no slice profile is deleted;
  each has the id of its path, since the rules look the profile up by the id
  inside of it; references are resolved from the start. `SubscriptionInv` adds
  both to `SerialInv`. When a profile changes, `DnnListIdsStayOrMoveUp` keeps
  the pairs the subscription needs, at the same rank or a later one
  (`ResolvesAcrossUpdates`), and when both change in one round, the rules saw
  the old profile and the same lemma carries it over.

Parser and encoder (`JsonProofs`, `JsonShapeProofs`), for any texts, numbers,
formats and memory:

* For each kind of object `JsonProofs` has a lemma that the parser reads, from
  what the encoder writes for an entity of the right shape, this entity, and
  with which faults at most; `JsonShapeProofs` has one that what the parser reads
  without a fault has this shape, and that `computeMutations` keeps it.
  `AcceptedDataReadsBack` puts them together: for a change that parses and
  passes its rules, the JSON of the answer is an object the parser can read, but
  for names in `EmptiedNames`, and what it reads is the mutated entity, attribute
  for attribute, whatever the memory holds.
* For a static IP address this is said under `StaticIpIsWritten`. The encoder
  leaves out a `dnn` and an address with an empty text, and the parser fills the
  `dnn` from the element before it; an element of either kind is not read as it
  was. `StaticIpIsWritten` leaves out these and nothing else. That no fault comes
  of it is proved without the restriction.

The rounds on JSON (`JsonRoundProofs`), for any messages and initial database
the parser can read:

* `JsonTypeCorrect` and `StoredDataReadsBack` (`StoredReadsBack`). The invariant
  `RoundInv` adds to both that the data of an answer with 200 is readable, which
  is where `AcceptedDataReadsBack` is used.
* `RoundsImplementFlow` (`FlowSpec`): `JsonRound` implements `ProvisioningFlow`,
  for messages that are plain (`MessagesArePlain`: one operation in a change, no
  data in a DELETE, no two changes for one path, `StaticIpIsWritten`) and an
  initial database that reads the same whatever the memory holds
  (`DbIsReadAlike`). `MappedInv` says that the request holds the database, that
  the database reads the same with any memory, and that the changes of a 200 are
  what the encoder wrote for the mutated ones. `Send` is a `Read`, or a stutter
  when the body cannot be read; `Handle` is a `Validate` when the answer is a
  200, and a stutter otherwise; `Store` and `Abandon` are theirs. The longest
  step is that `Store` on JSON is `ApplyAll` on what is read (`StoredAsApplied`).
* `NumbersInTheirRange` (`NumbersDecide`), if the numbers are in their ranges from
  the start. `Fits` says of an entity what `InRange` says of JSON. `NumbersInv`
  adds to the property that the data of a 200 is in range. Three chains of lemmas
  carry it: what passes the rules fits (`PassingFits`), `computeMutations` and the
  encoder keep it so (`MutatedFits`, `WrittenInRange`); what is in range fits when
  it is read (`FaultlessFits`, for what is read without a fault), and what fits
  raises none of `NumberErrors` (`FittingIsClean`). The second half of the property
  is for a memory that happens to hold an `sst` in range: an element of a static
  IP address without an `nssai` is judged by it.
* `StoredResourcesAreFinal` (`StoredIsFinal`), for plain messages. `FinalInv` adds
  to `MappedInv` that what is stored, and what a 200 has, is a fixed point of
  parser, `computeMutations` and encoder. It rests on `AcceptedDataReadsBack` and
  on `MutationsAreFinal` of `RuleProofs`: what was mutated once is not mutated
  again, also by another operation than the first. Without `StaticIpIsWritten` it
  would be false: an element of a static IP address that was left out is filled
  in from what stands before it.
* `StoredJsonKeepsReferences`, `StoredJsonPassesAgain` and
  `StoredJsonResolvesSubscriptions`: so the theorems of `FlowProofs` and
  `StoredProofs` hold of the JSON in the database. Of the assumptions of
  `ProvisioningFlow`, the shape of what is sent (sequences of sets, with lists of
  nssais and of dnns) is proved of whatever the parser reads (`IntentsShaped`).
  What `SuitsFlow` leaves is what no parser can give: texts that are sent as
  identifiers have an order, paths are of one of the kinds, and the profiles that
  are in the database from the start are as `InitialDbAssumption` of
  `ProvisioningFlow` says. The last of the three theorems has the hypotheses of
  `SubscriptionReferencesStayResolved` as well; `SerializedIntents` of the flow
  run are messages that satisfy them.
  The instance of `ProvisioningFlow` in `JsonRound` and the one that comes with
  the theorems have definitions of their own; `SameFormulas` unfolds both.

A proof found a hole of the model: `EmptiedNames` did not have
`nssaiDnnIpLists`. A static IP address with an empty list of them is accepted,
answered without the member, and refused when it is read back; no message of the
run had one. The model and the messages have it now.

**Assumptions.** `RankAssumption`: the order of the keys of the multimap is an
order of numbers. `IntentsAssumption`: an intent is a list of changes, and a
change of a slice profile that is no DELETE holds a profile, with lists where
lists are expected and identifiers the order knows; a subscription has the two
members that name its profile and its slice data. `InitialDbAssumption` of
`ProvisioningFlow`: the profiles that are in the database from the start have
distinct dnns and resolved references: the validator does not repair what it did
not let in. `InitialDbAssumption` of `JsonRound`: the parser can read what is in
the database from the start, but for emptied names. `MessagesAssumption`: a
message is a list of changes with an operation, a path and no member twice
(`HasSchemaOfChange`), and its data is among `Values`. `ValuesAssumption`:
`Values` has the parts of what it has; arrays are sequences; integers are
integers; and what the parser takes for an object without asking is one.
`VendorSpecificAssumption`: the name of an attribute is not the name of a vendor
specific one (`ValidatorVendorSpecificParser.cpp:9`). `ThreadsAssumption`: a
thread calls one operation, and the bounds are numbers. `RequestsAssumption`: a
request's uri and format are one of the two values the handlers tell apart, and
its changes are a list. `SerializedAssumption`: a Boolean.
`MaxResourcesAssumption`: a number. All are evaluated by TLC in the runs. The
hypotheses of the refinement theorems are evaluated by the runs of `MCJsonRound`
(`RefinementAssumption`, `RangeAssumption`, `FinalAssumption`).

**Only model-checked.** `Answered`, the liveness part of `ServiceSpec`, and
`SleepersGetElements` (fairness and ENABLED are beyond the prover); of the first,
`EveryStepCounts` and `StepsAreBounded` prove what fairness does not give. And
`AnswerKeepsTheData`, which looks into JSON values of any depth with a recursive
operator, so that a proof would be by induction over data. For the attributes the
rules look at, `AcceptedDataReadsBack` says more, and the vendor specific values,
which are where the depth is, are carried as they are. All other properties of
the passing runs are theorems.

## 6. Not modelled

* Wording of errors, logging, anonymization. Vendor specific attributes and the
  attributes no rule looks at are carried along as they are.
* JSON that the parser takes for an object or an array without asking, and is
  something else: an assertion of rapidjson, whose outcome depends on the build.
  Members that occur twice in one object, a change or another one.
* In `JsonRound`: the verdict of the OpenAPI schema is any, as in the server, and
  a DELETE is sent without data. Not among its messages are an element of
  `dnnIpList` with an empty `dnn` after one that has a dnn (it is read back with
  the dnn before it; that an element without one gets it is in the model, and no
  property calls it wrong, since nothing says what such an element is), and an address with members of two kinds or of none (the
  second kind, or the element, is dropped): `DnnAt`, `IpTypeOf` and
  `DnnIpsFromJson` have them, `AnswerKeepsTheData` would need an exception for
  each.
* The libraries, but for how the code uses them; overload protection is inside
  cpph2. Exceptions (`boost::get` of the wrong variant, out of memory): the kind
  of a related resource and of a path are decided by the same text in parser
  and rules.
* Deletion of a slice profile that subscriptions refer to: it is always
  accepted, so `SubscriptionReferencesResolve` can hold only while nobody does
  it, and the intents of its run have no such deletion.
* `LockQueue::empty`: it reads without the mutex, which is a data race, and no
  thread waits for its answer.
* The tracing context: seven headers go from a request to its answer through a
  local of the handler that nothing else touches. `ProblemDetails`: nothing uses
  it. Build and deployment files.

## 7. State and further work

Done, in the order of importance: the rules, the server and its abstract
service, the flow, the proofs about rules and server, the lock queue with its
proofs, parser and encoder attribute by attribute and the flow on JSON, the
proofs about the flow and about what is stored, the proofs about parser and
encoder, the refinement of the flow by the rounds on JSON, and the proofs about
numbers, about the steps of a handler and about what is final.

What could come next:

1. The loops behind `RepeatedDnnsOnUpdate`, `checkForRepeatedNssaisOnUpdate` and
   `DnnListIdDefined`, one turn per step, shown to compute the operators.
2. `StoredIsFinal` for messages that are not plain: which elements of a static IP
   address are filled in, and that it takes one round.
