----------------------------- MODULE ValidationServer -------------------------
(***************************************************************************)
(* The process: main.cpp, which registers the OpenAPI validator and starts *)
(* the HTTP/2 server, and the handlers of ValidatorHttp2AsyncServer.cpp,   *)
(* which run one per open stream and in any interleaving. A handler works  *)
(* on locals only, and so the variables below are functions of the stream; *)
(* what the handlers share is the registry of ports/ports.hpp.             *)
(*                                                                         *)
(* The OpenAPI validator (cppopenapi) and the HTTP/2 server (cpph2) are    *)
(* libraries: what the first says of a request or of a response is a free  *)
(* choice here, and the second starts handlers and delivers answers.       *)
(***************************************************************************)
EXTENDS ValidationData

CONSTANTS
  Streams,    \* streams open at a time
  Requests    \* the requests clients send

\* What the properties need of a request: a list of changes.
ASSUME RequestsAssumption ==
  \A r \in Requests : /\ r.uri \in {"/", "/healthz"}
                      /\ r.format \in {"ok", "malformed"}
                      /\ r.changes \in Seq(Range(r.changes))

VARIABLES
  main,       \* where main() is: "starting", "registered", "serving", "failed"
  registry,   \* the OaiValidatorInterface is in the InterfaceContainer
  sigterm,    \* SIGTERM was received
  pc,         \* pc[s]: where the handler of stream s is, "idle" without one
  request,    \* request[s]: the request of the stream
  next,       \* next[s]: the change applyValidationRules looks at next
  verdict,    \* verdict[s]: ret, code and response.errors so far
  accepted,   \* accepted[s]: response.changes so far
  pending,    \* pending[s]: the answer given to sendResponse
  answers     \* answers[s]: what the stream was ended with

process == <<main, registry, sigterm>>
locals == <<pc, request, next, verdict, accepted, pending, answers>>
vars == <<main, registry, sigterm, pc, request, next, verdict, accepted, pending, answers>>

-------------------------------------------------------------------------------
(* Answers. The body has either the errors or the changes, never both: the     *)
(* encoder looks at the errors first.                                          *)

Healthy == [code |-> HTTP_OK, changes |-> <<>>, errors |-> {}]

errorResponseToJson(code, message) ==
  [code |-> code, changes |-> <<>>, errors |-> {message}]

\* Seeded fault: what was accepted goes out next to the errors.
responseWithBoth(code, changes, errors) ==
  [code |-> code, changes |-> changes, errors |-> errors]

validatorResponseToJson(code, changes, errors) ==
  [code    |-> code,
   changes |-> IF errors = {} THEN changes ELSE <<>>,
   errors  |-> errors]

-------------------------------------------------------------------------------
(* main()                                                                      *)

Init ==
  /\ main = "starting"
  /\ registry = FALSE
  /\ sigterm = FALSE
  /\ pc = [s \in Streams |-> "idle"]
  /\ request = [s \in Streams |-> NoRequest]
  /\ next = [s \in Streams |-> 1]
  /\ verdict = [s \in Streams |-> Success]
  /\ accepted = [s \in Streams |-> <<>>]
  /\ pending = [s \in Streams |-> Healthy]
  /\ answers = [s \in Streams |-> <<>>]

registerInterface ==
  /\ main = "starting"
  /\ main' = "registered"
  /\ registry' = TRUE
  /\ UNCHANGED <<sigterm, locals>>

\* Seeded fault: the server is started first.
listenBeforeRegister ==
  /\ main \in {"starting", "registered"}
  /\ main' \in {"serving", "failed"}
  /\ UNCHANGED <<registry, sigterm, locals>>

\* listenAndServe: the port may be taken, and then main() returns 1.
listenAndServe ==
  /\ main = "registered"
  /\ main' \in {"serving", "failed"}
  /\ UNCHANGED <<registry, sigterm, locals>>

\* The handler logs, releases the logger and returns: the server is not told.
signalHandler ==
  /\ main # "failed"
  /\ ~sigterm
  /\ sigterm' = TRUE
  /\ UNCHANGED <<main, registry, locals>>

-------------------------------------------------------------------------------
(* The handler of a stream                                                     *)

\* A client opens a stream; the server picks the handler of its uri.
Receive(s) ==
  /\ main = "serving"
  /\ pc[s] = "idle"
  /\ \E r \in Requests :
       /\ request' = [request EXCEPT ![s] = r]
       /\ pc' = [pc EXCEPT ![s] = IF r.uri = "/healthz" THEN "healthy" ELSE "received"]
  /\ UNCHANGED <<process, next, verdict, accepted, pending, answers>>

\* stream->end.
End(s, answer) ==
  /\ answers' = [answers EXCEPT ![s] = Append(@, answer)]
  /\ pc' = [pc EXCEPT ![s] = "ended"]

handleHttp2RequestHealthy(s) ==
  /\ pc[s] = "healthy"
  /\ End(s, Healthy)
  /\ UNCHANGED <<process, request, next, verdict, accepted, pending>>

\* Seeded fault: the handler goes on after it has answered 400.
goOnAfterInvalidRequest(s) ==
  /\ pc[s] = "received"
  /\ pc' = [pc EXCEPT ![s] = "valid"]
  /\ \/ UNCHANGED answers
     \/ answers' = [answers EXCEPT ![s] = Append(@,
                     errorResponseToJson(HTTP_BAD_REQUEST, "malformed request"))]
  /\ UNCHANGED <<process, request, next, verdict, accepted, pending>>

\* A rejected request is answered without asking for the response's validity.
checkInvalidRequest(s) ==
  /\ pc[s] = "received"
  /\ \/ /\ pc' = [pc EXCEPT ![s] = "valid"]
        /\ UNCHANGED answers
     \/ End(s, errorResponseToJson(HTTP_BAD_REQUEST, "malformed request"))
  /\ UNCHANGED <<process, request, next, verdict, accepted, pending>>

\* sendResponse(..., validateResponse = true) is called with an answer.
Send(s, answer) ==
  /\ pending' = [pending EXCEPT ![s] = answer]
  /\ pc' = [pc EXCEPT ![s] = "sending"]

\* Seeded fault: the rules are applied to what could be read of a body with
\* errors.
getValidationDataDespiteErrors(s) ==
  LET r == request[s]
  IN  /\ pc[s] = "valid"
      /\ \/ /\ r.format = "malformed"
            /\ Send(s, errorResponseToJson(HTTP_BAD_REQUEST, "malformed request"))
            /\ UNCHANGED <<next, verdict, accepted>>
         \/ /\ r.format = "ok"
            /\ next' = [next EXCEPT ![s] = 1]
            /\ verdict' = [verdict EXCEPT ![s] = Success]
            /\ accepted' = [accepted EXCEPT ![s] = <<>>]
            /\ pc' = [pc EXCEPT ![s] = "applying"]
            /\ UNCHANGED pending
      /\ UNCHANGED <<process, request, answers>>

\* getValidationData: a body that cannot be read is answered 400, and errors
\* found on reading it 409, before any rule is applied.
getValidationData(s) ==
  LET r == request[s]
  IN  /\ pc[s] = "valid"
      /\ \/ /\ r.format = "malformed"
            /\ Send(s, errorResponseToJson(HTTP_BAD_REQUEST, "malformed request"))
            /\ UNCHANGED <<next, verdict, accepted>>
         \/ /\ r.format = "ok"
            /\ r.errors # {}
            /\ Send(s, validatorResponseToJson(HTTP_CONFLICT, <<>>, r.errors))
            /\ UNCHANGED <<next, verdict, accepted>>
         \/ /\ r.format = "ok"
            /\ r.errors = {}
            /\ next' = [next EXCEPT ![s] = 1]
            /\ verdict' = [verdict EXCEPT ![s] = Success]
            /\ accepted' = [accepted EXCEPT ![s] = <<>>]
            /\ pc' = [pc EXCEPT ![s] = "applying"]
            /\ UNCHANGED pending
      /\ UNCHANGED <<process, request, answers>>

\* Seeded fault: a change is answered when it passed, whatever was before it.
acceptOnOwnVerdict(s) ==
  LET changes == request[s].changes
      c       == changes[next[s]]
      resp    == CheckChange(c, request[s].related)
  IN  /\ pc[s] = "applying"
      /\ next[s] <= Len(changes)
      /\ next' = [next EXCEPT ![s] = @ + 1]
      /\ verdict' = [verdict EXCEPT ![s] = WorstOf(@, resp)]
      /\ accepted' = IF resp.valid
                     THEN [accepted EXCEPT ![s] = Append(@, computeMutations(c))]
                     ELSE accepted
      /\ UNCHANGED <<process, pc, request, pending, answers>>

\* Seeded fault: the loop is left at the first change that fails.
stopAtFailure(s) ==
  LET changes == request[s].changes
      c       == changes[next[s]]
      now     == WorstOf(verdict[s], CheckChange(c, request[s].related))
  IN  /\ pc[s] = "applying"
      /\ next[s] <= Len(changes)
      /\ next' = [next EXCEPT ![s] = IF now.valid THEN @ + 1 ELSE Len(changes) + 1]
      /\ verdict' = [verdict EXCEPT ![s] = now]
      /\ accepted' = IF now.valid
                     THEN [accepted EXCEPT ![s] = Append(@, computeMutations(c))]
                     ELSE accepted
      /\ UNCHANGED <<process, pc, request, pending, answers>>

\* One turn of the loop of applyValidationRules. A change is answered only
\* when it and every change before it passed.
applyRule(s) ==
  LET changes == request[s].changes
      c       == changes[next[s]]
      now     == WorstOf(verdict[s], CheckChange(c, request[s].related))
  IN  /\ pc[s] = "applying"
      /\ next[s] <= Len(changes)
      /\ next' = [next EXCEPT ![s] = @ + 1]
      /\ verdict' = [verdict EXCEPT ![s] = now]
      /\ accepted' = IF now.valid
                     THEN [accepted EXCEPT ![s] = Append(@, computeMutations(c))]
                     ELSE accepted
      /\ UNCHANGED <<process, pc, request, pending, answers>>

\* The end of the loop, and of handleHttp2Request.
handleHttp2Request(s) ==
  /\ pc[s] = "applying"
  /\ next[s] > Len(request[s].changes)
  /\ Send(s, validatorResponseToJson(
               IF verdict[s].valid THEN HTTP_OK ELSE verdict[s].code,
               accepted[s], verdict[s].errors))
  /\ UNCHANGED <<process, request, next, verdict, accepted, answers>>

\* Seeded fault: the 500 is sent with validateResponse, checked, and rejected
\* as before: the calls never return.
checkResponseAgain(s) ==
  /\ pc[s] = "sending"
  /\ pending[s].code # HTTP_INTERNAL_SERVER_ERROR
  /\ \/ /\ End(s, pending[s])
        /\ UNCHANGED pending
     \/ /\ pending' = [pending EXCEPT ![s] =
                        errorResponseToJson(HTTP_INTERNAL_SERVER_ERROR, "malformed response")]
        /\ UNCHANGED <<pc, answers>>
  /\ UNCHANGED <<process, request, next, verdict, accepted>>

\* checkInvalidResponse: an answer the schema rejects becomes a 500, and that
\* one is not checked again.
sendResponse(s) ==
  /\ pc[s] = "sending"
  /\ \/ End(s, pending[s])
     \/ End(s, errorResponseToJson(HTTP_INTERNAL_SERVER_ERROR, "malformed response"))
  /\ UNCHANGED <<process, request, next, verdict, accepted, pending>>

\* Seeded fault: the next request of the stream finds the old one.
CloseKeepsRequest(s) ==
  /\ pc[s] = "ended"
  /\ pc' = [pc EXCEPT ![s] = "idle"]
  /\ answers' = [answers EXCEPT ![s] = <<>>]
  /\ UNCHANGED <<process, request, next, verdict, accepted, pending>>

\* The client has the answer, and the stream is gone with its locals.
Close(s) ==
  /\ pc[s] = "ended"
  /\ pc' = [pc EXCEPT ![s] = "idle"]
  /\ request' = [request EXCEPT ![s] = NoRequest]
  /\ next' = [next EXCEPT ![s] = 1]
  /\ verdict' = [verdict EXCEPT ![s] = Success]
  /\ accepted' = [accepted EXCEPT ![s] = <<>>]
  /\ pending' = [pending EXCEPT ![s] = Healthy]
  /\ answers' = [answers EXCEPT ![s] = <<>>]
  /\ UNCHANGED process

\* The steps of the code that handles a stream that is open.
Handler(s) ==
  \/ handleHttp2RequestHealthy(s)
  \/ checkInvalidRequest(s)
  \/ getValidationData(s)
  \/ applyRule(s)
  \/ handleHttp2Request(s)
  \/ sendResponse(s)

Next ==
  \/ registerInterface
  \/ listenAndServe
  \/ signalHandler
  \/ \E s \in Streams : Receive(s) \/ Handler(s) \/ Close(s)

Spec == Init /\ [][Next]_vars

\* Handlers run in the threads of the server and none of them waits for
\* anything: each one that can go on does.
FairSpec == Spec /\ \A s \in Streams : WF_vars(Handler(s))

-------------------------------------------------------------------------------
(* Correctness                                                                 *)

Handling == {"healthy", "received", "valid", "applying", "sending"}

\* The variables have the types of the code, and a loop index stays in the
\* bounds of the list of changes. Nothing of a request is left on a stream
\* that is free.
TypeOK ==
  /\ main \in {"starting", "registered", "serving", "failed"}
  /\ registry \in BOOLEAN
  /\ sigterm \in BOOLEAN
  /\ pc \in [Streams -> Handling \cup {"idle", "ended"}]
  /\ request \in [Streams -> Requests \cup {NoRequest}]
  /\ next \in [Streams -> Nat]
  /\ DOMAIN verdict = Streams
  /\ DOMAIN accepted = Streams
  /\ DOMAIN pending = Streams
  /\ DOMAIN answers = Streams
  /\ \A s \in Streams : next[s] \in 1..(Len(request[s].changes) + 1)
  /\ \A s \in Streams : pc[s] = "idle" => request[s] = NoRequest

\* ports.hpp asserts that an interface is there when it is asked for: no
\* handler asks for the OpenAPI validator before main() has registered it.
RegistryBeforeUse ==
  \A s \in Streams : pc[s] \in {"received", "sending"} => registry

\* What the rules say of the i-th change of the request of s.
Checked(s, i) == CheckChange(request[s].changes[i], request[s].related)

\* The loop of applyValidationRules, at any turn: ret, code and errors are
\* what the changes looked at so far come to, and the changes answered so far
\* are the mutated ones before the first that failed.
LoopInv(s) == pc[s] = "applying" =>
  /\ request[s].uri = "/" /\ request[s].format = "ok" /\ request[s].errors = {}
  /\ Consistent(verdict[s])
  /\ verdict[s].valid <=> \A i \in 1..(next[s] - 1) : Checked(s, i).valid
  /\ verdict[s].code \in {HTTP_OK} \cup {Checked(s, i).code : i \in 1..(next[s] - 1)}
  /\ \A i \in 1..(next[s] - 1) : Checked(s, i).code <= verdict[s].code
  /\ verdict[s].errors = UNION {Checked(s, i).errors : i \in 1..(next[s] - 1)}
  /\ \E k \in 0..(next[s] - 1) :
       /\ accepted[s] = [i \in 1..k |-> computeMutations(request[s].changes[i])]
       /\ \A i \in 1..k : Checked(s, i).valid
       /\ k < next[s] - 1 => ~Checked(s, k + 1).valid

LoopInvariant == \A s \in Streams : LoopInv(s)

\* The abstract service of ValidationService, as the clients see a stream.
Phase == [s \in Streams |-> IF pc[s] = "idle" THEN "idle"
                           ELSE IF pc[s] = "ended" THEN "answered" ELSE "asked"]

Service == INSTANCE ValidationService WITH phase <- Phase

\* A stream waits for nothing but an answer the service may give, and a stream
\* that is ended was given exactly one of those.
AnswerInv(s) ==
  /\ pc[s] = "healthy" => request[s].uri = "/healthz"
  /\ pc[s] \in {"received", "valid"} => request[s].uri = "/"
  /\ pc[s] = "sending" => /\ request[s].uri = "/"
                          /\ pending[s] \in MayAnswer(request[s])
  /\ IF pc[s] = "ended" THEN \E a \in MayAnswer(request[s]) : answers[s] = <<a>>
                        ELSE answers[s] = <<>>

AnswerInvariant == \A s \in Streams : AnswerInv(s)

\* An answer of 200 that is not a health probe's means that every change was
\* checked and passed, and hands back all of them, mutated, in their order.
AcceptedTogether ==
  \A s \in Streams : \A a \in Range(answers[s]) :
    (a.code = HTTP_OK /\ request[s].uri = "/") =>
      /\ request[s].errors = {}
      /\ AllPass(request[s].changes, request[s].related)
      /\ a.changes = Mutated(request[s].changes)

\* A failing answer names what failed, and gives away no change, although the
\* handler may have accepted some of them before the one that failed.
NothingAcceptedOnFailure ==
  \A s \in Streams : \A a \in Range(answers[s]) :
    a.code # HTTP_OK => a.changes = <<>> /\ a.errors # {}

\* A 409 is answered only when no change lacks its related resources, however
\* the changes are ordered (unless the body itself had errors): 422 has
\* preference over 409.
UnprocessableFirst ==
  \A s \in Streams : \A a \in Range(answers[s]) :
    (a.code = HTTP_CONFLICT /\ request[s].errors = {}) =>
      \A i \in DOMAIN request[s].changes :
        CheckChange(request[s].changes[i], request[s].related).code
          # HTTP_UNPROCESSABLE_ENTITY

\* The answer of one stream is that of any other: two streams that were sent the
\* same changes, in whatever order, with whatever repetitions and at whatever
\* time, get the same code for the same errors, unless the OpenAPI validator
\* refuses one of them. Every change is looked at, also behind one that failed.
OrderDoesNotDecide ==
  \A s, t \in Streams : \A a \in Range(answers[s]), b \in Range(answers[t]) :
    (/\ request[s].uri = "/" /\ request[t].uri = "/"
     /\ request[s].errors = request[t].errors
     /\ Range(request[s].changes) = Range(request[t].changes)
     /\ request[s].related = request[t].related
     /\ {a.code, b.code} \cap {HTTP_BAD_REQUEST, HTTP_INTERNAL_SERVER_ERROR} = {})
      => a.code = b.code /\ a.errors = b.errors

\* The calls a handler has left before its stream is ended: at most one turn of
\* the loop for each change, and four more.
StepsLeft(s) ==
  LET changes == Len(request[s].changes)
  IN  CASE pc[s] = "received" -> changes + 4
        [] pc[s] = "valid"    -> changes + 3
        [] pc[s] = "applying" -> changes + 3 - next[s]
        [] pc[s] \in {"sending", "healthy"} -> 1
        [] pc[s] \in {"idle", "ended"} -> 0

\* A step that leaves the locals of the handler of s alone.
Untouched(s) ==
  /\ pc'[s] = pc[s]
  /\ request'[s] = request[s]
  /\ next'[s] = next[s]
  /\ verdict'[s] = verdict[s]
  /\ accepted'[s] = accepted[s]
  /\ pending'[s] = pending[s]
  /\ answers'[s] = answers[s]

\* Whatever the handler of a stream does, it does for the request it was started
\* with and comes closer to the end of the stream: no call is repeated, the one
\* of sendResponse by sendResponse included, and no step of another handler, of
\* main() or of the signal handler sends it back. The stream is not free before
\* it is ended.
HandlersComeCloser ==
  [][\A s \in Streams : pc[s] \in Handling =>
       \/ Untouched(s)
       \/ /\ StepsLeft(s)' < StepsLeft(s)
          /\ request'[s] = request[s]
          /\ pc'[s] # "idle"]_vars

\* A handler that was started ends its stream, whatever the others do and
\* whether or not SIGTERM arrives meanwhile.
Answered == \A s \in Streams : pc[s] \in Handling ~> pc[s] = "ended"

\* The handlers, with their loops, early returns and second thoughts, answer
\* what the abstract service may answer, and answer.
ServiceSpec == Service!Spec

\* The log line of signalHandler, "Shutting down service. Waiting for pending
\* request": a process that got SIGTERM stops serving.
ShutsDown == sigterm ~> main # "serving"

===============================================================================
