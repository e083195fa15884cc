------------------------- MODULE ValidationServerProofs -----------------------
(***************************************************************************)
(* Invariants of ValidationServer, for any streams and any requests.       *)
(***************************************************************************)
EXTENDS ValidationServer, RuleProofs, SequenceTheorems

(***************************************************************************)
(* The list of changes of a request is a sequence.                         *)
(***************************************************************************)
LEMMA ChangesAreSequences ==
  ASSUME NEW r \in Requests \cup {NoRequest}
  PROVE  /\ r.changes \in Seq(Range(r.changes))
         /\ Len(r.changes) \in Nat
         /\ DOMAIN r.changes = 1..Len(r.changes)
<1>1. r.changes \in Seq(Range(r.changes))
  <2>1. CASE r \in Requests
    BY <2>1, RequestsAssumption
  <2>2. CASE r = NoRequest
    BY <2>2 DEF NoRequest
  <2> QED
    BY <2>1, <2>2
<1>2. Len(r.changes) \in Nat /\ DOMAIN r.changes = 1..Len(r.changes)
  BY <1>1, LenProperties
<1> QED
  BY <1>1, <1>2

(***************************************************************************)
(* Type correctness.                                                       *)
(***************************************************************************)
LEMMA TypeInit == Init => TypeOK
<1> SUFFICES ASSUME Init PROVE TypeOK
  OBVIOUS
<1>1. \A s \in Streams : next[s] \in 1..(Len(request[s].changes) + 1)
  BY LenProperties DEF Init, NoRequest
<1> QED
  BY <1>1 DEF Init, TypeOK, Handling

LEMMA TypeStep == TypeOK /\ [Next]_vars => TypeOK'
<1> SUFFICES ASSUME TypeOK, [Next]_vars PROVE TypeOK'
  OBVIOUS
<1> USE DEF TypeOK, Handling
<1>0. \A t \in Streams : Len(request[t].changes) \in Nat
  BY ChangesAreSequences
<1>1. CASE registerInterface
  BY <1>1 DEF registerInterface, locals
<1>2. CASE listenAndServe
  BY <1>2 DEF listenAndServe, locals
<1>3. CASE signalHandler
  BY <1>3 DEF signalHandler, locals
<1>4. ASSUME NEW s \in Streams, Receive(s)
      PROVE  TypeOK'
  <2>1. PICK r \in Requests : request' = [request EXCEPT ![s] = r]
    BY <1>4 DEF Receive
  <2>2. next[s] = 1 /\ Len(r.changes) \in Nat
    BY <1>4, <2>1, ChangesAreSequences DEF Receive, NoRequest
  <2>3. \A t \in Streams : next'[t] \in 1..(Len(request'[t].changes) + 1)
    BY <1>4, <2>1, <2>2 DEF Receive
  <2> QED
    BY <1>4, <2>1, <2>3 DEF Receive, process
<1>5. ASSUME NEW s \in Streams, Handler(s)
      PROVE  TypeOK'
  <2>1. CASE handleHttp2RequestHealthy(s)
    BY <2>1 DEF handleHttp2RequestHealthy, End, process
  <2>2. CASE checkInvalidRequest(s)
    BY <2>2 DEF checkInvalidRequest, End, process
  <2>3. CASE getValidationData(s)
    <3>1. /\ next' = next \/ next' = [next EXCEPT ![s] = 1]
          /\ request' = request
      BY <2>3 DEF getValidationData
    <3>2. \A t \in Streams : next'[t] \in 1..(Len(request'[t].changes) + 1)
      BY <1>0, <3>1
    <3>3. pc' = [pc EXCEPT ![s] = "sending"] \/ pc' = [pc EXCEPT ![s] = "applying"]
      BY <2>3 DEF getValidationData, Send
    <3>4. /\ DOMAIN verdict' = Streams
          /\ DOMAIN accepted' = Streams
          /\ DOMAIN pending' = Streams
          /\ UNCHANGED <<main, registry, sigterm, answers>>
      BY <2>3 DEF getValidationData, Send, process
    <3> QED
      BY <3>1, <3>2, <3>3, <3>4
  <2>4. CASE applyRule(s)
    <3>1. next' = [next EXCEPT ![s] = @ + 1] /\ request' = request
      BY <2>4 DEF applyRule
    <3>2. next[s] + 1 \in 1..(Len(request[s].changes) + 1)
      BY <2>4, ChangesAreSequences DEF applyRule
    <3>3. \A t \in Streams : next'[t] \in 1..(Len(request'[t].changes) + 1)
      BY <3>1, <3>2
    <3> QED
      BY <2>4, <3>1, <3>3 DEF applyRule, process
  <2>5. CASE handleHttp2Request(s)
    BY <2>5 DEF handleHttp2Request, Send, process
  <2>6. CASE sendResponse(s)
    BY <2>6 DEF sendResponse, End, process
  <2> QED
    BY <1>5, <2>1, <2>2, <2>3, <2>4, <2>5, <2>6 DEF Handler
<1>6. ASSUME NEW s \in Streams, Close(s)
      PROVE  TypeOK'
  <2>1. \A t \in Streams : next'[t] \in 1..(Len(request'[t].changes) + 1)
    BY <1>6 DEF Close, NoRequest
  <2> QED
    BY <1>6, <2>1 DEF Close, process
<1>7. CASE UNCHANGED vars
  BY <1>7 DEF vars
<1> QED
  BY <1>1, <1>2, <1>3, <1>4, <1>5, <1>6, <1>7 DEF Next

\* The variables of ValidationServer have the types of the code in every
\* behaviour.
THEOREM TypeCorrect == Spec => []TypeOK
<1>1. Init => TypeOK
  BY TypeInit
<1>2. TypeOK /\ [Next]_vars => TypeOK'
  BY TypeStep
<1> QED
  BY <1>1, <1>2, PTL DEF Spec

-------------------------------------------------------------------------------
(***************************************************************************)
(* main() registers the OpenAPI validator before it serves, and streams    *)
(* are opened only while it serves.                                        *)
(***************************************************************************)
RegistryInv ==
  /\ main \in {"registered", "serving", "failed"} => registry
  /\ \A s \in Streams : pc[s] # "idle" => registry

LEMMA RegistryStep == TypeOK /\ RegistryInv /\ [Next]_vars => RegistryInv'
<1> SUFFICES ASSUME TypeOK, RegistryInv, [Next]_vars PROVE RegistryInv'
  OBVIOUS
<1> USE DEF TypeOK, RegistryInv
<1>1. CASE registerInterface
  BY <1>1 DEF registerInterface, locals
<1>2. CASE listenAndServe
  BY <1>2 DEF listenAndServe, locals
<1>3. CASE signalHandler
  BY <1>3 DEF signalHandler, locals
<1>4. ASSUME NEW s \in Streams, Receive(s)
      PROVE  RegistryInv'
  BY <1>4 DEF Receive, process
<1>5. ASSUME NEW s \in Streams, Handler(s)
      PROVE  RegistryInv'
  <2>1. registry
    BY <1>5 DEF Handler, handleHttp2RequestHealthy, checkInvalidRequest,
                getValidationData, applyRule, handleHttp2Request, sendResponse
  <2>2. UNCHANGED <<main, registry>>
    BY <1>5 DEF Handler, handleHttp2RequestHealthy, checkInvalidRequest,
                getValidationData, applyRule, handleHttp2Request, sendResponse, process
  <2> QED
    BY <2>1, <2>2
<1>6. ASSUME NEW s \in Streams, Close(s)
      PROVE  RegistryInv'
  BY <1>6 DEF Close, process
<1>7. CASE UNCHANGED vars
  BY <1>7 DEF vars
<1> QED
  BY <1>1, <1>2, <1>3, <1>4, <1>5, <1>6, <1>7 DEF Next

\* No handler asks for the OpenAPI validator before main() has registered it.
THEOREM RegistryIsUsedRegistered == Spec => []RegistryBeforeUse
<1>1. Init => RegistryInv
  BY DEF Init, RegistryInv
<1>2. TypeOK /\ RegistryInv /\ [Next]_vars => RegistryInv'
  BY RegistryStep
<1>3. RegistryInv => RegistryBeforeUse
  BY DEF RegistryInv, RegistryBeforeUse
<1> QED
  BY <1>1, <1>2, <1>3, TypeCorrect, PTL DEF Spec

-------------------------------------------------------------------------------
(***************************************************************************)
(* A step of one stream does not touch the locals of another.              *)
(***************************************************************************)
LEMMA OthersUntouched ==
  ASSUME TypeOK, NEW t \in Streams, Receive(t) \/ Handler(t) \/ Close(t),
         NEW s \in Streams, s # t
  PROVE  Untouched(s)
<1> USE DEF TypeOK, Untouched
<1>1. CASE Receive(t)
  BY <1>1 DEF Receive
<1>2. CASE handleHttp2RequestHealthy(t)
  BY <1>2 DEF handleHttp2RequestHealthy, End
<1>3. CASE checkInvalidRequest(t)
  BY <1>3 DEF checkInvalidRequest, End
<1>4. CASE getValidationData(t)
  BY <1>4 DEF getValidationData, Send
<1>5. CASE applyRule(t)
  BY <1>5 DEF applyRule
<1>6. CASE handleHttp2Request(t)
  BY <1>6 DEF handleHttp2Request, Send
<1>7. CASE sendResponse(t)
  BY <1>7 DEF sendResponse, End
<1>8. CASE Close(t)
  BY <1>8 DEF Close
<1> QED
  BY <1>1, <1>2, <1>3, <1>4, <1>5, <1>6, <1>7, <1>8 DEF Handler

LEMMA ProcessUntouched ==
  ASSUME registerInterface \/ listenAndServe \/ signalHandler \/ UNCHANGED vars,
         NEW s \in Streams
  PROVE  Untouched(s)
  BY DEF registerInterface, listenAndServe, signalHandler, vars, locals, Untouched

-------------------------------------------------------------------------------
(***************************************************************************)
(* The loop of applyValidationRules.                                       *)
(***************************************************************************)
LEMMA AppendNext ==
  ASSUME NEW k \in Nat, NEW g
  PROVE  Append([i \in 1..k |-> g[i]], g[k + 1]) = [i \in 1..(k + 1) |-> g[i]]
<1> DEFINE S == {g[i] : i \in 1..(k + 1)}
           short == [i \in 1..k |-> g[i]]
           long == [i \in 1..(k + 1) |-> g[i]]
<1>1. short \in Seq(S) /\ Len(short) = k /\ long \in Seq(S) /\ Len(long) = k + 1
  OBVIOUS
<1>2. g[k + 1] \in S
  OBVIOUS
<1>3. /\ Append(short, g[k + 1]) \in Seq(S)
      /\ Len(Append(short, g[k + 1])) = k + 1
      /\ \A i \in 1..(k + 1) : Append(short, g[k + 1])[i] = long[i]
  BY <1>1, <1>2, AppendProperties
<1> QED
  BY <1>1, <1>3, SeqEqual

LEMMA LoopUntouched ==
  ASSUME NEW s \in Streams, LoopInv(s), Untouched(s)
  PROVE  LoopInv(s)'
  BY DEF LoopInv, Untouched, Checked

LEMMA LoopStart ==
  ASSUME TypeOK, NEW s \in Streams, getValidationData(s), request[s].uri = "/"
  PROVE  LoopInv(s)'
<1>1. CASE pc'[s] # "applying"
  BY <1>1 DEF LoopInv
<1>2. CASE pc'[s] = "applying"
  <2>1. /\ request[s].format = "ok" /\ request[s].errors = {}
        /\ next'[s] = 1 /\ verdict'[s] = Success /\ accepted'[s] = <<>>
        /\ request'[s] = request[s]
    BY <1>2 DEF getValidationData, Send, TypeOK
  <2>2. 1..(next'[s] - 1) = {} /\ 0..(next'[s] - 1) = {0}
    BY <2>1
  <2>3. accepted'[s] = [i \in 1..0 |-> computeMutations(request'[s].changes[i])]
    BY <2>1
  <2>4. \E k \in 0..(next'[s] - 1) :
          /\ accepted'[s] = [i \in 1..k |-> computeMutations(request'[s].changes[i])]
          /\ \A i \in 1..k : Checked(s, i)'.valid
          /\ k < next'[s] - 1 => ~Checked(s, k + 1)'.valid
    BY <2>1, <2>2, <2>3
  <2>5. Consistent(verdict'[s]) /\ verdict'[s].valid /\ verdict'[s].code = HTTP_OK
        /\ verdict'[s].errors = {}
    BY <2>1, SuccessConsistent DEF Success
  <2> QED
    BY <1>2, <2>1, <2>2, <2>4, <2>5 DEF LoopInv
<1> QED
  BY <1>1, <1>2

LEMMA LoopTurn ==
  ASSUME TypeOK, NEW s \in Streams, applyRule(s), LoopInv(s)
  PROVE  LoopInv(s)'
<1> DEFINE r == request[s]
           n == next[s]
           o == Checked(s, n)
           now == WorstOf(verdict[s], o)
           Mut(i) == computeMutations(r.changes[i])
<1>1. /\ pc[s] = "applying" /\ pc'[s] = "applying"
      /\ r.uri = "/" /\ r.format = "ok" /\ r.errors = {}
      /\ request'[s] = r /\ next'[s] = n + 1 /\ verdict'[s] = now
      /\ accepted'[s] = IF now.valid THEN Append(accepted[s], Mut(n)) ELSE accepted[s]
  BY DEF applyRule, TypeOK, LoopInv, Checked
<1>2. n \in Nat /\ n >= 1 /\ next'[s] - 1 = n
  BY <1>1 DEF TypeOK
<1>3. 1..n = 1..(n - 1) \cup {n}
  BY <1>2
<1>4. Consistent(o)
  BY CheckChangeConsistent DEF Checked
<1>5. Consistent(verdict[s])
  BY <1>1 DEF LoopInv
<1>6. /\ Consistent(now)
      /\ now.valid <=> verdict[s].valid /\ o.valid
      /\ now.code \in {verdict[s].code, o.code}
      /\ verdict[s].code <= now.code
      /\ o.code <= now.code
      /\ now.errors = verdict[s].errors \cup o.errors
  BY <1>4, <1>5, WorstOfConsistent
<1>7. \A i \in 1..n : Checked(s, i)' = Checked(s, i)
  BY <1>1 DEF Checked
<1>8. now.valid <=> \A i \in 1..n : Checked(s, i).valid
  BY <1>1, <1>3, <1>6 DEF LoopInv
<1>9. now.code \in {HTTP_OK} \cup {Checked(s, i).code : i \in 1..n}
  <2>1. verdict[s].code \in {HTTP_OK} \cup {Checked(s, i).code : i \in 1..(n - 1)}
    BY <1>1 DEF LoopInv
  <2> QED
    BY <1>3, <1>6, <2>1
<1>10. \A i \in 1..n : Checked(s, i).code <= now.code
  <2> SUFFICES ASSUME NEW i \in 1..n PROVE Checked(s, i).code <= now.code
    OBVIOUS
  <2>1. CASE i = n
    BY <1>6, <2>1
  <2>2. CASE i \in 1..(n - 1)
    <3>1. Checked(s, i).code <= verdict[s].code
      BY <1>1, <2>2 DEF LoopInv
    <3>2. Consistent(Checked(s, i))
      BY CheckChangeConsistent DEF Checked
    <3>3. /\ Checked(s, i).code \in Int /\ verdict[s].code \in Int /\ now.code \in Int
      BY <1>5, <1>6, <3>2
      DEF Consistent, RuleCodes, HTTP_OK, HTTP_CONFLICT, HTTP_UNPROCESSABLE_ENTITY
    <3> HIDE DEF now
    <3> QED
      BY <1>6, <3>1, <3>3
  <2> QED
    BY <1>3, <2>1, <2>2
<1>11. now.errors = UNION {Checked(s, i).errors : i \in 1..n}
  <2>1. verdict[s].errors = UNION {Checked(s, i).errors : i \in 1..(n - 1)}
    BY <1>1 DEF LoopInv
  <2> QED
    BY <1>3, <1>6, <2>1
<1>12. \E k \in 0..n :
         /\ accepted'[s] = [i \in 1..k |-> Mut(i)]
         /\ \A i \in 1..k : Checked(s, i).valid
         /\ k < n => ~Checked(s, k + 1).valid
  <2>1. PICK k \in 0..(n - 1) :
          /\ accepted[s] = [i \in 1..k |-> Mut(i)]
          /\ \A i \in 1..k : Checked(s, i).valid
          /\ k < n - 1 => ~Checked(s, k + 1).valid
    BY <1>1 DEF LoopInv
  <2>2. CASE now.valid
    <3>1. k = n - 1
      <4>1. ASSUME k < n - 1 PROVE FALSE
        <5>1. k + 1 \in 1..n
          BY <1>2
        <5> QED
          BY <1>8, <2>1, <2>2, <4>1, <5>1
      <4> QED
        BY <1>2, <4>1
    <3>2. Append([i \in 1..k |-> Mut(i)], Mut(k + 1)) = [i \in 1..(k + 1) |-> Mut(i)]
      <4> DEFINE g == [i \in 1..n |-> Mut(i)]
      <4>1. Append([i \in 1..k |-> g[i]], g[k + 1]) = [i \in 1..(k + 1) |-> g[i]]
        <5> HIDE DEF g
        <5> QED
          BY <1>2, <3>1, AppendNext
      <4>2. /\ [i \in 1..k |-> g[i]] = [i \in 1..k |-> Mut(i)]
            /\ [i \in 1..(k + 1) |-> g[i]] = [i \in 1..(k + 1) |-> Mut(i)]
            /\ g[k + 1] = Mut(k + 1)
        <5> HIDE DEF Mut
        <5> QED
          BY <1>2, <3>1
      <4> HIDE DEF g, Mut
      <4> QED
        BY <4>1, <4>2
    <3>3. k + 1 = n
      BY <1>2, <3>1
    <3>4. accepted'[s] = [i \in 1..n |-> Mut(i)]
      BY <1>1, <2>1, <2>2, <3>2, <3>3
    <3> QED
      BY <1>2, <1>8, <2>2, <3>4
  <2>3. CASE ~now.valid
    <3>1. accepted'[s] = accepted[s]
      BY <1>1, <2>3
    <3>2. CASE k < n - 1
      BY <1>2, <2>1, <3>1, <3>2
    <3>3. CASE k = n - 1
      <4>1. ~o.valid
        <5>1. verdict[s].valid
          BY <1>1, <2>1, <3>3 DEF LoopInv
        <5> QED
          BY <1>6, <2>3, <5>1
      <4>2. k + 1 = n
        BY <1>2, <3>3
      <4> QED
        BY <1>2, <2>1, <3>1, <4>1, <4>2
    <3>4. k < n - 1 \/ k = n - 1
      BY <1>2
    <3> QED
      BY <3>2, <3>3, <3>4, Zenon
  <2> QED
    BY <2>2, <2>3
<1> HIDE DEF now
<1>13. /\ verdict'[s].valid <=> \A i \in 1..n : Checked(s, i)'.valid
       /\ verdict'[s].code \in {HTTP_OK} \cup {Checked(s, i)'.code : i \in 1..n}
       /\ \A i \in 1..n : Checked(s, i)'.code <= verdict'[s].code
       /\ verdict'[s].errors = UNION {Checked(s, i)'.errors : i \in 1..n}
  BY <1>1, <1>7, <1>8, <1>9, <1>10, <1>11
<1>14. \E k \in 0..n :
         /\ accepted'[s] = [i \in 1..k |-> computeMutations(request'[s].changes[i])]
         /\ \A i \in 1..k : Checked(s, i)'.valid
         /\ k < n => ~Checked(s, k + 1)'.valid
  <2>1. PICK k \in 0..n :
          /\ accepted'[s] = [i \in 1..k |-> Mut(i)]
          /\ \A i \in 1..k : Checked(s, i).valid
          /\ k < n => ~Checked(s, k + 1).valid
    BY <1>12
  <2>2. \A i \in 1..k : Checked(s, i)'.valid
    BY <1>2, <1>7, <2>1
  <2>3. k < n => ~Checked(s, k + 1)'.valid
    BY <1>2, <1>7, <2>1
  <2> QED
    BY <1>1, <2>1, <2>2, <2>3
<1> QED
  BY <1>1, <1>2, <1>6, <1>13, <1>14 DEF LoopInv

LEMMA LoopOther ==
  ASSUME TypeOK, NEW s \in Streams, pc'[s] # "applying"
  PROVE  LoopInv(s)'
  BY DEF LoopInv

LEMMA LoopLeft ==
  ASSUME TypeOK, NEW s \in Streams,
         \/ Receive(s)
         \/ handleHttp2RequestHealthy(s)
         \/ checkInvalidRequest(s)
         \/ handleHttp2Request(s)
         \/ sendResponse(s)
         \/ Close(s)
  PROVE  pc'[s] # "applying"
  BY DEF TypeOK, Receive, handleHttp2RequestHealthy, checkInvalidRequest,
         handleHttp2Request, sendResponse, Close, End, Send

-------------------------------------------------------------------------------
(***************************************************************************)
(* What a stream is answered.                                              *)
(***************************************************************************)
LEMMA AnswerUntouched ==
  ASSUME NEW s \in Streams, AnswerInv(s), Untouched(s)
  PROVE  AnswerInv(s)'
  BY DEF AnswerInv, Untouched

(***************************************************************************)
(* The largest code is the only one there is to choose.                    *)
(***************************************************************************)
LEMMA WorstCodeIs ==
  ASSUME NEW changes, NEW related, NEW code,
         code \in {HTTP_OK} \cup {CheckChange(changes[i], related).code : i \in DOMAIN changes},
         HTTP_OK <= code,
         \A i \in DOMAIN changes : CheckChange(changes[i], related).code <= code
  PROVE  WorstCodeOf(changes, related) = code
<1> DEFINE codes == {HTTP_OK} \cup {CheckChange(changes[i], related).code : i \in DOMAIN changes}
<1>1. \A c \in codes : c \in Int
  <2>1. \A i \in DOMAIN changes : CheckChange(changes[i], related).code \in Int
    BY CheckChangeConsistent
    DEF Consistent, RuleCodes, HTTP_OK, HTTP_CONFLICT, HTTP_UNPROCESSABLE_ENTITY
  <2> QED
    BY <2>1 DEF HTTP_OK
<1>2. code \in codes /\ \A c \in codes : c <= code
  OBVIOUS
<1> HIDE DEF codes
<1>3. \A c \in codes : (\A other \in codes : other <= c) => c = code
  <2> SUFFICES ASSUME NEW c \in codes, \A other \in codes : other <= c
               PROVE  c = code
    OBVIOUS
  <2>1. c \in Int /\ code \in Int /\ c <= code /\ code <= c
    BY <1>1, <1>2
  <2> QED
    BY <2>1
<1>4. (CHOOSE c \in codes : \A other \in codes : other <= c) = code
  BY <1>2, <1>3
<1> QED
  BY <1>4 DEF WorstCodeOf, codes

(***************************************************************************)
(* At the end of the loop, what is sent is the verdict of the abstract     *)
(* service.                                                                *)
(***************************************************************************)
LEMMA LoopEnd ==
  ASSUME TypeOK, NEW s \in Streams, handleHttp2Request(s), LoopInv(s)
  PROVE  /\ pending'[s] = Verdict(request[s])
         /\ Verdict(request[s]) \in MayAnswer(request[s])
         /\ request[s].uri = "/"
<1> DEFINE r == request[s]
           len == Len(r.changes)
           v == verdict[s]
<1>1. /\ pc[s] = "applying" /\ next[s] > len
      /\ pending'[s] = validatorResponseToJson(IF v.valid THEN HTTP_OK ELSE v.code,
                                               accepted[s], v.errors)
      /\ r \in Requests \cup {NoRequest}
  BY DEF handleHttp2Request, Send, TypeOK
<1>2. len \in Nat /\ DOMAIN r.changes = 1..len /\ next[s] - 1 = len
  <2>1. len \in Nat /\ DOMAIN r.changes = 1..len
    BY <1>1, ChangesAreSequences
  <2>2. next[s] \in Nat /\ next[s] <= len + 1
    BY <2>1 DEF TypeOK
  <2> QED
    BY <1>1, <2>1, <2>2
<1>3. \A i \in 1..len : Checked(s, i) = CheckChange(r.changes[i], r.related)
  BY DEF Checked
<1>4. /\ r.uri = "/" /\ r.format = "ok" /\ r.errors = {}
      /\ Consistent(v)
      /\ v.valid <=> AllPass(r.changes, r.related)
  BY <1>1, <1>2, <1>3 DEF LoopInv, AllPass
<1>5. v.errors = ErrorsOf(r.changes, r.related)
  <2>1. v.errors = UNION {Checked(s, i).errors : i \in 1..len}
    BY <1>1, <1>2 DEF LoopInv
  <2> QED
    BY <1>2, <2>1 DEF ErrorsOf, Checked
<1>6. v.code = WorstCodeOf(r.changes, r.related)
  <2>1. /\ v.code \in {HTTP_OK} \cup {Checked(s, i).code : i \in 1..len}
        /\ \A i \in 1..len : Checked(s, i).code <= v.code
    BY <1>1, <1>2 DEF LoopInv
  <2>2. HTTP_OK <= v.code
    BY <1>4 DEF Consistent, RuleCodes, HTTP_OK, HTTP_CONFLICT, HTTP_UNPROCESSABLE_ENTITY
  <2>3. v.code \in {HTTP_OK} \cup {CheckChange(r.changes[i], r.related).code : i \in DOMAIN r.changes}
    BY <1>2, <2>1 DEF Checked
  <2>4. \A i \in DOMAIN r.changes : CheckChange(r.changes[i], r.related).code <= v.code
    BY <1>2, <2>1 DEF Checked
  <2> HIDE DEF r, v
  <2> QED
    BY <2>2, <2>3, <2>4, WorstCodeIs
<1>7. v.valid => accepted[s] = Mutated(r.changes)
  <2> SUFFICES ASSUME v.valid PROVE accepted[s] = Mutated(r.changes)
    OBVIOUS
  <2>0. \E k \in 0..(next[s] - 1) :
          /\ accepted[s] = [i \in 1..k |-> computeMutations(request[s].changes[i])]
          /\ \A i \in 1..k : Checked(s, i).valid
          /\ k < next[s] - 1 => ~Checked(s, k + 1).valid
    BY <1>1, Zenon DEF LoopInv
  <2>1. PICK k \in 0..len :
          /\ accepted[s] = [i \in 1..k |-> computeMutations(r.changes[i])]
          /\ k < len => ~Checked(s, k + 1).valid
    BY <1>2, <2>0
  <2>2. k = len
    <3>1. ASSUME k < len PROVE FALSE
      <4>1. k + 1 \in 1..len
        BY <1>2, <3>1
      <4>2. Checked(s, k + 1).valid
        BY <1>1, <1>2, <4>1 DEF LoopInv
      <4> QED
        BY <2>1, <3>1, <4>2
    <3> QED
      BY <1>2, <3>1
  <2> QED
    BY <1>2, <2>1, <2>2 DEF Mutated
<1>8. v.valid <=> v.errors = {}
  BY <1>4 DEF Consistent
<1>9. pending'[s] = Verdict(r)
  <2>1. CASE v.valid
    BY <1>1, <1>4, <1>7, <1>8, <2>1
    DEF validatorResponseToJson, Verdict, Answer
  <2>2. CASE ~v.valid
    BY <1>1, <1>4, <1>5, <1>6, <1>8, <2>2
    DEF validatorResponseToJson, Verdict, Answer
  <2> QED
    BY <2>1, <2>2
<1>10. Verdict(r) \in MayAnswer(r)
  BY <1>4 DEF MayAnswer
<1> QED
  BY <1>4, <1>9, <1>10

LEMMA AnswerReceived ==
  ASSUME TypeOK, NEW s \in Streams, Receive(s), AnswerInv(s)
  PROVE  AnswerInv(s)'
<1>1. PICK r \in Requests :
        /\ request' = [request EXCEPT ![s] = r]
        /\ pc' = [pc EXCEPT ![s] = IF r.uri = "/healthz" THEN "healthy" ELSE "received"]
  BY DEF Receive
<1>2. r.uri \in {"/", "/healthz"}
  BY RequestsAssumption
<1>3. request'[s] = r /\ answers'[s] = <<>>
  BY <1>1 DEF Receive, TypeOK, AnswerInv
<1> QED
  BY <1>1, <1>2, <1>3 DEF TypeOK, AnswerInv

LEMMA AnswerHealthy ==
  ASSUME TypeOK, NEW s \in Streams, handleHttp2RequestHealthy(s), AnswerInv(s)
  PROVE  AnswerInv(s)'
<1>1. /\ pc'[s] = "ended" /\ request'[s] = request[s]
      /\ request[s].uri = "/healthz"
      /\ answers[s] = <<>> /\ answers'[s] = Append(<<>>, Healthy)
  BY DEF handleHttp2RequestHealthy, End, TypeOK, AnswerInv
<1>2. answers'[s] = <<Healthy>>
  BY <1>1
<1>3. Healthy \in MayAnswer(request[s])
  BY <1>1 DEF MayAnswer, Answer, Healthy
<1> QED
  BY <1>1, <1>2, <1>3 DEF AnswerInv

LEMMA AnswerInvalid ==
  ASSUME TypeOK, NEW s \in Streams, checkInvalidRequest(s), AnswerInv(s)
  PROVE  AnswerInv(s)'
<1>1. request'[s] = request[s] /\ request[s].uri = "/" /\ answers[s] = <<>>
  BY DEF checkInvalidRequest, TypeOK, AnswerInv
<1>2. CASE pc'[s] = "valid" /\ answers' = answers
  BY <1>1, <1>2 DEF AnswerInv
<1>3. CASE End(s, errorResponseToJson(HTTP_BAD_REQUEST, "malformed request"))
  <2> DEFINE a == errorResponseToJson(HTTP_BAD_REQUEST, "malformed request")
  <2>1. pc'[s] = "ended" /\ answers'[s] = Append(<<>>, a)
    BY <1>1, <1>3 DEF End, TypeOK
  <2>2. a \in MayAnswer(request[s])
    BY <1>1 DEF MayAnswer, Answer, errorResponseToJson
  <2> HIDE DEF a
  <2>3. answers'[s] = <<a>>
    BY <2>1
  <2> QED
    BY <1>1, <2>1, <2>2, <2>3 DEF AnswerInv
<1> QED
  BY <1>2, <1>3 DEF checkInvalidRequest, TypeOK

LEMMA AnswerRead ==
  ASSUME TypeOK, NEW s \in Streams, getValidationData(s), AnswerInv(s)
  PROVE  AnswerInv(s)'
<1>1. /\ request'[s] = request[s] /\ request[s].uri = "/"
      /\ answers'[s] = <<>>
  BY DEF getValidationData, TypeOK, AnswerInv
<1>2. CASE Send(s, errorResponseToJson(HTTP_BAD_REQUEST, "malformed request"))
  BY <1>1, <1>2 DEF Send, TypeOK, AnswerInv, MayAnswer, Answer, errorResponseToJson
<1>3. CASE /\ request[s].errors # {}
           /\ Send(s, validatorResponseToJson(HTTP_CONFLICT, <<>>, request[s].errors))
  BY <1>1, <1>3 DEF Send, TypeOK, AnswerInv, MayAnswer, Answer, validatorResponseToJson
<1>4. CASE pc'[s] = "applying"
  BY <1>1, <1>4 DEF AnswerInv
<1> QED
  BY <1>2, <1>3, <1>4 DEF getValidationData, TypeOK

LEMMA AnswerTurn ==
  ASSUME TypeOK, NEW s \in Streams, applyRule(s), AnswerInv(s)
  PROVE  AnswerInv(s)'
  BY DEF applyRule, TypeOK, AnswerInv

LEMMA AnswerLoopEnd ==
  ASSUME TypeOK, NEW s \in Streams, handleHttp2Request(s), LoopInv(s), AnswerInv(s)
  PROVE  AnswerInv(s)'
<1>1. /\ pc'[s] = "sending" /\ request'[s] = request[s] /\ answers'[s] = <<>>
  BY DEF handleHttp2Request, Send, TypeOK, AnswerInv
<1>2. request[s].uri = "/" /\ pending'[s] \in MayAnswer(request[s])
  BY LoopEnd
<1> QED
  BY <1>1, <1>2 DEF AnswerInv

LEMMA AnswerSent ==
  ASSUME TypeOK, NEW s \in Streams, sendResponse(s), AnswerInv(s)
  PROVE  AnswerInv(s)'
<1> DEFINE broken == errorResponseToJson(HTTP_INTERNAL_SERVER_ERROR, "malformed response")
<1>1. /\ pc'[s] = "ended" /\ request'[s] = request[s] /\ request[s].uri = "/"
      /\ pending[s] \in MayAnswer(request[s])
      /\ \/ answers'[s] = Append(<<>>, pending[s])
         \/ answers'[s] = Append(<<>>, broken)
  BY DEF sendResponse, End, TypeOK, AnswerInv
<1>2. broken \in MayAnswer(request[s])
  BY <1>1 DEF MayAnswer, Answer, errorResponseToJson
<1> HIDE DEF broken
<1>3. answers'[s] = <<pending[s]>> \/ answers'[s] = <<broken>>
  BY <1>1
<1> QED
  BY <1>1, <1>2, <1>3 DEF AnswerInv

LEMMA AnswerClosed ==
  ASSUME TypeOK, NEW s \in Streams, Close(s)
  PROVE  AnswerInv(s)'
  BY DEF Close, TypeOK, AnswerInv

-------------------------------------------------------------------------------
(***************************************************************************)
(* Both invariants together are inductive: where the loop starts is what   *)
(* the second one says, and what is sent at its end is what the first does. *)
(***************************************************************************)
LEMMA StreamStep ==
  ASSUME TypeOK, NEW s \in Streams, LoopInv(s), AnswerInv(s),
         Receive(s) \/ Handler(s) \/ Close(s)
  PROVE  LoopInv(s)' /\ AnswerInv(s)'
<1>1. CASE Receive(s)
  BY <1>1, LoopLeft, LoopOther, AnswerReceived
<1>2. CASE handleHttp2RequestHealthy(s)
  BY <1>2, LoopLeft, LoopOther, AnswerHealthy
<1>3. CASE checkInvalidRequest(s)
  BY <1>3, LoopLeft, LoopOther, AnswerInvalid
<1>4. CASE getValidationData(s)
  <2>1. request[s].uri = "/"
    BY <1>4 DEF getValidationData, AnswerInv
  <2> QED
    BY <1>4, <2>1, LoopStart, AnswerRead
<1>5. CASE applyRule(s)
  BY <1>5, LoopTurn, AnswerTurn
<1>6. CASE handleHttp2Request(s)
  BY <1>6, LoopLeft, LoopOther, AnswerLoopEnd
<1>7. CASE sendResponse(s)
  BY <1>7, LoopLeft, LoopOther, AnswerSent
<1>8. CASE Close(s)
  BY <1>8, LoopLeft, LoopOther, AnswerClosed
<1> QED
  BY <1>1, <1>2, <1>3, <1>4, <1>5, <1>6, <1>7, <1>8 DEF Handler

LEMMA LoopAndAnswerStep ==
  TypeOK /\ LoopInvariant /\ AnswerInvariant /\ [Next]_vars
    => LoopInvariant' /\ AnswerInvariant'
<1> SUFFICES ASSUME TypeOK, LoopInvariant, AnswerInvariant, [Next]_vars, NEW s \in Streams
             PROVE  LoopInv(s)' /\ AnswerInv(s)'
  BY DEF LoopInvariant, AnswerInvariant
<1>1. LoopInv(s) /\ AnswerInv(s)
  BY DEF LoopInvariant, AnswerInvariant
<1>2. CASE registerInterface \/ listenAndServe \/ signalHandler \/ UNCHANGED vars
  BY <1>1, <1>2, ProcessUntouched, LoopUntouched, AnswerUntouched
<1>3. ASSUME NEW t \in Streams, Receive(t) \/ Handler(t) \/ Close(t)
      PROVE  LoopInv(s)' /\ AnswerInv(s)'
  <2>1. CASE s = t
    BY <1>1, <1>3, <2>1, StreamStep
  <2>2. CASE s # t
    BY <1>1, <1>3, <2>2, OthersUntouched, LoopUntouched, AnswerUntouched
  <2> QED
    BY <2>1, <2>2
<1> QED
  BY <1>2, <1>3 DEF Next

LEMMA LoopAndAnswer == Spec => [](LoopInvariant /\ AnswerInvariant)
<1>1. Init => LoopInvariant /\ AnswerInvariant
  BY DEF Init, LoopInvariant, LoopInv, AnswerInvariant, AnswerInv
<1>2. TypeOK /\ LoopInvariant /\ AnswerInvariant /\ [Next]_vars
        => LoopInvariant' /\ AnswerInvariant'
  BY LoopAndAnswerStep
<1> QED
  BY <1>1, <1>2, TypeCorrect, PTL DEF Spec

\* At any turn of the loop of applyValidationRules the verdict, the code, the
\* errors and the accepted changes are those of the changes looked at so far.
THEOREM LoopCorrect == Spec => []LoopInvariant
  BY LoopAndAnswer, PTL

\* A stream is ended once, and by an answer its request may get.
THEOREM AnswersAreAllowed == Spec => []AnswerInvariant
  BY LoopAndAnswer, PTL

-------------------------------------------------------------------------------
(***************************************************************************)
(* What the answers that are allowed say of a request.                     *)
(***************************************************************************)
LEMMA AnswerFields ==
  ASSUME NEW code, NEW changes, NEW errors
  PROVE  /\ Answer(code, changes, errors).code = code
         /\ Answer(code, changes, errors).changes = changes
         /\ Answer(code, changes, errors).errors = errors
  BY DEF Answer

LEMMA MayAnswerCases ==
  ASSUME NEW r, NEW a \in MayAnswer(r)
  PROVE  \/ r.uri = "/healthz" /\ a.code = 200
         \/ a.code \in {400, 500} /\ a.changes = <<>> /\ a.errors # {}
         \/ a.code = 409 /\ a.changes = <<>> /\ r.errors # {} /\ a.errors = r.errors
         \/ r.errors = {} /\ a = Verdict(r)
<1> DEFINE request400 == {"malformed request"}
           response500 == {"malformed response"}
<1>0. request400 # {} /\ response500 # {}
  OBVIOUS
<1>1. CASE r.uri = "/healthz"
  BY <1>1, AnswerFields DEF MayAnswer, HTTP_OK
<1>2. CASE a = Answer(HTTP_BAD_REQUEST, <<>>, request400)
  <2> HIDE DEF request400
  <2> QED
    BY <1>0, <1>2, AnswerFields DEF HTTP_BAD_REQUEST
<1>3. CASE a = Answer(HTTP_INTERNAL_SERVER_ERROR, <<>>, response500)
  <2> HIDE DEF response500
  <2> QED
    BY <1>0, <1>3, AnswerFields DEF HTTP_INTERNAL_SERVER_ERROR
<1>4. CASE r.errors # {} /\ a = Answer(HTTP_CONFLICT, <<>>, r.errors)
  BY <1>4, AnswerFields DEF HTTP_CONFLICT
<1>5. CASE r.errors = {} /\ a = Verdict(r)
  BY <1>5
<1> QED
  BY <1>1, <1>2, <1>3, <1>4, <1>5 DEF MayAnswer

LEMMA VerdictCases ==
  ASSUME NEW r
  PROVE  \/ /\ AllPass(r.changes, r.related)
            /\ Verdict(r) = Answer(HTTP_OK, Mutated(r.changes), {})
         \/ /\ Verdict(r).code = WorstCodeOf(r.changes, r.related)
            /\ Verdict(r).code \in {409, 422}
            /\ Verdict(r).changes = <<>>
            /\ Verdict(r).errors # {}
<1> SUFFICES ASSUME ~AllPass(r.changes, r.related)
             PROVE  /\ Verdict(r).code = WorstCodeOf(r.changes, r.related)
                    /\ Verdict(r).code \in {409, 422}
                    /\ Verdict(r).changes = <<>>
                    /\ Verdict(r).errors # {}
  BY DEF Verdict
<1>1. PICK i \in DOMAIN r.changes : ~CheckChange(r.changes[i], r.related).valid
  BY DEF AllPass
<1> DEFINE o == CheckChange(r.changes[i], r.related)
<1>2. o.code # 200 /\ o.errors # {}
  BY <1>1, CheckChangeConsistent DEF Consistent, HTTP_OK
<1>3. ErrorsOf(r.changes, r.related) # {}
  BY <1>2 DEF ErrorsOf
<1>4. WorstCodeOf(r.changes, r.related) \in {409, 422}
  <2>1. /\ o.code \in {200, 409, 422}
        /\ o.code <= WorstCodeOf(r.changes, r.related)
        /\ WorstCodeOf(r.changes, r.related) \in {200, 409, 422}
    BY CodesOfChanges
  <2> HIDE DEF o
  <2> QED
    BY <1>2, <2>1
<1>5. Verdict(r) = Answer(WorstCodeOf(r.changes, r.related), <<>>,
                          ErrorsOf(r.changes, r.related))
  BY DEF Verdict
<1> QED
  BY <1>3, <1>4, <1>5, AnswerFields

LEMMA OkAnswers ==
  ASSUME NEW r, r.uri = "/", NEW a \in MayAnswer(r), a.code = HTTP_OK
  PROVE  /\ r.errors = {}
         /\ AllPass(r.changes, r.related)
         /\ a.changes = Mutated(r.changes)
<1>1. a = Verdict(r) /\ r.errors = {}
  BY MayAnswerCases DEF HTTP_OK
<1> QED
  BY <1>1, VerdictCases, AnswerFields DEF HTTP_OK

LEMMA FailingAnswers ==
  ASSUME NEW r, NEW a \in MayAnswer(r), a.code # HTTP_OK
  PROVE  a.changes = <<>> /\ a.errors # {}
<1>1. CASE a = Verdict(r)
  BY <1>1, VerdictCases, AnswerFields
<1> QED
  BY <1>1, MayAnswerCases DEF HTTP_OK

LEMMA ConflictAnswers ==
  ASSUME NEW r, NEW a \in MayAnswer(r), a.code = HTTP_CONFLICT, r.errors = {},
         NEW i \in DOMAIN r.changes
  PROVE  CheckChange(r.changes[i], r.related).code # HTTP_UNPROCESSABLE_ENTITY
<1>1. a = Verdict(r)
  BY MayAnswerCases DEF HTTP_CONFLICT
<1>2. CASE AllPass(r.changes, r.related)
  BY <1>2, CheckChangeConsistent
  DEF AllPass, Consistent, HTTP_OK, HTTP_UNPROCESSABLE_ENTITY
<1>3. CASE WorstCodeOf(r.changes, r.related) = 409
  <2>1. /\ CheckChange(r.changes[i], r.related).code \in {200, 409, 422}
        /\ CheckChange(r.changes[i], r.related).code <= WorstCodeOf(r.changes, r.related)
    BY CodesOfChanges
  <2> QED
    BY <1>3, <2>1 DEF HTTP_UNPROCESSABLE_ENTITY
<1> QED
  BY <1>1, <1>2, <1>3, VerdictCases DEF HTTP_CONFLICT

LEMMA OneAnswer ==
  ASSUME AnswerInvariant, NEW s \in Streams, NEW a \in Range(answers[s])
  PROVE  a \in MayAnswer(request[s])
<1>1. AnswerInv(s)
  BY DEF AnswerInvariant
<1>2. CASE answers[s] = <<>>
  BY <1>2 DEF Range
<1>3. CASE \E b \in MayAnswer(request[s]) : answers[s] = <<b>>
  BY <1>3 DEF Range
<1> QED
  BY <1>1, <1>2, <1>3 DEF AnswerInv

\* An answer of 200 means that every change passed, and hands back all of
\* them, mutated, in their order.
THEOREM AcceptedTogetherAlways == Spec => []AcceptedTogether
<1>1. AnswerInvariant => AcceptedTogether
  BY OneAnswer, OkAnswers DEF AcceptedTogether
<1> QED
  BY <1>1, AnswersAreAllowed, PTL

\* An answer that is no 200 has an error and gives away no change.
THEOREM NothingIsAcceptedOnFailure == Spec => []NothingAcceptedOnFailure
<1>1. AnswerInvariant => NothingAcceptedOnFailure
  BY OneAnswer, FailingAnswers DEF NothingAcceptedOnFailure
<1> QED
  BY <1>1, AnswersAreAllowed, PTL

\* 422 has preference over 409 in whatever order the changes are looked at.
THEOREM UnprocessableIsFirst == Spec => []UnprocessableFirst
<1>1. AnswerInvariant => UnprocessableFirst
  BY OneAnswer, ConflictAnswers DEF UnprocessableFirst
<1> QED
  BY <1>1, AnswersAreAllowed, PTL

-------------------------------------------------------------------------------
(***************************************************************************)
(* The verdict on a list of changes depends on which they are, and not on  *)
(* their order.                                                            *)
(***************************************************************************)
LEMMA SameChangesSameVerdict ==
  ASSUME NEW list, NEW other, Range(list) = Range(other), NEW related
  PROVE  /\ AllPass(list, related) <=> AllPass(other, related)
         /\ WorstCodeOf(list, related) = WorstCodeOf(other, related)
         /\ ErrorsOf(list, related) = ErrorsOf(other, related)
<1>1. \A changes : AllPass(changes, related) <=>
        \A c \in Range(changes) : CheckChange(c, related).valid
  BY DEF AllPass, Range
<1>2. \A changes :
        /\ {CheckChange(changes[i], related).code : i \in DOMAIN changes}
             = {CheckChange(c, related).code : c \in Range(changes)}
        /\ {CheckChange(changes[i], related).errors : i \in DOMAIN changes}
             = {CheckChange(c, related).errors : c \in Range(changes)}
  BY DEF Range
<1>3. AllPass(list, related) <=> AllPass(other, related)
  BY <1>1
<1>4. WorstCodeOf(list, related) = WorstCodeOf(other, related)
  <2> DEFINE Codes(changes) ==
               {HTTP_OK} \cup {CheckChange(changes[i], related).code : i \in DOMAIN changes}
             WorstOne(codes) == CHOOSE code \in codes : \A o \in codes : o <= code
  <2>1. Codes(list) = Codes(other)
    BY <1>2
  <2>2. /\ WorstCodeOf(list, related) = WorstOne(Codes(list))
        /\ WorstCodeOf(other, related) = WorstOne(Codes(other))
    BY DEF WorstCodeOf
  <2> HIDE DEF Codes, WorstOne
  <2> QED
    BY <2>1, <2>2
<1>5. ErrorsOf(list, related) = ErrorsOf(other, related)
  BY <1>2 DEF ErrorsOf
<1> QED
  BY <1>3, <1>4, <1>5

LEMMA VerdictsAnswered ==
  ASSUME NEW r, r.uri = "/", NEW a \in MayAnswer(r),
         a.code \notin {HTTP_BAD_REQUEST, HTTP_INTERNAL_SERVER_ERROR}
  PROVE  \/ r.errors # {} /\ a.code = HTTP_CONFLICT /\ a.errors = r.errors
         \/ /\ r.errors = {}
            /\ a.code = IF AllPass(r.changes, r.related) THEN HTTP_OK
                        ELSE WorstCodeOf(r.changes, r.related)
            /\ a.errors = IF AllPass(r.changes, r.related) THEN {}
                          ELSE ErrorsOf(r.changes, r.related)
<1>1. CASE a = Verdict(r) /\ r.errors = {}
  BY <1>1, AnswerFields DEF Verdict
<1> QED
  BY <1>1, MayAnswerCases DEF HTTP_BAD_REQUEST, HTTP_INTERNAL_SERVER_ERROR, HTTP_CONFLICT

\* The same changes get the same code for the same errors, in whatever order
\* they are sent, and whatever the other streams are doing.
THEOREM OrderNeverDecides == Spec => []OrderDoesNotDecide
<1>1. AnswerInvariant => OrderDoesNotDecide
  <2> SUFFICES ASSUME AnswerInvariant, NEW s \in Streams, NEW t \in Streams,
                      NEW a \in Range(answers[s]), NEW b \in Range(answers[t]),
                      request[s].uri = "/", request[t].uri = "/",
                      request[s].errors = request[t].errors,
                      Range(request[s].changes) = Range(request[t].changes),
                      request[s].related = request[t].related,
                      {a.code, b.code}
                        \cap {HTTP_BAD_REQUEST, HTTP_INTERNAL_SERVER_ERROR} = {}
               PROVE  a.code = b.code /\ a.errors = b.errors
    BY DEF OrderDoesNotDecide
  <2>1. a \in MayAnswer(request[s]) /\ b \in MayAnswer(request[t])
    BY OneAnswer
  <2>2. /\ a.code \notin {HTTP_BAD_REQUEST, HTTP_INTERNAL_SERVER_ERROR}
        /\ b.code \notin {HTTP_BAD_REQUEST, HTTP_INTERNAL_SERVER_ERROR}
    OBVIOUS
  <2> QED
    BY <2>1, <2>2, VerdictsAnswered, SameChangesSameVerdict
<1> QED
  BY <1>1, AnswersAreAllowed, PTL

-------------------------------------------------------------------------------
(***************************************************************************)
(* Every step of a handler brings its stream closer to its end.            *)
(***************************************************************************)
LEMMA StepsAreLeft ==
  ASSUME TypeOK, NEW s \in Streams
  PROVE  /\ StepsLeft(s) \in 0..(Len(request[s].changes) + 4)
         /\ pc[s] \in Handling <=> StepsLeft(s) > 0
<1>1. /\ Len(request[s].changes) \in Nat
      /\ next[s] \in 1..(Len(request[s].changes) + 1)
      /\ pc[s] \in Handling \cup {"idle", "ended"}
  BY ChangesAreSequences DEF TypeOK
<1>2. CASE pc[s] = "received"
  <2>1. StepsLeft(s) = Len(request[s].changes) + 4
    BY <1>2 DEF StepsLeft
  <2> QED
    BY <1>1, <1>2, <2>1 DEF Handling
<1>3. CASE pc[s] = "valid"
  BY <1>1, <1>3 DEF StepsLeft, Handling
<1>4. CASE pc[s] = "applying"
  <2>1. StepsLeft(s) = Len(request[s].changes) + 3 - next[s]
    BY <1>4 DEF StepsLeft
  <2> QED
    BY <1>1, <1>4, <2>1 DEF Handling
<1>5. CASE pc[s] \in {"sending", "healthy"}
  BY <1>1, <1>5 DEF StepsLeft, Handling
<1>6. CASE pc[s] \in {"idle", "ended"}
  BY <1>1, <1>6 DEF StepsLeft, Handling
<1> QED
  BY <1>1, <1>2, <1>3, <1>4, <1>5, <1>6 DEF Handling

LEMMA HandlerComesCloser ==
  ASSUME TypeOK, NEW s \in Streams, Handler(s)
  PROVE  /\ StepsLeft(s)' < StepsLeft(s)
         /\ request'[s] = request[s]
         /\ pc'[s] # "idle"
<1>0. /\ Len(request[s].changes) \in Nat
      /\ next[s] \in 1..(Len(request[s].changes) + 1)
  BY ChangesAreSequences DEF TypeOK
<1>1. CASE handleHttp2RequestHealthy(s)
  BY <1>0, <1>1 DEF handleHttp2RequestHealthy, End, TypeOK, StepsLeft
<1>2. CASE checkInvalidRequest(s)
  <2>1. /\ pc[s] = "received" /\ pc'[s] \in {"valid", "ended"}
        /\ request'[s] = request[s]
    BY <1>2 DEF checkInvalidRequest, End, TypeOK
  <2>2. /\ StepsLeft(s) = Len(request[s].changes) + 4
        /\ StepsLeft(s)' \in {Len(request[s].changes) + 3, 0}
    BY <2>1 DEF StepsLeft
  <2> QED
    BY <1>0, <2>1, <2>2
<1>3. CASE getValidationData(s)
  <2>1. pc[s] = "valid" /\ request'[s] = request[s]
    BY <1>3 DEF getValidationData
  <2>2. \/ pc'[s] = "sending"
        \/ pc'[s] = "applying" /\ next'[s] = 1
    BY <1>3 DEF getValidationData, Send, TypeOK
  <2> QED
    BY <1>0, <2>1, <2>2 DEF StepsLeft
<1>4. CASE applyRule(s)
  <2>1. /\ pc[s] = "applying" /\ pc'[s] = "applying" /\ request'[s] = request[s]
        /\ next'[s] = next[s] + 1
    BY <1>4 DEF applyRule, TypeOK
  <2>2. /\ StepsLeft(s) = Len(request[s].changes) + 3 - next[s]
        /\ StepsLeft(s)' = Len(request[s].changes) + 3 - (next[s] + 1)
    BY <2>1 DEF StepsLeft
  <2> QED
    BY <1>0, <2>1, <2>2
<1>5. CASE handleHttp2Request(s)
  <2>1. /\ pc[s] = "applying" /\ pc'[s] = "sending" /\ request'[s] = request[s]
    BY <1>5 DEF handleHttp2Request, Send, TypeOK
  <2> QED
    BY <1>0, <2>1 DEF StepsLeft
<1>6. CASE sendResponse(s)
  <2>1. /\ pc[s] = "sending" /\ pc'[s] = "ended" /\ request'[s] = request[s]
    BY <1>6 DEF sendResponse, End, TypeOK
  <2> QED
    BY <1>0, <2>1 DEF StepsLeft
<1> QED
  BY <1>1, <1>2, <1>3, <1>4, <1>5, <1>6 DEF Handler

\* A handler has no more left to do than one call for each change of its request
\* and four more, and a stream is handled as long as anything is left.
THEOREM StepsAreBounded ==
  Spec => [](\A s \in Streams : /\ StepsLeft(s) \in 0..(Len(request[s].changes) + 4)
                                /\ pc[s] \in Handling <=> StepsLeft(s) > 0)
<1>1. TypeOK => \A s \in Streams : /\ StepsLeft(s) \in 0..(Len(request[s].changes) + 4)
                                   /\ pc[s] \in Handling <=> StepsLeft(s) > 0
  BY StepsAreLeft
<1> QED
  BY <1>1, TypeCorrect, PTL

\* A handler ends its stream after at most four calls and one turn of the loop
\* for each change of its request: each step it takes leaves it fewer, and no
\* step of another one leaves it more.
THEOREM EveryStepCounts == Spec => HandlersComeCloser
<1> DEFINE Closer(s) ==
             \/ Untouched(s)
             \/ /\ StepsLeft(s)' < StepsLeft(s)
                /\ request'[s] = request[s]
                /\ pc'[s] # "idle"
           Step == \A s \in Streams : pc[s] \in Handling => Closer(s)
<1>1. TypeOK /\ [Next]_vars => [Step]_vars
  <2> SUFFICES ASSUME TypeOK, [Next]_vars, NEW s \in Streams, pc[s] \in Handling
               PROVE  Closer(s)
    OBVIOUS
  <2>1. CASE registerInterface \/ listenAndServe \/ signalHandler \/ UNCHANGED vars
    BY <2>1, ProcessUntouched
  <2>2. ASSUME NEW t \in Streams, Receive(t) \/ Handler(t) \/ Close(t), s # t
        PROVE  Closer(s)
    BY <2>2, OthersUntouched
  <2>3. CASE Receive(s) \/ Close(s)
    BY <2>3 DEF Receive, Close, Handling
  <2>4. CASE Handler(s)
    BY <2>4, HandlerComesCloser
  <2> QED
    BY <2>1, <2>2, <2>3, <2>4 DEF Next
<1> QED
  BY <1>1, TypeCorrect, PTL DEF Spec, HandlersComeCloser

-------------------------------------------------------------------------------
(***************************************************************************)
(* The handlers implement the abstract service.                            *)
(***************************************************************************)
LEMMA ServiceInit == Init => Service!Init
  BY DEF Init, Service!Init, Phase

LEMMA ServiceEnds ==
  ASSUME TypeOK, AnswerInvariant, AnswerInvariant', NEW s \in Streams,
         pc[s] \notin {"idle", "ended"}, request' = request,
         NEW answer, End(s, answer)
  PROVE  Service!Reply(s)
<1>1. answers[s] = <<>>
  BY DEF AnswerInvariant, AnswerInv
<1>2. pc' = [pc EXCEPT ![s] = "ended"] /\ answers' = [answers EXCEPT ![s] = <<answer>>]
  BY <1>1 DEF End
<1>3. answer \in MayAnswer(request[s])
  <2>1. pc'[s] = "ended" /\ answers'[s] = <<answer>>
    BY <1>2 DEF TypeOK
  <2>2. \E a \in MayAnswer(request'[s]) : answers'[s] = <<a>>
    BY <2>1 DEF AnswerInvariant, AnswerInv
  <2> QED
    BY <2>1, <2>2
<1>4. Phase[s] = "asked" /\ Phase' = [Phase EXCEPT ![s] = "answered"]
  BY <1>2 DEF Phase, TypeOK
<1> QED
  BY <1>2, <1>3, <1>4 DEF Service!Reply

LEMMA ServiceStutters ==
  ASSUME TypeOK, NEW s \in Streams, UNCHANGED <<request, answers>>,
         pc[s] \notin {"idle", "ended"},
         NEW p, p \notin {"idle", "ended"}, pc' = pc \/ pc' = [pc EXCEPT ![s] = p]
  PROVE  UNCHANGED Service!serviceVars
<1>1. Phase' = Phase
  BY DEF Phase, TypeOK
<1> QED
  BY <1>1 DEF Service!serviceVars

LEMMA ServiceStep ==
  TypeOK /\ AnswerInvariant /\ AnswerInvariant' /\ [Next]_vars
    => [Service!Next]_(Service!serviceVars)
<1> SUFFICES ASSUME TypeOK, AnswerInvariant, AnswerInvariant', [Next]_vars
             PROVE  Service!Next \/ UNCHANGED Service!serviceVars
  BY Zenon
<1>1. CASE registerInterface \/ listenAndServe \/ signalHandler \/ UNCHANGED vars
  BY <1>1 DEF registerInterface, listenAndServe, signalHandler, vars, locals,
              Service!serviceVars, Phase
<1>2. ASSUME NEW s \in Streams, Receive(s)
      PROVE  Service!Ask(s)
  <2>1. pc[s] = "idle" /\ answers' = answers
    BY <1>2 DEF Receive
  <2>2. PICK r \in Requests :
          /\ request' = [request EXCEPT ![s] = r]
          /\ pc' = [pc EXCEPT ![s] = IF r.uri = "/healthz" THEN "healthy" ELSE "received"]
    BY <1>2 DEF Receive
  <2>3. Phase[s] = "idle" /\ Phase' = [Phase EXCEPT ![s] = "asked"]
    BY <2>1, <2>2 DEF Phase, TypeOK
  <2> QED
    BY <2>1, <2>2, <2>3 DEF Service!Ask
<1>3. ASSUME NEW s \in Streams, Close(s)
      PROVE  Service!Forget(s)
  <2>1. Phase[s] = "answered" /\ Phase' = [Phase EXCEPT ![s] = "idle"]
    BY <1>3 DEF Close, Phase, TypeOK
  <2> QED
    BY <1>3, <2>1 DEF Close, Service!Forget
<1>4. ASSUME NEW s \in Streams, Handler(s)
      PROVE  Service!Reply(s) \/ UNCHANGED Service!serviceVars
  <2>1. CASE handleHttp2RequestHealthy(s)
    BY <2>1, ServiceEnds DEF handleHttp2RequestHealthy
  <2>2. CASE checkInvalidRequest(s)
    BY <2>2, ServiceEnds, ServiceStutters DEF checkInvalidRequest
  <2>3. CASE getValidationData(s)
    <3>1. /\ UNCHANGED <<request, answers>>
          /\ pc[s] = "valid"
          /\ pc' = [pc EXCEPT ![s] = "sending"] \/ pc' = [pc EXCEPT ![s] = "applying"]
      BY <2>3 DEF getValidationData, Send
    <3> QED
      BY <3>1, ServiceStutters
  <2>4. CASE applyRule(s)
    BY <2>4, ServiceStutters DEF applyRule
  <2>5. CASE handleHttp2Request(s)
    BY <2>5, ServiceStutters DEF handleHttp2Request, Send
  <2>6. CASE sendResponse(s)
    BY <2>6, ServiceEnds DEF sendResponse
  <2> QED
    BY <1>4, <2>1, <2>2, <2>3, <2>4, <2>5, <2>6 DEF Handler
<1> QED
  BY <1>1, <1>2, <1>3, <1>4 DEF Next, Service!Next

\* Every behaviour of the process is, to its clients, one of the abstract
\* service: a request is answered at most once, by an answer it may get.
THEOREM ImplementsService == Spec => Service!SafetySpec
<1>1. Init => Service!Init
  BY ServiceInit
<1>2. TypeOK /\ AnswerInvariant /\ AnswerInvariant' /\ [Next]_vars
        => [Service!Next]_(Service!serviceVars)
  BY ServiceStep
<1> QED
  BY <1>1, <1>2, TypeCorrect, AnswersAreAllowed, PTL DEF Spec, Service!SafetySpec

===============================================================================
