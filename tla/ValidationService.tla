---------------------------- MODULE ValidationService -------------------------
(***************************************************************************)
(* What a client may rely on: a request that is sent is answered, once, by *)
(* an answer that depends on the request alone, and nothing of it is kept. *)
(* Which answers a request may get is a parameter; ValidationServer gives  *)
(* MayAnswer of ValidationData for it.                                     *)
(***************************************************************************)
CONSTANTS
  Streams,
  Requests,
  NoRequest,      \* what a stream that is free has for a request
  MayAnswer(_)    \* the answers a request may get

VARIABLES
  phase,       \* phase[s]: "idle", "asked" or "answered"
  request,     \* request[s]: what was asked
  answers      \* answers[s]: what was answered

serviceVars == <<phase, request, answers>>

Init ==
  /\ phase = [s \in Streams |-> "idle"]
  /\ request = [s \in Streams |-> NoRequest]
  /\ answers = [s \in Streams |-> <<>>]

Ask(s) ==
  /\ phase[s] = "idle"
  /\ phase' = [phase EXCEPT ![s] = "asked"]
  /\ \E r \in Requests : request' = [request EXCEPT ![s] = r]
  /\ UNCHANGED answers

Reply(s) ==
  /\ phase[s] = "asked"
  /\ phase' = [phase EXCEPT ![s] = "answered"]
  /\ \E a \in MayAnswer(request[s]) : answers' = [answers EXCEPT ![s] = <<a>>]
  /\ UNCHANGED request

Forget(s) ==
  /\ phase[s] = "answered"
  /\ phase' = [phase EXCEPT ![s] = "idle"]
  /\ request' = [request EXCEPT ![s] = NoRequest]
  /\ answers' = [answers EXCEPT ![s] = <<>>]

Next == \E s \in Streams : Ask(s) \/ Reply(s) \/ Forget(s)

\* What is asked and answered, and that whatever is asked is answered.
SafetySpec == Init /\ [][Next]_serviceVars

Spec == SafetySpec /\ \A s \in Streams : WF_serviceVars(Reply(s))

===============================================================================
