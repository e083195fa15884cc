------------------------------- MODULE Outcomes -------------------------------
(***************************************************************************)
(* What a rule of the validator answers: the tuple validation_response_t   *)
(* of entities/types.hpp (a verdict and an HTTP code), together with the   *)
(* errors the rule pushes to ValidationData::response.errors.              *)
(*                                                                         *)
(* An error is abstracted to the name of the rule that raised it; message  *)
(* texts are not modelled, and the vector of errors is a set.              *)
(***************************************************************************)
EXTENDS Integers

HTTP_OK == 200
HTTP_BAD_REQUEST == 400
HTTP_CONFLICT == 409
HTTP_UNPROCESSABLE_ENTITY == 422
HTTP_INTERNAL_SERVER_ERROR == 500

\* The codes a rule can answer.
RuleCodes == {HTTP_OK, HTTP_CONFLICT, HTTP_UNPROCESSABLE_ENTITY}

\* addError, under the condition that makes the code call it.
Raise(broken, rule) == IF broken THEN {rule} ELSE {}

\* The rule holds for everything it looks at.
Success == [valid |-> TRUE, code |-> HTTP_OK, errors |-> {}]

\* A rule set that clears "ret" with every error it adds, and answers 409.
Conflict(errors) ==
  [valid  |-> errors = {},
   code   |-> IF errors = {} THEN HTTP_OK ELSE HTTP_CONFLICT,
   errors |-> errors]

\* An early return because a related resource is missing.
Unprocessable(errors) ==
  [valid |-> FALSE, code |-> HTTP_UNPROCESSABLE_ENTITY, errors |-> errors]

\* Seeded faults for WorstCode: the code of the last change, and the code of
\* the first that failed.
LastCode(a, b) == b
FirstFailure(a, b) == IF a = HTTP_OK THEN b ELSE a

\* std::max on codes: 422 is preferred to 409, and 409 to 200.
WorstCode(a, b) == IF a < b THEN b ELSE a

\* getWorstResponseCode: both rule sets are applied, the worse answer wins.
WorstOf(a, b) ==
  [valid  |-> a.valid /\ b.valid,
   code   |-> WorstCode(a.code, b.code),
   errors |-> a.errors \cup b.errors]

\* A verdict, its code and its errors say the same. Nothing in the code ties
\* them together: each rule returns the first two and pushes the third.
Consistent(o) ==
  /\ o.valid \in BOOLEAN
  /\ o.code \in RuleCodes
  /\ o.valid <=> o.code = HTTP_OK
  /\ o.valid <=> o.errors = {}

===============================================================================
