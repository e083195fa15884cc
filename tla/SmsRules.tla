-------------------------------- MODULE SmsRules ------------------------------
(***************************************************************************)
(* The rules of entities/*SmsValidationRules.cpp about SMS subscriptions.  *)
(* A smsStaticData is a function on its boolean attributes; an optional    *)
(* attribute is {} when absent, {value} else, and absent counts as false   *)
(* in the rules R5, R6 and R7.                                             *)
(***************************************************************************)
EXTENDS Outcomes

SmsAttributes == {"smsSubscribed", "mtSmsSubscribed", "mtSmsBarringAll",
                  "mtSmsBarringRoaming", "moSmsSubscribed", "moSmsBarringAll",
                  "moSmsBarringRoaming"}

\* An attribute: {} when the JSON object does not have it, else {value}.
SmsStaticData == [SmsAttributes -> {{}, {TRUE}, {FALSE}}]

\* The local variable of a rule: false unless the attribute is there and true.
Holds(sms, attribute) == TRUE \in sms[attribute]

checkSmsSubscribed(sms) ==
  Raise(/\ Holds(sms, "mtSmsSubscribed") \/ Holds(sms, "moSmsSubscribed")
        /\ ~Holds(sms, "smsSubscribed"), "R5")

checkMtSmsSubscribed(sms) ==
  Raise(/\ Holds(sms, "mtSmsBarringAll") \/ Holds(sms, "mtSmsBarringRoaming")
        /\ ~Holds(sms, "mtSmsSubscribed"), "R6")

checkMoSmsSubscribed(sms) ==
  Raise(/\ Holds(sms, "moSmsBarringAll") \/ Holds(sms, "moSmsBarringRoaming")
        /\ ~Holds(sms, "moSmsSubscribed"), "R7")

CommonSmsValidationRules(sms) ==
  Conflict(checkSmsSubscribed(sms) \cup checkMtSmsSubscribed(sms)
           \cup checkMoSmsSubscribed(sms))

\* journal and related: the related resource, in a set; {} without one.
CreateSpecificSmsValidationRules(journal) ==
  IF journal = {} THEN Unprocessable({"noProvJournal"})
  ELSE Conflict(Raise(\E j \in journal : j.imsi = "", "noImsi"))

UpdateSpecificSmsValidationRules(related) ==
  IF related = {} THEN Unprocessable({"noRelatedResource"}) ELSE Success

\* Both rule sets are applied, also when the first one fails.
SmsValidationRules(operation, sms, related, journal) ==
  CASE operation = "UPDATE" -> WorstOf(CommonSmsValidationRules(sms),
                                       UpdateSpecificSmsValidationRules(related))
    [] operation = "CREATE" -> WorstOf(CommonSmsValidationRules(sms),
                                       CreateSpecificSmsValidationRules(journal))
    [] OTHER -> Success

===============================================================================
