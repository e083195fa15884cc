----------------------------- MODULE DnnDataRules -----------------------------
(***************************************************************************)
(* The rules of checkForCommonUdmSliceProfileRules (ValidationData.cpp)    *)
(* about the attributes of one dnnData:                                    *)
(*                                                                         *)
(*   sscModes         [defaultSscMode, allowedSscModes]                    *)
(*   pduSessionTypes  [defaultSessionType, allowedSessionTypes]            *)
(*   fivegQosProfile  [fiveqi, priorityLevel, arp]                         *)
(*   sessionAmbr      [uplink, downlink]                                   *)
(*   upSecurity       [upIntegr, upConfid]                                 *)
(*   smfList          a sequence                                           *)
(*   charging         a string                                             *)
(*                                                                         *)
(* What the fieldExistence flags of entities/types.hpp say is here the     *)
(* number of elements of a set: an optional attribute is {} when the JSON  *)
(* object does not have it, and {value} when it does. An absent string is  *)
(* "". The regular expressions are constants: the strings that match.      *)
(***************************************************************************)
EXTENDS Outcomes, Sequences, Functions

CONSTANTS
  BitRateFormat,    \* BIT_RATE_REGEXP
  UuidFormat,       \* UUID_REGEX
  ChargingFormat    \* THREEGPP_CHARGING_CHARACTERISTICS_REGEX

SscModes == {"SSC_MODE_1", "SSC_MODE_2", "SSC_MODE_3"}
SessionTypes == {"IPV4", "IPV6", "IPV4V6", "UNSTRUCTURED", "ETHERNET"}
PreemptCaps == {"NOT_PREEMPT", "MAY_PREEMPT"}
PreemptVulns == {"NOT_PREEMPTABLE", "PREEMPTABLE"}
SecurityLevels == {"REQUIRED", "PREFERRED", "NOT_NEEDED"}

\* Positions of a list whose element is there before: where the running lists
\* of checkSscRepeated and of the other checks meet a value again. A list may
\* have gaps.
Repeats(list) == {j \in DOMAIN list : \E i \in DOMAIN list : i < j /\ list[i] = list[j]}

HasRepeats(list) == Repeats(list) # {}

\* Only values of the enumeration get into the running list.
Known(list, values) == SelectSeq(list, LAMBDA x : x \in values)

\* More than two allowed modes are reported once and not looked at.
SscModesErrors(m) ==
  LET allowed == IF Len(m.allowedSscModes) > 2 THEN <<>> ELSE m.allowedSscModes
  IN   Raise(m.defaultSscMode \notin SscModes, "defaultSscMode")
  \cup Raise(Len(m.allowedSscModes) > 2, "tooManyAllowedSscModes")
  \cup Raise(\E x \in Range(allowed) : x \notin SscModes, "allowedSscModes")
  \cup Raise(HasRepeats(Known(<<m.defaultSscMode>> \o allowed, SscModes)),
             "repeatedSscMode")

\* allowedSessionTypes is optional, and not empty when present.
SessionTypesErrors(t) ==
  LET allowed == UNION {Range(a) : a \in t.allowedSessionTypes}
  IN   Raise(t.defaultSessionType \notin SessionTypes, "defaultSessionType")
  \cup Raise(<<>> \in t.allowedSessionTypes, "emptyAllowedSessionTypes")
  \cup Raise(~(allowed \subseteq SessionTypes), "allowedSessionTypes")
  \cup Raise(\/ t.defaultSessionType \in allowed \cap SessionTypes
             \/ \E a \in t.allowedSessionTypes : HasRepeats(Known(a, SessionTypes)),
             "repeatedSessionType")

\* Seeded fault: the priorityLevel of the arp starts at 0.
FivegQosErrorsFromZero(q) ==
       Raise(q.fiveqi \notin 0..255, "fiveqi")
  \cup Raise(\E p \in q.priorityLevel : p \notin 1..127, "priorityLevel")
  \cup Raise(q.arp.priorityLevel \notin 0..15, "arpPriorityLevel")
  \cup Raise(q.arp.preemptCap \notin PreemptCaps, "preemptCap")
  \cup Raise(q.arp.preemptVuln \notin PreemptVulns, "preemptVuln")

FivegQosErrors(q) ==
       Raise(q.fiveqi \notin 0..255, "fiveqi")
  \cup Raise(\E p \in q.priorityLevel : p \notin 1..127, "priorityLevel")
  \cup Raise(q.arp.priorityLevel \notin 1..15, "arpPriorityLevel")
  \cup Raise(q.arp.preemptCap \notin PreemptCaps, "preemptCap")
  \cup Raise(q.arp.preemptVuln \notin PreemptVulns, "preemptVuln")

\* A string attribute that is present must be one of the values.
Unknown(string, values) == string # "" /\ string \notin values

DnnDataErrors(a) ==
       (UNION {SscModesErrors(m) : m \in a.sscModes})
  \cup (UNION {SessionTypesErrors(t) : t \in a.pduSessionTypes})
  \cup (UNION {FivegQosErrors(q) : q \in a.fivegQosProfile})
  \cup Raise(\E r \in a.sessionAmbr : \/ Unknown(r.uplink, BitRateFormat)
                                      \/ Unknown(r.downlink, BitRateFormat),
             "sessionAmbr")
  \cup Raise(\E s \in a.upSecurity : \/ Unknown(s.upIntegr, SecurityLevels)
                                     \/ Unknown(s.upConfid, SecurityLevels),
             "upSecurity")
  \cup Raise(<<>> \in a.smfList, "emptySmfList")
  \cup Raise(\E l \in a.smfList : ~(Range(l) \subseteq UuidFormat), "smfList")
  \cup Raise(Unknown(a.charging, ChargingFormat), "dnnCharging")

===============================================================================
