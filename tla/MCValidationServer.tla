--------------------------- MODULE MCValidationServer -------------------------
(***************************************************************************)
(* Requests for ValidationServer. The changes cover what a rule can answer *)
(* (200 with and without a mutation, 409, 422, and 422 with a 409 behind   *)
(* it), and the requests have those of different codes in both orders.     *)
(***************************************************************************)
EXTENDS ValidationServer, MCValidationData

Lists == <<DnnList("Default", <<Dnn("net", TRUE)>>)>>

\* Passes, and its nssai gets the dnnListId "Default".
Passing == Change("CREATE", Path("udmSliceProfile", "p1"),
  Profile("p1", <<PlmnIdSet("Default", <<Nssai(1, "", "")>>, <<>>, Lists)>>))

\* 409: no set has the identifier "Default".
Conflicting == Change("CREATE", Path("udmSliceProfile", "p2"),
  Profile("p2", <<PlmnIdSet("12345", <<Nssai(1, "", "Default")>>, <<>>, Lists)>>))

\* 422: there is no related resource for the update.
Unrelated == Change("UPDATE", Path("udmRoamingArea", "p1"),
  [areaList |-> <<[type |-> "tacs", tacs |-> <<"00AA">>]>>])

\* The common rules answer 409 (R5), the ones for a CREATE 422: no journal.
Sms == Change("CREATE", Path("smsStaticData", "m1"),
  [a \in SmsAttributes |-> IF a = "mtSmsSubscribed" THEN {TRUE} ELSE {}])

Deleted == Change("DELETE", Path("other", "x"), {})

Elsewhere == Change("CREATE", Path("other", "x"), {})

Request(uri, format, errors, changes) ==
  [uri |-> uri, format |-> format, errors |-> errors, changes |-> changes,
   related |-> <<>>]

OtherRequests ==
  {Request("/healthz", "ok", {}, <<>>),
   Request("/", "malformed", {}, <<>>),
   Request("/", "ok", {"not a string"}, <<Passing, Unrelated>>)}

MCRequests ==
  OtherRequests \cup
  {Request("/", "ok", {}, l) :
     l \in {<<>>, <<Passing>>, <<Conflicting>>, <<Unrelated>>, <<Sms>>, <<Deleted>>, <<Elsewhere>>,
            <<Passing, Conflicting>>, <<Conflicting, Passing>>,
            <<Passing, Unrelated>>, <<Unrelated, Passing>>,
            <<Conflicting, Unrelated>>, <<Unrelated, Conflicting>>,
            <<Conflicting, Conflicting>>, <<Passing, Deleted, Passing>>,
            <<Conflicting, Sms, Passing>>, <<Passing, Sms, Conflicting>>}}

FewRequests ==
  OtherRequests \cup
  {Request("/", "ok", {}, l) :
     l \in {<<>>, <<Passing>>, <<Sms>>, <<Passing, Passing>>, <<Passing, Conflicting>>,
            <<Conflicting, Passing>>, <<Conflicting, Unrelated>>}}

===============================================================================
