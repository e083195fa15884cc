------------------------------ MODULE JsonLeaves ------------------------------
(***************************************************************************)
(* What the rounds of JsonRound do to the scalars of the JSON that is      *)
(* sent, answered and stored, wherever they are in it.                     *)
(***************************************************************************)
EXTENDS JsonRound

\* The scalars of a value, each with the names and the positions above it.
RECURSIVE Leaves(_)
Leaves(value) ==
  LET Below(name, v) == {<<<<name>> \o leaf[1], leaf[2]>> : leaf \in Leaves(v)}
  IN  CASE Is(value, "object") ->
             UNION {Below(n, value.object[n]) : n \in DOMAIN value.object}
        [] Is(value, "array") ->
             UNION {Below(ToString(i), value.array[i]) : i \in DOMAIN value.array}
        [] OTHER -> {<<<<>>, value>>}

\* A scalar that is not in the answer: one without a text, one with a name
\* nobody knows, or a vendor specific one of udmSliceData (which is what
\* VendorSpecificIsKept is about).
MayBeLost(leaf) ==
  \/ leaf[2] = [string |-> ""]
  \/ Range(leaf[1]) \cap ForeignNames # {}
  \/ leaf[1][1] = "udmSliceData" /\ leaf[1][2] \in VendorSpecificFormat

\* The dnn of another element of the same dnnIpList.
DnnOfAnother(leaf, sent) ==
  \E other \in sent :
    /\ other[2] = leaf[2]
    /\ Len(other[1]) = 6 /\ Len(leaf[1]) = 6
    /\ other[1] = [leaf[1] EXCEPT ![5] = other[1][5]]

\* A scalar that was not sent: the dnnListId of computeMutations, and in a
\* static IP address the sst of an nssai that is absent, which is what the
\* memory holds, or the dnn of an element without one.
MayBeAdded(leaf, sent) ==
  /\ \A other \in sent : other[1] = leaf[1] => other[2] = [string |-> ""]
  /\ \/ Last(leaf[1]) = "dnnListId" /\ leaf[2].string = DEFAULT_VALUE
     \/ leaf[1][1] = "staticIpAddress" /\ Last(leaf[1]) = "sst" /\ leaf[2].int = memory
     \/ leaf[1][1] = "staticIpAddress" /\ Last(leaf[1]) = "dnn" /\ DnnOfAnother(leaf, sent)

\* What the parser finds wrong with the data of a change. A plmnIdSets that is
\* no array is among it: in a slice profile the parser reports it to nobody.
FaultsFound(kind, data) ==
  ResourceFaults(kind, data)
  \cup (IF kind = "udmSliceProfile" THEN Mistyped(data, {"plmnIdSets"}, "array") ELSE {})

\* The data of the i-th change, as it was sent and as it was answered, when the
\* parser has read it and found nothing wrong: pairs of sets of scalars.
SentAndAnswered(i) ==
  {<<Leaves(sent), Leaves(answered)>> :
     sent \in {sent \in DataRead(body.changes[i]) :
                 FaultsFound(PathOf(body.changes[i]).kind, sent) = {}},
     answered \in Given(answer.changes[i], "data")}

\* What is answered with 200 is what was sent: of data that was read nothing is
\* lost or added on its way through the validator, on any level, but for what
\* is named above, and every list keeps its order.
AnswerKeepsTheData ==
  Accepted =>
    \A i \in DOMAIN answer.changes : \A pair \in SentAndAnswered(i) :
      /\ \A leaf \in pair[2] \ pair[1] : MayBeAdded(leaf, pair[1])
      /\ \A leaf \in pair[1] \ pair[2] : MayBeLost(leaf)

-------------------------------------------------------------------------------
(* What the repository says, and the code does not do                          *)

\* "Support for vendor specific attributes.": what is vendor specific in the data
\* that was read is in the answer, wherever it is in it.
VendorSpecificIsKept ==
  Accepted =>
    \A i \in DOMAIN answer.changes : \A pair \in SentAndAnswered(i) :
      \A leaf \in pair[1] : Range(leaf[1]) \cap VendorSpecificFormat # {} => leaf \in pair[2]

\* "Ok - Validation was successful.": a 200 is about the data that was sent. The
\* parser finds nothing wrong with it and it passes the rules, whatever the order
\* of the members of a change, which is an object of the schema.
SuccessIsAboutTheData ==
  Accepted =>
    \A c \in Range(body.changes) : \A data \in Given(c, "data") :
      LET path   == PathOf(c)
          change == [operation |-> ChangeFromJson(c, memory).operation, path |-> path,
                     data |-> ResourceFromJson(path.kind, data, memory)]
      IN  /\ FaultsFound(path.kind, data) = {}
          /\ CheckChange(change, getRelatedResources(body, memory)).valid

===============================================================================
