----------------------------- MODULE ValidationData ---------------------------
(***************************************************************************)
(* entities/ValidationData.cpp as the caller of applyValidationRules sees  *)
(* it: which rules a change is checked with, against which of the related  *)
(* resources, how it is mutated, and what a list of changes comes to.      *)
(*                                                                         *)
(*   path      [kind, id]; the kinds are the resource paths the regular    *)
(*             expressions of the code tell apart, and the id is the       *)
(*             subscriber (mscId) or the last segment of a profile path    *)
(*   change    [operation, path, data]                                     *)
(*   related   a function from paths to resources: relatedResources, what  *)
(*             the database holds as the sender of the request read it     *)
(*                                                                         *)
(* A change is checked on its own: nothing a change does is seen by the    *)
(* changes after it.                                                       *)
(***************************************************************************)
EXTENDS SubscriptionRules, SmsRules, RoamingAreaRules

Operations == {"CREATE", "UPDATE", "DELETE"}

\* The other kinds have no rule: a path no regular expression matches, and
\* the journal, which is only ever a related resource.
PathKinds == {"udmStaticData", "udmSliceProfile", "udmRoamingArea",
              "smsStaticData", "provJournal", "other"}

\* hasRelatedResource and relatedResources.at: {} or {resource}.
RelatedResource(related, path) ==
  IF path \in DOMAIN related THEN {related[path]} ELSE {}

buildProvJournalResourcePathFromMscId(mscId) == [kind |-> "provJournal", id |-> mscId]

ProvJournal(related, path) ==
  RelatedResource(related, buildProvJournalResourcePathFromMscId(path.id))

\* The first related slice profile, in the order of the paths, whose own
\* udmSliceProfileId is the one asked for; the path is not compared with it.
getRelatedUdmSliceProfile(related, profId) ==
  LET paths == {p \in DOMAIN related : /\ p.kind = "udmSliceProfile"
                                       /\ related[p].udmSliceProfileId = profId}
  IN  {related[p] : p \in {p \in paths : \A q \in paths : Rank[p.id] <= Rank[q.id]}}

-------------------------------------------------------------------------------
(* The rules for one change                                                    *)

UdmStaticDataRules(c, related) ==
  LET profile == getRelatedUdmSliceProfile(related, c.data.udmSliceProfileId)
  IN  IF c.operation = "CREATE"
      THEN checkForCreationUdmSubscriptionRules(c.data, ProvJournal(related, c.path), profile)
      ELSE checkForUpdateUdmSubscriptionRules(c.data, RelatedResource(related, c.path), profile)

UdmSliceProfileRules(c, related) ==
  IF c.operation = "CREATE"
  THEN checkForCreationUdmSliceProfileRules(c.data)
  ELSE checkForUpdateUdmSliceProfileRules(c.data, RelatedResource(related, c.path))

UdmRoamingAreaRules(c, related) ==
  IF c.operation = "CREATE"
  THEN checkForCreationUdmRoamingAreaRules(c.data)
  ELSE checkForUpdateUdmRoamingAreaRules(c.data, RelatedResource(related, c.path))

\* A DELETE passes whatever its path is; any other operation on a path
\* without rules cannot be validated.
CheckChange(c, related) ==
  CASE c.operation = "DELETE" -> Success
    [] c.operation # "DELETE" /\ c.path.kind = "udmStaticData" ->
         UdmStaticDataRules(c, related)
    [] c.operation # "DELETE" /\ c.path.kind = "udmSliceProfile" ->
         UdmSliceProfileRules(c, related)
    [] c.operation # "DELETE" /\ c.path.kind = "udmRoamingArea" ->
         UdmRoamingAreaRules(c, related)
    [] c.operation # "DELETE" /\ c.path.kind = "smsStaticData" ->
         SmsValidationRules(c.operation, c.data, RelatedResource(related, c.path),
                            ProvJournal(related, c.path))
    [] OTHER -> Unprocessable({"unexpectedPath"})

\* Seeded fault: only what is created is mutated.
computeMutationsOfCreated(c) ==
  CASE c.path.kind = "udmSliceProfile" /\ c.operation = "CREATE" ->
         [c EXCEPT !.data.plmnIdSets = MutateSets(@)]
    [] c.path.kind = "udmStaticData" /\ c.operation = "CREATE" ->
         [c EXCEPT !.data.udmSliceData = {MutateSets(sets) : sets \in @}]
    [] OTHER -> c

\* The change that is answered for a change that passed.
computeMutations(c) ==
  CASE c.path.kind = "udmSliceProfile" /\ c.operation # "DELETE" ->
         [c EXCEPT !.data.plmnIdSets = MutateSets(@)]
    [] c.path.kind = "udmStaticData" /\ c.operation # "DELETE" ->
         [c EXCEPT !.data.udmSliceData = {MutateSets(sets) : sets \in @}]
    [] OTHER -> c

-------------------------------------------------------------------------------
(* What a list of changes comes to, stated without the loop that computes it   *)

AllPass(changes, related) ==
  \A i \in DOMAIN changes : CheckChange(changes[i], related).valid

\* The worst code of all the changes.
WorstCodeOf(changes, related) ==
  LET codes == {HTTP_OK} \cup {CheckChange(changes[i], related).code : i \in DOMAIN changes}
  IN  CHOOSE code \in codes : \A other \in codes : other <= code

ErrorsOf(changes, related) ==
  UNION {CheckChange(changes[i], related).errors : i \in DOMAIN changes}

Mutated(changes) == [i \in DOMAIN changes |-> computeMutations(changes[i])]

-------------------------------------------------------------------------------
(* What a request may be answered. A request is what its body decodes to:      *)
(*   uri      "/healthz" or "/"                                                *)
(*   format   "malformed" when the body cannot be read, else "ok"              *)
(*   errors   what the parser pushed to response.errors                        *)
(*   changes, related                                                          *)

NoRequest ==
  [uri |-> "/", format |-> "ok", errors |-> {}, changes |-> <<>>, related |-> <<>>]

Answer(code, changes, errors) == [code |-> code, changes |-> changes, errors |-> errors]

\* The answer to a request the service can read.
Verdict(r) ==
  IF AllPass(r.changes, r.related)
  THEN Answer(HTTP_OK, Mutated(r.changes), {})
  ELSE Answer(WorstCodeOf(r.changes, r.related), <<>>, ErrorsOf(r.changes, r.related))

\* The answers a request may get. The schema decides of 400 and 500.
MayAnswer(r) ==
  IF r.uri = "/healthz" THEN {Answer(HTTP_OK, <<>>, {})}
  ELSE {Answer(HTTP_BAD_REQUEST, <<>>, {"malformed request"}),
        Answer(HTTP_INTERNAL_SERVER_ERROR, <<>>, {"malformed response"})}
       \cup {Answer(HTTP_CONFLICT, <<>>, e) : e \in {r.errors} \ {{}}}
       \cup (IF r.format = "ok" /\ r.errors = {} THEN {Verdict(r)} ELSE {})

===============================================================================
