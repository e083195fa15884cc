------------------------------- MODULE RuleProofs -----------------------------
(***************************************************************************)
(* What holds of the rules of ValidationData whatever the changes, the     *)
(* related resources and the formats are.                                  *)
(***************************************************************************)
EXTENDS ValidationData, TLAPS

(***************************************************************************)
(* The ways a rule ends are consistent.                                    *)
(***************************************************************************)
LEMMA SuccessConsistent == Consistent(Success)
  BY DEF Consistent, Success, RuleCodes, HTTP_OK

LEMMA ConflictConsistent == ASSUME NEW errors PROVE Consistent(Conflict(errors))
<1>1. /\ Conflict(errors).valid = (errors = {})
      /\ Conflict(errors).code = IF errors = {} THEN HTTP_OK ELSE HTTP_CONFLICT
      /\ Conflict(errors).errors = errors
  BY Zenon DEF Conflict
<1>2. HTTP_OK \in RuleCodes /\ HTTP_CONFLICT \in RuleCodes /\ HTTP_CONFLICT # HTTP_OK
  BY DEF RuleCodes, HTTP_OK, HTTP_CONFLICT
<1> QED
  BY <1>1, <1>2, Zenon DEF Consistent

LEMMA UnprocessableConsistent ==
  ASSUME NEW errors, errors # {}
  PROVE  Consistent(Unprocessable(errors))
  BY DEF Consistent, Unprocessable, RuleCodes, HTTP_OK, HTTP_UNPROCESSABLE_ENTITY

(***************************************************************************)
(* getWorstResponseCode, and the turns of applyValidationRules, keep it.   *)
(***************************************************************************)
LEMMA WorstOfConsistent ==
  ASSUME NEW a, NEW b, Consistent(a), Consistent(b)
  PROVE  /\ Consistent(WorstOf(a, b))
         /\ WorstOf(a, b).valid <=> a.valid /\ b.valid
         /\ WorstOf(a, b).code \in {a.code, b.code}
         /\ a.code <= WorstOf(a, b).code
         /\ b.code <= WorstOf(a, b).code
         /\ WorstOf(a, b).errors = a.errors \cup b.errors
<1>1. /\ WorstOf(a, b).valid = (a.valid /\ b.valid)
      /\ WorstOf(a, b).code = WorstCode(a.code, b.code)
      /\ WorstOf(a, b).errors = a.errors \cup b.errors
  BY DEF WorstOf
<1>2. /\ WorstCode(a.code, b.code) \in {a.code, b.code}
      /\ a.code <= WorstCode(a.code, b.code)
      /\ b.code <= WorstCode(a.code, b.code)
      /\ WorstCode(a.code, b.code) = HTTP_OK <=> a.code = HTTP_OK /\ b.code = HTTP_OK
  BY DEF WorstCode, Consistent, RuleCodes, HTTP_OK, HTTP_CONFLICT, HTTP_UNPROCESSABLE_ENTITY
<1>3. Consistent(WorstOf(a, b))
  BY <1>1, <1>2 DEF Consistent
<1> QED
  BY <1>1, <1>2, <1>3 DEF Consistent

-------------------------------------------------------------------------------

LEMMA CheckedAgainstConsistent ==
  ASSUME NEW u, NEW sliceProfile, NEW errors
  PROVE  Consistent(CheckedAgainst(u, sliceProfile, errors))
<1>1. errors \cup {"noRelatedUdmSliceProfile"} # {}
  OBVIOUS
<1> QED
  BY <1>1, UnprocessableConsistent, ConflictConsistent DEF CheckedAgainst

LEMMA UdmStaticDataConsistent ==
  ASSUME NEW c, NEW related
  PROVE  Consistent(UdmStaticDataRules(c, related))
  BY CheckedAgainstConsistent, UnprocessableConsistent
  DEF UdmStaticDataRules, checkForCreationUdmSubscriptionRules,
      checkForUpdateUdmSubscriptionRules

LEMMA UdmSliceProfileConsistent ==
  ASSUME NEW c, NEW related
  PROVE  Consistent(UdmSliceProfileRules(c, related))
  BY ConflictConsistent, UnprocessableConsistent
  DEF UdmSliceProfileRules, checkForCreationUdmSliceProfileRules,
      checkForUpdateUdmSliceProfileRules

LEMMA UdmRoamingAreaConsistent ==
  ASSUME NEW c, NEW related
  PROVE  Consistent(UdmRoamingAreaRules(c, related))
  BY ConflictConsistent, UnprocessableConsistent
  DEF UdmRoamingAreaRules, checkForCreationUdmRoamingAreaRules,
      checkForUpdateUdmRoamingAreaRules

LEMMA SmsConsistent ==
  ASSUME NEW operation, NEW sms, NEW related, NEW journal
  PROVE  Consistent(SmsValidationRules(operation, sms, related, journal))
<1>1. Consistent(CommonSmsValidationRules(sms))
  BY ConflictConsistent DEF CommonSmsValidationRules
<1>2. Consistent(CreateSpecificSmsValidationRules(journal))
  BY ConflictConsistent, UnprocessableConsistent DEF CreateSpecificSmsValidationRules
<1>3. Consistent(UpdateSpecificSmsValidationRules(related))
  BY SuccessConsistent, UnprocessableConsistent DEF UpdateSpecificSmsValidationRules
<1> QED
  BY <1>1, <1>2, <1>3, SuccessConsistent, WorstOfConsistent DEF SmsValidationRules

(***************************************************************************)
(* Whatever a change is and whatever is sent along with it, the rules      *)
(* answer a verdict, a code and errors that agree: a change fails exactly  *)
(* when its code is 409 or 422, and exactly when there is an error for the *)
(* encoder to answer.                                                      *)
(***************************************************************************)
THEOREM CheckChangeConsistent ==
  ASSUME NEW c, NEW related
  PROVE  Consistent(CheckChange(c, related))
<1>1. Consistent(Unprocessable({"unexpectedPath"}))
  BY UnprocessableConsistent
<1> QED
  BY <1>1, SuccessConsistent, UdmStaticDataConsistent, UdmSliceProfileConsistent,
     UdmRoamingAreaConsistent, SmsConsistent
  DEF CheckChange

(***************************************************************************)
(* The rules R5, R6 and R7 together: an SMS subscription that is accepted  *)
(* with any barring is subscribed to SMS, although no rule relates the     *)
(* two.                                                                    *)
(***************************************************************************)
THEOREM BarringNeedsSubscription ==
  ASSUME NEW sms, NEW related, NEW journal, NEW operation \in {"CREATE", "UPDATE"},
         SmsValidationRules(operation, sms, related, journal).valid,
         \/ Holds(sms, "mtSmsBarringAll")
         \/ Holds(sms, "mtSmsBarringRoaming")
         \/ Holds(sms, "moSmsBarringAll")
         \/ Holds(sms, "moSmsBarringRoaming")
  PROVE  Holds(sms, "smsSubscribed")
<1> DEFINE common == CommonSmsValidationRules(sms)
<1>1. Consistent(common) /\ Consistent(CreateSpecificSmsValidationRules(journal))
      /\ Consistent(UpdateSpecificSmsValidationRules(related))
  BY ConflictConsistent, UnprocessableConsistent, SuccessConsistent
  DEF CommonSmsValidationRules, CreateSpecificSmsValidationRules,
      UpdateSpecificSmsValidationRules
<1>2. common.valid
  <2> HIDE DEF common
  <2>1. CASE operation = "CREATE"
    BY <1>1, <2>1, WorstOfConsistent DEF SmsValidationRules, common
  <2>2. CASE operation = "UPDATE"
    BY <1>1, <2>2, WorstOfConsistent DEF SmsValidationRules, common
  <2> QED
    BY <2>1, <2>2
<1>3. /\ checkSmsSubscribed(sms) = {}
      /\ checkMtSmsSubscribed(sms) = {}
      /\ checkMoSmsSubscribed(sms) = {}
  BY <1>2 DEF CommonSmsValidationRules, Conflict
<1>4. Holds(sms, "mtSmsSubscribed") \/ Holds(sms, "moSmsSubscribed")
  BY <1>3 DEF checkMtSmsSubscribed, checkMoSmsSubscribed, Raise
<1> QED
  BY <1>3, <1>4 DEF checkSmsSubscribed, Raise

(***************************************************************************)
(* The code of a list of changes is the worst of a code of theirs and 200. *)
(***************************************************************************)
LEMMA CodesOfChanges ==
  ASSUME NEW changes, NEW related
  PROVE  /\ WorstCodeOf(changes, related) \in {200, 409, 422}
         /\ \A i \in DOMAIN changes :
              /\ CheckChange(changes[i], related).code \in {200, 409, 422}
              /\ CheckChange(changes[i], related).code <= WorstCodeOf(changes, related)
<1> DEFINE codes == {HTTP_OK} \cup {CheckChange(changes[j], related).code : j \in DOMAIN changes}
<1>1. \A j \in DOMAIN changes : CheckChange(changes[j], related).code \in {200, 409, 422}
  BY CheckChangeConsistent
  DEF Consistent, RuleCodes, HTTP_OK, HTTP_CONFLICT, HTTP_UNPROCESSABLE_ENTITY
<1>2. 200 \in codes /\ codes \subseteq {200, 409, 422}
  BY <1>1 DEF HTTP_OK
<1>3. \A i \in DOMAIN changes : CheckChange(changes[i], related).code \in codes
  OBVIOUS
<1> HIDE DEF codes
<1>4. \E code \in codes : \A other \in codes : other <= code
  <2>1. CASE 422 \in codes
    BY <1>2, <2>1
  <2>2. CASE 422 \notin codes /\ 409 \in codes
    BY <1>2, <2>2
  <2>3. CASE 422 \notin codes /\ 409 \notin codes
    BY <1>2, <2>3
  <2> QED
    BY <2>1, <2>2, <2>3
<1>5. /\ WorstCodeOf(changes, related) \in codes
      /\ \A other \in codes : other <= WorstCodeOf(changes, related)
  BY <1>4 DEF WorstCodeOf, codes
<1>6. \A i \in DOMAIN changes :
        CheckChange(changes[i], related).code <= WorstCodeOf(changes, related)
  BY <1>3, <1>5, Zenon
<1>7. WorstCodeOf(changes, related) \in {200, 409, 422}
  BY <1>2, <1>5, Zenon
<1> QED
  BY <1>1, <1>6, <1>7, Zenon

(***************************************************************************)
(* computeMutations, applied to what it made of a change, changes nothing: *)
(* what is mutated once has a dnnListId wherever it looks for one. The     *)
(* operation may be another one that writes.                               *)
(***************************************************************************)
LEMMA IncludedTwice ==
  ASSUME NEW nssais
  PROVE  includeNssai(includeNssai(nssais)) = includeNssai(nssais)
<1> DEFINE m == includeNssai(nssais)
<1>1. ASSUME NEW n
      PROVE  [[n EXCEPT !.dnnListId = DEFAULT_VALUE] EXCEPT !.dnnListId = DEFAULT_VALUE]
             = [n EXCEPT !.dnnListId = DEFAULT_VALUE]
  OBVIOUS
<1>2. /\ m = [i \in DOMAIN nssais |-> m[i]]
      /\ \A i \in DOMAIN nssais :
           m[i] = IF nssais[i].dnnListId = ""
                    THEN [nssais[i] EXCEPT !.dnnListId = DEFAULT_VALUE] ELSE nssais[i]
  BY DEF includeNssai
<1> HIDE DEF m
<1>3. ASSUME NEW i \in DOMAIN nssais
      PROVE  (IF m[i].dnnListId = "" THEN [m[i] EXCEPT !.dnnListId = DEFAULT_VALUE] ELSE m[i])
             = m[i]
  <2>1. CASE nssais[i].dnnListId = ""
    BY <1>1, <1>2, <2>1
  <2>2. CASE nssais[i].dnnListId # ""
    BY <1>2, <2>2
  <2> QED
    BY <2>1, <2>2
<1>4. includeNssai(m) = [i \in DOMAIN nssais |-> m[i]]
  BY <1>2, <1>3 DEF includeNssai
<1> QED
  BY <1>2, <1>4 DEF m

LEMMA SetMutatedTwice ==
  ASSUME NEW set
  PROVE  LET m == [set EXCEPT !.defaultSingleNssais = includeNssai(@),
                              !.singleNssais = includeNssai(@)]
         IN  [m EXCEPT !.defaultSingleNssais = includeNssai(@),
                       !.singleNssais = includeNssai(@)] = m
<1> DEFINE D == includeNssai(set.defaultSingleNssais)
           S == includeNssai(set.singleNssais)
           m == [set EXCEPT !.defaultSingleNssais = includeNssai(@),
                            !.singleNssais = includeNssai(@)]
           again == [m EXCEPT !.defaultSingleNssais = includeNssai(@),
                              !.singleNssais = includeNssai(@)]
<1>1. includeNssai(D) = D /\ includeNssai(S) = S
  BY IncludedTwice
<1>2. /\ m = [name \in DOMAIN set |-> m[name]]
      /\ \A name \in DOMAIN set :
           m[name] = IF name = "defaultSingleNssais" THEN D
                     ELSE IF name = "singleNssais" THEN S ELSE set[name]
  OBVIOUS
<1>3. /\ again = [name \in DOMAIN m |-> again[name]]
      /\ \A name \in DOMAIN m :
           again[name] = IF name = "defaultSingleNssais" THEN includeNssai(m.defaultSingleNssais)
                         ELSE IF name = "singleNssais" THEN includeNssai(m.singleNssais)
                         ELSE m[name]
  OBVIOUS
<1> HIDE DEF D, S, m, again
<1>4. \A name \in DOMAIN set : again[name] = m[name]
  BY <1>1, <1>2, <1>3
<1>5. again = m
  BY <1>2, <1>3, <1>4
<1> QED
  BY <1>5 DEF again, m

LEMMA SetsMutatedTwice ==
  ASSUME NEW sets
  PROVE  MutateSets(MutateSets(sets)) = MutateSets(sets)
<1> DEFINE mutate(set) == [set EXCEPT !.defaultSingleNssais = includeNssai(@),
                                      !.singleNssais = includeNssai(@)]
           m == MutateSets(sets)
<1>1. \A set : mutate(mutate(set)) = mutate(set)
  BY SetMutatedTwice
<1>2. \A list : MutateSets(list) = [i \in DOMAIN list |-> mutate(list[i])]
  BY DEF MutateSets
<1> HIDE DEF mutate
<1>3. m = [i \in DOMAIN sets |-> mutate(sets[i])]
  BY <1>2
<1>4. MutateSets(m) = [i \in DOMAIN m |-> mutate(m[i])]
  BY <1>2
<1> HIDE DEF m
<1>5. MutateSets(m) = m
  BY <1>1, <1>3, <1>4
<1> QED
  BY <1>5 DEF m

LEMMA MutationsAreFinal ==
  ASSUME NEW c, c = [operation |-> c.operation, path |-> c.path, data |-> c.data],
         c.operation # "DELETE", NEW other, other # "DELETE"
  PROVE  LET m == computeMutations(c)
         IN  computeMutations([operation |-> other, path |-> c.path, data |-> m.data]).data
               = m.data
<1> DEFINE m == computeMutations(c)
           r == [operation |-> other, path |-> c.path, data |-> m.data]
<1>1. ASSUME NEW x, NEW y, NEW z, NEW d
      PROVE  [[operation |-> x, path |-> y, data |-> z] EXCEPT !.data = d].data = d
  OBVIOUS
<1>2. ASSUME NEW d PROVE [c EXCEPT !.data = d].data = d
  BY <1>1
<1>3. ASSUME NEW d PROVE [r EXCEPT !.data = d].data = d
  BY <1>1
<1>4. r.operation = other /\ r.path = c.path /\ r.data = m.data
  OBVIOUS
<1> HIDE DEF r
<1>5. CASE c.path.kind = "udmSliceProfile"
  <2> DEFINE once == [c.data EXCEPT !.plmnIdSets = MutateSets(@)]
             twice == [r.data EXCEPT !.plmnIdSets = MutateSets(@)]
  <2>1. m.data = once
    <3>1. m = [c EXCEPT !.data.plmnIdSets = MutateSets(@)]
      BY <1>5, Zenon DEF computeMutations
    <3>2. m = [c EXCEPT !.data = once]
      BY <3>1
    <3> QED
      BY <1>2, <3>2
  <2>2. computeMutations(r).data = twice
    <3>1. computeMutations(r) = [r EXCEPT !.data.plmnIdSets = MutateSets(@)]
      BY <1>4, <1>5, Zenon DEF computeMutations
    <3>2. computeMutations(r) = [r EXCEPT !.data = twice]
      BY <3>1
    <3> QED
      BY <1>3, <3>2
  <2>3. twice = once
    <3>1. r.data = once
      BY <1>4, <2>1
    <3> QED
      BY <3>1, SetsMutatedTwice
  <2> QED
    BY <2>1, <2>2, <2>3 DEF r
<1>6. CASE c.path.kind = "udmStaticData"
  <2> DEFINE once == [c.data EXCEPT !.udmSliceData = {MutateSets(sets) : sets \in @}]
             twice == [r.data EXCEPT !.udmSliceData = {MutateSets(sets) : sets \in @}]
  <2>1. m.data = once
    <3>1. m = [c EXCEPT !.data.udmSliceData = {MutateSets(sets) : sets \in @}]
      BY <1>6, Zenon DEF computeMutations
    <3>2. m = [c EXCEPT !.data = once]
      BY <3>1
    <3> QED
      BY <1>2, <3>2
  <2>2. computeMutations(r).data = twice
    <3>1. computeMutations(r) = [r EXCEPT !.data.udmSliceData = {MutateSets(sets) : sets \in @}]
      BY <1>4, <1>6, Zenon DEF computeMutations
    <3>2. computeMutations(r) = [r EXCEPT !.data = twice]
      BY <3>1
    <3> QED
      BY <1>3, <3>2
  <2>3. twice = once
    <3> DEFINE All(U) == {MutateSets(sets) : sets \in U}
    <3>1. \A U : All(All(U)) = All(U)
      BY SetsMutatedTwice
    <3>2. /\ once = [c.data EXCEPT !.udmSliceData = All(@)]
          /\ twice = [once EXCEPT !.udmSliceData = All(@)]
      BY <1>4, <2>1
    <3> HIDE DEF All, once, twice
    <3> QED
      BY <3>1, <3>2
  <2> QED
    BY <2>1, <2>2, <2>3 DEF r
<1>7. CASE c.path.kind \notin {"udmSliceProfile", "udmStaticData"}
  BY <1>4, <1>7 DEF computeMutations, r
<1> QED
  BY <1>5, <1>6, <1>7

===============================================================================
