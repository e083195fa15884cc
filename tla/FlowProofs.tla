------------------------------ MODULE FlowProofs ------------------------------
(***************************************************************************)
(* What the rules of ValidationData make of the database of                *)
(* ProvisioningFlow, for any clients, intents and initial content that     *)
(* satisfy its assumptions: with or without Serialized, but for the last   *)
(* theorem.                                                                *)
(***************************************************************************)
EXTENDS ProvisioningFlow, TLAPS, FiniteSetTheorems

(***************************************************************************)
(* Sequences.                                                              *)
(***************************************************************************)
LEMMA SequenceFacts ==
  ASSUME NEW list, IsSequence(list)
  PROVE  /\ Len(list) \in Nat
         /\ DOMAIN list = 1..Len(list)
  BY DEF IsSequence

LEMMA MappedSequence ==
  ASSUME NEW list, IsSequence(list), NEW m, m = [i \in DOMAIN list |-> m[i]]
  PROVE  IsSequence(m)
<1>1. Len(list) \in Nat /\ m = [i \in 1..Len(list) |-> m[i]]
  BY SequenceFacts
<1>2. \A i \in 1..Len(list) : m[i] \in Range(m)
  BY <1>1 DEF Range
<1> QED
  BY <1>1, <1>2 DEF IsSequence

LEMMA ConcatenatedRange ==
  ASSUME NEW a, NEW b, IsSequence(a), IsSequence(b)
  PROVE  Range(a \o b) = Range(a) \cup Range(b)
<1> DEFINE V == Range(a) \cup Range(b)
<1>1. a \in Seq(V) /\ b \in Seq(V)
  BY DEF IsSequence, Range
<1>2. a \o b \in Seq(V)
  BY <1>1
<1>3. ASSUME NEW i \in DOMAIN (a \o b) PROVE (a \o b)[i] \in V
  BY <1>2, <1>3
<1>4. ASSUME NEW i \in DOMAIN a PROVE \E j \in DOMAIN (a \o b) : (a \o b)[j] = a[i]
  <2>1. i \in 1..Len(a) /\ i \in DOMAIN (a \o b) /\ (a \o b)[i] = a[i]
    BY <1>1, <1>4
  <2> QED
    BY <2>1
<1>5. ASSUME NEW i \in DOMAIN b PROVE \E j \in DOMAIN (a \o b) : (a \o b)[j] = b[i]
  <2>1. /\ i \in 1..Len(b)
        /\ i + Len(a) \in DOMAIN (a \o b)
        /\ (a \o b)[i + Len(a)] = b[i]
    BY <1>1, <1>5
  <2> QED
    BY <2>1
<1> QED
  BY <1>3, <1>4, <1>5 DEF Range

(***************************************************************************)
(* computeMutations writes "Default" where an nssai of a slice profile has *)
(* no dnnListId, and nothing else: identifiers and dnnLists stay.          *)
(***************************************************************************)
IncludedFrom(x, y) ==
  /\ IsNssai(x)
  /\ x.dnnListId = IF y.dnnListId = "" THEN DEFAULT_VALUE ELSE y.dnnListId
  /\ x.sst = y.sst /\ x.sd = y.sd /\ x.charging = y.charging

LEMMA IncludedNssais ==
  ASSUME NEW nssais, IsSequence(nssais), \A n \in Range(nssais) : IsNssai(n)
  PROVE  /\ IsSequence(includeNssai(nssais))
         /\ DOMAIN includeNssai(nssais) = DOMAIN nssais
         /\ \A i \in DOMAIN nssais : IncludedFrom(includeNssai(nssais)[i], nssais[i])
<1> DEFINE m == includeNssai(nssais)
<1>1. DOMAIN m = DOMAIN nssais /\ m = [i \in DOMAIN nssais |-> m[i]]
  BY DEF includeNssai
<1>2. IsSequence(m)
  <2> HIDE DEF m
  <2> QED
    BY <1>1, MappedSequence
<1>3. \A i \in DOMAIN nssais : IsNssai(nssais[i])
  BY DEF Range
<1>4. ASSUME NEW i \in DOMAIN nssais PROVE IncludedFrom(m[i], nssais[i])
  <2>1. m[i] = IF nssais[i].dnnListId = "" THEN [nssais[i] EXCEPT !.dnnListId = DEFAULT_VALUE]
                                           ELSE nssais[i]
    BY DEF includeNssai
  <2> QED
    BY <1>3, <2>1 DEF IsNssai, IncludedFrom
<1> QED
  BY <1>1, <1>2, <1>4

LEMMA IncludedRange ==
  ASSUME NEW nssais, IsSequence(nssais), \A n \in Range(nssais) : IsNssai(n),
         NEW x \in Range(includeNssai(nssais))
  PROVE  \E y \in Range(nssais) : IncludedFrom(x, y)
<1>1. PICK i \in DOMAIN includeNssai(nssais) : x = includeNssai(nssais)[i]
  BY DEF Range
<1>2. i \in DOMAIN nssais
  BY <1>1, IncludedNssais
<1>3. nssais[i] \in Range(nssais)
  BY <1>2 DEF Range
<1> QED
  BY <1>1, <1>2, <1>3, IncludedNssais

LEMMA MutatedSet ==
  ASSUME NEW sets, \A s \in Range(sets) : IsPlmnIdSet(s), NEW i \in DOMAIN sets
  PROVE  LET t == MutateSets(sets)[i]
         IN  /\ IsPlmnIdSet(t)
             /\ t.plmnIdSetIdentifier = sets[i].plmnIdSetIdentifier
             /\ t.dnnLists = sets[i].dnnLists
             /\ ReferencedIds(t) \subseteq ReferencedIds(sets[i]) \cup {DEFAULT_VALUE}
             /\ \A x \in Range(AllNssais(t)) :
                  \E y \in Range(AllNssais(sets[i])) : IncludedFrom(x, y)
<1> DEFINE s == sets[i]
           t == MutateSets(sets)[i]
           d == s.defaultSingleNssais
           n == s.singleNssais
<1>1. IsPlmnIdSet(s)
  BY DEF Range
<1>2. /\ DOMAIN t = DOMAIN s
      /\ t.plmnIdSetIdentifier = s.plmnIdSetIdentifier
      /\ t.dnnLists = s.dnnLists
      /\ t.defaultSingleNssais = includeNssai(d)
      /\ t.singleNssais = includeNssai(n)
  BY <1>1 DEF MutateSets, IsPlmnIdSet
<1> HIDE DEF s, t
<1>3. /\ IsSequence(includeNssai(d))
      /\ IsSequence(d)
      /\ \A x \in Range(includeNssai(d)) : \E y \in Range(d) : IncludedFrom(x, y)
  BY <1>1, IncludedNssais, IncludedRange DEF IsPlmnIdSet
<1>4. /\ IsSequence(includeNssai(n))
      /\ IsSequence(n)
      /\ \A x \in Range(includeNssai(n)) : \E y \in Range(n) : IncludedFrom(x, y)
  BY <1>1, IncludedNssais, IncludedRange DEF IsPlmnIdSet
<1>5. IsPlmnIdSet(t)
  BY <1>1, <1>2, <1>3, <1>4 DEF IsPlmnIdSet, IncludedFrom
<1>6. /\ Range(AllNssais(t)) = Range(includeNssai(d)) \cup Range(includeNssai(n))
      /\ Range(AllNssais(s)) = Range(d) \cup Range(n)
  BY <1>2, <1>3, <1>4, ConcatenatedRange DEF AllNssais
<1>7. \A x \in Range(AllNssais(t)) : \E y \in Range(AllNssais(s)) : IncludedFrom(x, y)
  BY <1>3, <1>4, <1>6
<1>8. ReferencedIds(t) \subseteq ReferencedIds(s) \cup {DEFAULT_VALUE}
  BY <1>7 DEF ReferencedIds, IncludedFrom
<1> QED
  BY <1>2, <1>5, <1>7, <1>8 DEF s, t

LEMMA MutatedProfile ==
  ASSUME NEW c, IsChange(c), c.path.kind = "udmSliceProfile", c.operation # "DELETE"
  PROVE  LET m == computeMutations(c)
         IN  /\ {"udmSliceProfileId", "plmnIdSets"} \subseteq DOMAIN m.data
             /\ m.data.udmSliceProfileId = c.data.udmSliceProfileId
             /\ m.data.plmnIdSets = MutateSets(c.data.plmnIdSets)
  BY Zenon DEF computeMutations, IsChange, IsProfile

LEMMA MutationKeepsPath ==
  ASSUME NEW c, IsChange(c)
  PROVE  /\ computeMutations(c).path = c.path
         /\ computeMutations(c).operation = c.operation
<1>1. CASE c.path.kind = "udmSliceProfile" /\ c.operation # "DELETE"
  BY <1>1 DEF computeMutations, IsChange
<1>2. CASE c.path.kind = "udmStaticData" /\ c.operation # "DELETE"
  BY <1>2 DEF computeMutations, IsChange
<1>3. CASE c.operation = "DELETE" \/ c.path.kind \notin {"udmSliceProfile", "udmStaticData"}
  BY <1>3 DEF computeMutations, IsChange
<1> QED
  BY <1>1, <1>2, <1>3

-------------------------------------------------------------------------------
(***************************************************************************)
(* Repeated dnns. A list without repeats has every dnn at most once, and a *)
(* dnn at a repeating position is at least once before it.                 *)
(***************************************************************************)
LEMMA DnnNamesPositions ==
  ASSUME NEW l, IsSequence(l.dnnDataList)
  PROVE  /\ DOMAIN DnnNames(l) \subseteq Nat
         /\ IsFiniteSet(DOMAIN DnnNames(l))
<1>1. /\ Len(l.dnnDataList) \in Nat
      /\ DOMAIN l.dnnDataList = 1..Len(l.dnnDataList)
  BY SequenceFacts
<1>2. DOMAIN DnnNames(l) \subseteq 1..Len(l.dnnDataList)
  BY <1>1 DEF DnnNames
<1>3. IsFiniteSet(1..Len(l.dnnDataList))
  BY <1>1, FS_Interval
<1> QED
  BY <1>1, <1>2, <1>3, FS_Subset

LEMMA AtMostOnce ==
  ASSUME NEW l, IsSequence(l.dnnDataList), ~HasRepeats(DnnNames(l)), NEW x
  PROVE  InAll(DnnNames(l), x) \in {0, 1}
<1> DEFINE dnns == DnnNames(l)
           T == {i \in DOMAIN dnns : dnns[i] = x}
<1>1. DOMAIN dnns \subseteq Nat
  BY DnnNamesPositions
<1>2. \A i, j \in T : i = j
  BY <1>1 DEF HasRepeats, Repeats
<1>3. CASE T = {}
  BY <1>3, FS_EmptySet DEF InAll
<1>4. CASE \E i \in T : T = {i}
  BY <1>4, FS_Singleton DEF InAll
<1> QED
  BY <1>2, <1>3, <1>4

LEMMA AtLeastOnce ==
  ASSUME NEW l, IsSequence(l.dnnDataList), NEW j \in Repeats(DnnNames(l))
  PROVE  Times(DnnNames(l), DnnNames(l)[j], j) \in Nat \ {0}
<1> DEFINE dnns == DnnNames(l)
           T == {i \in DOMAIN dnns : i < j /\ dnns[i] = dnns[j]}
<1>1. T # {}
  BY DEF Repeats
<1>2. IsFiniteSet(T)
  <2>1. T \subseteq DOMAIN dnns
    OBVIOUS
  <2> QED
    BY <2>1, DnnNamesPositions, FS_Subset
<1>3. Cardinality(T) \in Nat /\ Cardinality(T) # 0
  BY <1>1, <1>2, FS_CardinalityType, FS_EmptySet
<1> QED
  BY <1>3 DEF Times

LEMMA StoredDnns ==
  ASSUME NEW profile, IsProfile(profile), DnnsAreDistinct(profile), NEW plmn, NEW id,
         NEW stored \in DnnsOf(profile, plmn, id), NEW x
  PROVE  InAll(stored, x) \in {0, 1}
<1>1. PICK s \in Range(profile.plmnIdSets) : \E k \in Range(s.dnnLists) : stored = DnnNames(k)
  BY DEF DnnsOf, First, Range
<1>2. PICK l \in Range(s.dnnLists) : stored = DnnNames(l)
  BY <1>1
<1>3. IsSequence(l.dnnDataList) /\ ~HasRepeats(DnnNames(l))
  BY DEF IsProfile, IsPlmnIdSet, DnnsAreDistinct
<1> QED
  BY <1>2, <1>3, AtMostOnce

\* A repeated dnn is refused when the related resource has no repeated ones.
LEMMA DistinctOnUpdate ==
  ASSUME NEW profile, IsProfile(profile), DnnsAreDistinct(profile),
         NEW s, NEW l, IsSequence(l.dnnDataList), ~RepeatedDnnsOnUpdate(s, l, profile)
  PROVE  ~HasRepeats(DnnNames(l))
<1> SUFFICES ASSUME NEW j \in Repeats(DnnNames(l)) PROVE FALSE
  BY DEF HasRepeats
<1> DEFINE dnns == DnnNames(l)
<1>1. PICK stored \in DnnsOf(profile, s.plmnIdSetIdentifier, l.dnnListId) :
        ~(InAll(stored, dnns[j]) <= Times(dnns, dnns[j], j))
  BY DEF RepeatedDnnsOnUpdate
<1>2. InAll(stored, dnns[j]) \in {0, 1}
  BY <1>1, StoredDnns
<1>3. Times(dnns, dnns[j], j) \in Nat \ {0}
  BY AtLeastOnce
<1> HIDE DEF dnns
<1> QED
  BY <1>1, <1>2, <1>3

-------------------------------------------------------------------------------
(***************************************************************************)
(* What the rules say of a slice profile they accept.                      *)
(***************************************************************************)
GoodProfile(profile) ==
  IsProfile(profile) /\ DnnsAreDistinct(profile) /\ ReferencesResolve(profile)

GoodContent(content) ==
  /\ \A p \in DOMAIN content : p.kind \in PathKinds
  /\ \A profile \in ProfilesOf(content) : GoodProfile(profile)

\* A set without dnnLists has no references, one with dnnLists has a default
\* one, and all its references are to one of them.
CommonRulesHold(profile) ==
  \A s \in Range(profile.plmnIdSets) :
    /\ ReferencedIds(s) \subseteq DnnListIdsOf(s)
    /\ s.dnnLists = <<>> \/ DEFAULT_VALUE \in DnnListIdsOf(s)

LEMMA NoConflict ==
  ASSUME NEW errors, Conflict(errors).valid
  PROVE  errors = {}
  BY DEF Conflict

LEMMA CommonRules ==
  ASSUME NEW profile, CommonUnlessEmpty(profile.plmnIdSets, TRUE) = {}
  PROVE  CommonRulesHold(profile)
<1> DEFINE sets == profile.plmnIdSets
<1>1. CASE sets = <<>>
  BY <1>1 DEF CommonRulesHold, Range
<1>2. CASE sets # <<>>
  <2>1. checkForCommonUdmSliceProfileRules(sets, TRUE) = {}
    BY <1>2 DEF CommonUnlessEmpty
  <2>2. \A s \in Range(sets) : PlmnIdSetErrors(s, TRUE) = {}
    BY <2>1 DEF checkForCommonUdmSliceProfileRules
  <2> QED
    BY <2>2 DEF CommonRulesHold, PlmnIdSetErrors, Raise
<1> QED
  BY <1>1, <1>2

\* The two ways a slice profile is accepted.
LEMMA AcceptedByRules ==
  ASSUME NEW c, c.path.kind = "udmSliceProfile", c.operation # "DELETE",
         NEW resources, CheckChange(c, resources).valid
  PROVE  /\ CommonUnlessEmpty(c.data.plmnIdSets, TRUE) = {}
         /\ \/ /\ c.operation = "CREATE"
               /\ checkForRepeatedDnnsandNssais(c.data.plmnIdSets) = {}
            \/ /\ c.operation # "CREATE"
               /\ c.path \in DOMAIN resources
               /\ checkForUpdateSpecificUdmSliceProfileRules(
                    c.data.plmnIdSets, resources[c.path]) = {}
<1>1. UdmSliceProfileRules(c, resources).valid
  BY DEF CheckChange
<1>2. CASE c.operation = "CREATE"
  BY <1>1, <1>2, NoConflict DEF UdmSliceProfileRules, checkForCreationUdmSliceProfileRules
<1>3. CASE c.operation # "CREATE"
  <2> DEFINE r == RelatedResource(resources, c.path)
  <2>1. checkForUpdateUdmSliceProfileRules(c.data, r).valid
    BY <1>1, <1>3 DEF UdmSliceProfileRules
  <2>2. r # {}
    <3> HIDE DEF r
    <3> QED
      BY <2>1 DEF checkForUpdateUdmSliceProfileRules, Unprocessable
  <2>3. c.path \in DOMAIN resources /\ r = {resources[c.path]}
    BY <2>2 DEF RelatedResource
  <2>4. CommonUnlessEmpty(c.data.plmnIdSets, TRUE)
        \cup UNION {checkForUpdateSpecificUdmSliceProfileRules(c.data.plmnIdSets, x) : x \in r}
        = {}
    <3> HIDE DEF r
    <3> QED
      BY <2>1, <2>2, NoConflict DEF checkForUpdateUdmSliceProfileRules
  <2> QED
    BY <1>3, <2>3, <2>4
<1> QED
  BY <1>2, <1>3

LEMMA AcceptedProfile ==
  ASSUME NEW c, IsChange(c), c.path.kind = "udmSliceProfile", c.operation # "DELETE",
         NEW resources, GoodContent(resources), CheckChange(c, resources).valid
  PROVE  CommonRulesHold(c.data) /\ DnnsAreDistinct(c.data)
<1>1. CommonRulesHold(c.data)
  BY AcceptedByRules, CommonRules
<1>2. CASE c.operation = "CREATE"
  <2>1. checkForRepeatedDnnsandNssais(c.data.plmnIdSets) = {}
    BY <1>2, AcceptedByRules
  <2> QED
    BY <1>1, <2>1 DEF checkForRepeatedDnnsandNssais, Raise, DnnsAreDistinct
<1>3. CASE c.operation # "CREATE"
  <2> DEFINE stored == resources[c.path]
  <2>1. /\ c.path \in DOMAIN resources
        /\ checkForUpdateSpecificUdmSliceProfileRules(c.data.plmnIdSets, stored) = {}
    BY <1>3, AcceptedByRules
  <2>2. IsProfile(stored) /\ DnnsAreDistinct(stored)
    BY <2>1 DEF GoodContent, GoodProfile, ProfilesOf, PathsOf
  <2>3. \A s \in Range(c.data.plmnIdSets) : \A l \in Range(s.dnnLists) :
          ~RepeatedDnnsOnUpdate(s, l, stored)
    BY <2>1 DEF checkForUpdateSpecificUdmSliceProfileRules, Raise
  <2>4. \A s \in Range(c.data.plmnIdSets) : \A l \in Range(s.dnnLists) :
          IsSequence(l.dnnDataList)
    BY DEF IsChange, IsProfile, IsPlmnIdSet
  <2> HIDE DEF stored
  <2>5. \A s \in Range(c.data.plmnIdSets) : \A l \in Range(s.dnnLists) :
          ~HasRepeats(DnnNames(l))
    BY <2>2, <2>3, <2>4, DistinctOnUpdate
  <2> QED
    BY <1>1, <2>5 DEF DnnsAreDistinct
<1> QED
  BY <1>2, <1>3

\* The mutations keep all of it: they add references to the default dnnList
\* only, and sets without dnnLists have no others.
LEMMA MutatedIsGood ==
  ASSUME NEW c, IsChange(c), c.path.kind = "udmSliceProfile", c.operation # "DELETE",
         CommonRulesHold(c.data), DnnsAreDistinct(c.data)
  PROVE  /\ GoodProfile(computeMutations(c).data)
         /\ DnnListIdPairs(computeMutations(c).data.plmnIdSets)
              = DnnListIdPairs(c.data.plmnIdSets)
<1> DEFINE sets == c.data.plmnIdSets
           mutated == MutateSets(sets)
           profile == computeMutations(c).data
<1>1. /\ profile.plmnIdSets = mutated
      /\ {"udmSliceProfileId", "plmnIdSets"} \subseteq DOMAIN profile
  BY MutatedProfile
<1>2. \A s \in Range(sets) : IsPlmnIdSet(s)
  BY DEF IsChange, IsProfile
<1>3. DOMAIN mutated = DOMAIN sets
  BY DEF MutateSets
<1>4. ASSUME NEW i \in DOMAIN sets
      PROVE  /\ IsPlmnIdSet(mutated[i])
             /\ mutated[i].plmnIdSetIdentifier = sets[i].plmnIdSetIdentifier
             /\ mutated[i].dnnLists = sets[i].dnnLists
             /\ ReferencedIds(mutated[i]) \subseteq ReferencedIds(sets[i]) \cup {DEFAULT_VALUE}
             /\ DnnListIdsOf(mutated[i]) = DnnListIdsOf(sets[i])
             /\ sets[i] \in Range(sets)
  BY <1>2, <1>4, MutatedSet DEF DnnListIdsOf, Range
<1>5. IsSequence(mutated)
  <2>1. IsSequence(sets) /\ mutated = [i \in DOMAIN sets |-> mutated[i]]
    BY <1>3 DEF IsChange, IsProfile, MutateSets
  <2> HIDE DEF mutated
  <2> QED
    BY <2>1, MappedSequence
<1> HIDE DEF mutated
<1>6. IsProfile(profile)
  BY <1>1, <1>3, <1>4, <1>5 DEF IsProfile, Range
<1>7. DnnsAreDistinct(profile)
  BY <1>1, <1>3, <1>4 DEF DnnsAreDistinct, Range
<1>8. ReferencesResolve(profile)
  <2> SUFFICES ASSUME NEW i \in DOMAIN sets
               PROVE  \/ ReferencedIds(mutated[i]) \subseteq DnnListIdsOf(mutated[i])
                      \/ /\ mutated[i].dnnLists = <<>>
                         /\ ReferencedIds(mutated[i]) = {DEFAULT_VALUE}
    BY <1>1, <1>3 DEF ReferencesResolve, Range
  <2>1. /\ ReferencedIds(sets[i]) \subseteq DnnListIdsOf(sets[i])
        /\ sets[i].dnnLists = <<>> \/ DEFAULT_VALUE \in DnnListIdsOf(sets[i])
    BY <1>4 DEF CommonRulesHold
  <2>2. sets[i].dnnLists = <<>> => DnnListIdsOf(sets[i]) = {}
    BY DEF DnnListIdsOf, Range
  <2> QED
    BY <1>4, <2>1, <2>2
<1>9. DnnListIdPairs(mutated) = DnnListIdPairs(sets)
  BY <1>3, <1>4 DEF DnnListIdPairs, Range
<1> QED
  BY <1>1, <1>6, <1>7, <1>8, <1>9 DEF GoodProfile

-------------------------------------------------------------------------------
(***************************************************************************)
(* A resource in the database after a store was there before, or is the    *)
(* data of one of the stored changes.                                      *)
(***************************************************************************)
LEMMA StoredOrKept ==
  ASSUME NEW content, NEW list, DOMAIN list \subseteq Nat,
         NEW p \in DOMAIN ApplyAll(content, list)
  PROVE  \/ p \in DOMAIN content /\ ApplyAll(content, list)[p] = content[p]
         \/ \E i \in DOMAIN list : /\ list[i].path = p
                                   /\ list[i].operation # "DELETE"
                                   /\ ApplyAll(content, list)[p] = list[i].data
<1> DEFINE last == LastFor(list, p)
           written == {q \in {list[i].path : i \in DOMAIN list} :
                         \E c \in LastFor(list, q) : c.operation # "DELETE"}
           kept == {q \in DOMAIN content : LastFor(list, q) = {}}
<1>1. /\ p \in written \cup kept
      /\ ApplyAll(content, list)[p] =
           IF p \in kept THEN content[p] ELSE (CHOOSE c \in last : TRUE).data
  BY DEF ApplyAll
<1>2. CASE p \in kept
  BY <1>1, <1>2
<1>3. CASE p \notin kept
  <2>1. PICK c \in last : c.operation # "DELETE"
    BY <1>1, <1>3
  <2>2. PICK i \in DOMAIN list :
          /\ list[i] = c
          /\ list[i].path = p
          /\ \A j \in DOMAIN list : list[j].path = p => j <= i
    BY <2>1 DEF LastFor
  <2>3. \A d \in last : d = c
    <3> SUFFICES ASSUME NEW d \in last PROVE d = c
      OBVIOUS
    <3>1. PICK k \in DOMAIN list :
            /\ list[k] = d
            /\ list[k].path = p
            /\ \A j \in DOMAIN list : list[j].path = p => j <= k
      BY DEF LastFor
    <3>2. i <= k /\ k <= i /\ i \in Nat /\ k \in Nat
      BY <2>2, <3>1
    <3> QED
      BY <2>2, <3>1, <3>2
  <2>4. (CHOOSE d \in last : TRUE) = c
    <3> HIDE DEF last
    <3> QED
      BY <2>1, <2>3
  <2> QED
    BY <1>1, <1>3, <2>1, <2>2, <2>4
<1> QED
  BY <1>2, <1>3

LEMMA IntentFacts ==
  ASSUME NEW list \in Intents \cup {<<>>}
  PROVE  /\ DOMAIN list \subseteq Nat
         /\ \A i \in DOMAIN list : IsChange(list[i])
         /\ DOMAIN Mutated(list) = DOMAIN list
         /\ \A i \in DOMAIN list : Mutated(list)[i] = computeMutations(list[i])
<1>1. CASE list \in Intents
  <2>1. DOMAIN list = 1..Len(list) /\ Len(list) \in Nat
    BY <1>1, IntentsAssumption, SequenceFacts
  <2>2. \A i \in DOMAIN list : IsChange(list[i])
    BY <1>1, IntentsAssumption DEF Range
  <2> QED
    BY <2>1, <2>2 DEF Mutated
<1>2. CASE list = <<>>
  BY <1>2 DEF Mutated
<1> QED
  BY <1>1, <1>2

\* A resource of the database after a store that is not as it was before is
\* the mutated data of a change that passed.
LEMMA StoredByChange ==
  ASSUME NEW content, NEW list \in Intents \cup {<<>>}, NEW resources,
         AllPass(list, resources),
         NEW p \in DOMAIN ApplyAll(content, Mutated(list))
  PROVE  \/ /\ p \in DOMAIN content
            /\ ApplyAll(content, Mutated(list))[p] = content[p]
         \/ \E i \in DOMAIN list :
              /\ IsChange(list[i])
              /\ list[i].path = p
              /\ list[i].operation # "DELETE"
              /\ CheckChange(list[i], resources).valid
              /\ ApplyAll(content, Mutated(list))[p] = computeMutations(list[i]).data
<1> DEFINE mutated == Mutated(list)
           stored == ApplyAll(content, mutated)
<1>1. DOMAIN mutated \subseteq Nat
  BY IntentFacts
<1>2. \/ p \in DOMAIN content /\ stored[p] = content[p]
      \/ \E i \in DOMAIN mutated : /\ mutated[i].path = p
                                   /\ mutated[i].operation # "DELETE"
                                   /\ stored[p] = mutated[i].data
  <2> HIDE DEF mutated
  <2> QED
    BY <1>1, StoredOrKept DEF mutated
<1>3. ASSUME NEW i \in DOMAIN mutated
      PROVE  /\ i \in DOMAIN list
             /\ IsChange(list[i])
             /\ mutated[i] = computeMutations(list[i])
             /\ mutated[i].path = list[i].path
             /\ mutated[i].operation = list[i].operation
             /\ CheckChange(list[i], resources).valid
  BY <1>3, IntentFacts, MutationKeepsPath DEF AllPass
<1> HIDE DEF mutated, stored
<1> QED
  BY <1>2, <1>3 DEF mutated, stored

LEMMA StoreKeepsContent ==
  ASSUME NEW content, GoodContent(content), NEW resources, GoodContent(resources),
         NEW list \in Intents \cup {<<>>}, AllPass(list, resources)
  PROVE  GoodContent(ApplyAll(content, Mutated(list)))
<1> DEFINE stored == ApplyAll(content, Mutated(list))
<1>1. ASSUME NEW p \in DOMAIN stored
      PROVE  /\ p.kind \in PathKinds
             /\ p.kind = "udmSliceProfile" => GoodProfile(stored[p])
  <2>1. CASE p \in DOMAIN content /\ stored[p] = content[p]
    BY <2>1 DEF GoodContent, ProfilesOf, PathsOf
  <2>2. ASSUME NEW i \in DOMAIN list,
               IsChange(list[i]),
               list[i].path = p,
               list[i].operation # "DELETE",
               CheckChange(list[i], resources).valid,
               stored[p] = computeMutations(list[i]).data
        PROVE  /\ p.kind \in PathKinds
               /\ p.kind = "udmSliceProfile" => GoodProfile(stored[p])
    <3> DEFINE c == list[i]
    <3>1. p.kind \in PathKinds
      BY <2>2 DEF IsChange
    <3>2. CASE p.kind = "udmSliceProfile"
      <4>1. /\ IsChange(c) /\ c.path.kind = "udmSliceProfile" /\ c.operation # "DELETE"
            /\ CheckChange(c, resources).valid
        BY <2>2, <3>2
      <4> HIDE DEF c
      <4>2. CommonRulesHold(c.data) /\ DnnsAreDistinct(c.data)
        BY <4>1, AcceptedProfile
      <4>3. GoodProfile(computeMutations(c).data)
        BY <4>1, <4>2, MutatedIsGood
      <4> QED
        BY <2>2, <3>1, <4>3 DEF c
    <3> QED
      BY <3>1, <3>2
  <2> QED
    BY <1>1, <2>1, <2>2, StoredByChange
<1> HIDE DEF stored
<1>2. GoodContent(stored)
  BY <1>1 DEF GoodContent, ProfilesOf, PathsOf
<1> QED
  BY <1>2 DEF stored

-------------------------------------------------------------------------------
(***************************************************************************)
(* The inductive invariant. That the database is good is inductive only    *)
(* together with what the clients carry: an answer is the mutation of      *)
(* changes that passed against what was read, and what was read was good   *)
(* when it was, which does not change when another client stores.          *)
(***************************************************************************)
Typed ==
  /\ step \in [Clients -> {"idle", "read", "answered"}]
  /\ changes \in [Clients -> Intents \cup {<<>>}]
  /\ DOMAIN related = Clients
  /\ DOMAIN answer = Clients

AnswerOf(c) ==
  /\ step[c] # "answered" => answer[c] = {}
  /\ \A accepted \in answer[c] :
       accepted = Mutated(changes[c]) /\ AllPass(changes[c], related[c])

FlowInv ==
  /\ GoodContent(db)
  /\ Typed
  /\ \A c \in Clients : GoodContent(related[c]) /\ AnswerOf(c)

LEMMA FlowInvInit == Init => FlowInv
<1> SUFFICES ASSUME Init PROVE FlowInv
  OBVIOUS
<1>1. GoodContent(InitialDb)
  BY InitialDbAssumption DEF GoodContent, GoodProfile
<1> QED
  BY <1>1 DEF Init, FlowInv, Typed, AnswerOf

LEMMA ForgetKeeps ==
  ASSUME FlowInv, NEW c \in Clients, Forget(c), GoodContent(db')
  PROVE  FlowInv'
<1>1. GoodContent(InitialDb)
  BY InitialDbAssumption DEF GoodContent, GoodProfile
<1>2. Typed'
  BY DEF FlowInv, Typed, Forget
<1>3. ASSUME NEW d \in Clients PROVE GoodContent(related[d])' /\ AnswerOf(d)'
  <2>1. CASE d = c
    BY <1>1, <2>1 DEF FlowInv, Typed, Forget, AnswerOf
  <2>2. CASE d # c
    BY <2>2 DEF FlowInv, Typed, Forget, AnswerOf
  <2> QED
    BY <2>1, <2>2
<1> QED
  BY <1>2, <1>3 DEF FlowInv

LEMMA FlowInvNext == FlowInv /\ [Next]_vars => FlowInv'
<1> SUFFICES ASSUME FlowInv, [Next]_vars PROVE FlowInv'
  OBVIOUS
<1>1. ASSUME NEW c \in Clients, Read(c) PROVE FlowInv'
  <2>1. /\ db' = db
        /\ Typed'
    BY <1>1 DEF FlowInv, Typed, Read
  <2>2. ASSUME NEW d \in Clients PROVE GoodContent(related[d])' /\ AnswerOf(d)'
    BY <1>1 DEF FlowInv, Typed, Read, AnswerOf
  <2> QED
    BY <2>1, <2>2 DEF FlowInv
<1>2. ASSUME NEW c \in Clients, Validate(c) PROVE FlowInv'
  <2>1. /\ db' = db
        /\ related' = related
        /\ Typed'
    BY <1>2 DEF FlowInv, Typed, Validate
  <2>2. ASSUME NEW d \in Clients PROVE AnswerOf(d)'
    BY <1>2 DEF FlowInv, Typed, Validate, AnswerOf
  <2> QED
    BY <2>1, <2>2 DEF FlowInv
<1>3. ASSUME NEW c \in Clients, Store(c) PROVE FlowInv'
  <2>1. PICK accepted \in answer[c] : db' = ApplyAll(db, accepted)
    BY <1>3 DEF Store
  <2>2. /\ accepted = Mutated(changes[c])
        /\ AllPass(changes[c], related[c])
        /\ changes[c] \in Intents \cup {<<>>}
        /\ GoodContent(db)
        /\ GoodContent(related[c])
    BY DEF FlowInv, AnswerOf, Typed
  <2>3. GoodContent(db')
    BY <2>1, <2>2, StoreKeepsContent
  <2> QED
    BY <1>3, <2>3, ForgetKeeps DEF Store
<1>4. ASSUME NEW c \in Clients, Abandon(c) PROVE FlowInv'
  <2>1. GoodContent(db')
    BY <1>4 DEF Abandon, FlowInv
  <2> QED
    BY <1>4, <2>1, ForgetKeeps DEF Abandon
<1>5. CASE UNCHANGED vars
  BY <1>5 DEF FlowInv, vars, Typed, AnswerOf
<1> QED
  BY <1>1, <1>2, <1>3, <1>4, <1>5 DEF Next

THEOREM FlowInvariant == Spec => []FlowInv
  BY FlowInvInit, FlowInvNext, PTL DEF Spec

(***************************************************************************)
(* A client that has stopped or is done leaves nothing behind, whatever    *)
(* the others do: what it sends is one of its intents, and it holds an     *)
(* answer only between the answer and the store.                           *)
(***************************************************************************)
THEOREM FlowTypeOK == Spec => []TypeOK
<1>1. FlowInv => TypeOK
  BY DEF FlowInv, GoodContent, Typed, AnswerOf, TypeOK
<1> QED
  BY <1>1, FlowInvariant, PTL

(***************************************************************************)
(* No dnnList of a stored slice profile gets the same dnn twice, although  *)
(* an UPDATE lets repeated dnns pass that the sender claims to have read,  *)
(* and although what was read may be stale.                                *)
(***************************************************************************)
THEOREM DnnsStayDistinct == Spec => []NoRepeatedDnns
<1>1. FlowInv => NoRepeatedDnns
  BY DEF FlowInv, GoodContent, GoodProfile, NoRepeatedDnns
<1> QED
  BY <1>1, FlowInvariant, PTL

(***************************************************************************)
(* The nssais of a stored slice profile point to dnnLists of their set, or *)
(* the set has no dnnLists and computeMutations wrote "Default": the       *)
(* mutations come after the rules, and nothing checks what they write.     *)
(***************************************************************************)
THEOREM ReferencesStayResolved == Spec => []ProfileReferencesResolve
<1>1. FlowInv => ProfileReferencesResolve
  BY DEF FlowInv, GoodContent, GoodProfile, ProfileReferencesResolve
<1> QED
  BY <1>1, FlowInvariant, PTL

-------------------------------------------------------------------------------
(***************************************************************************)
(* With the database for itself, a client in a round has read what is in   *)
(* the database, and what it sends is a CREATE only where there is nothing.*)
(***************************************************************************)
Fresh(c) ==
  step[c] # "idle" =>
    /\ \A other \in Clients : other # c => step[other] = "idle"
    /\ related[c] = db
    /\ Sensible(changes[c])

SerialInv == FlowInv /\ \A c \in Clients : Fresh(c)

LEMMA SerialForget ==
  ASSUME SerialInv, NEW c \in Clients, Forget(c), \A d \in Clients \ {c} : step[d] = "idle"
  PROVE  \A d \in Clients : Fresh(d)'
  BY DEF SerialInv, FlowInv, Typed, Forget, Fresh

LEMMA SerialInvNext ==
  ASSUME Serialized
  PROVE  SerialInv /\ [Next]_vars => SerialInv'
<1> SUFFICES ASSUME SerialInv, [Next]_vars PROVE \A d \in Clients : Fresh(d)'
  BY FlowInvNext DEF SerialInv
<1>1. ASSUME NEW c \in Clients, Read(c), NEW d \in Clients PROVE Fresh(d)'
  <2>1. CASE d = c
    <3>1. /\ related'[c] = db /\ db' = db
          /\ \A other \in Clients : other # c => step'[other] = "idle"
          /\ \E intent : Sensible(intent) /\ changes'[c] = intent
      BY <1>1 DEF Read, SerialInv, FlowInv, Typed
    <3> QED
      BY <2>1, <3>1 DEF Fresh, Sensible
  <2>2. CASE d # c
    <3>1. step'[d] = "idle"
      BY <1>1, <2>2 DEF Read, SerialInv, FlowInv, Typed
    <3> QED
      BY <3>1 DEF Fresh
  <2> QED
    BY <2>1, <2>2
<1>2. ASSUME NEW c \in Clients, Validate(c), NEW d \in Clients PROVE Fresh(d)'
  <2>1. /\ db' = db /\ changes' = changes /\ related' = related
        /\ \A e \in Clients : step'[e] = "idle" <=> step[e] = "idle"
    BY <1>2 DEF Validate, SerialInv, FlowInv, Typed
  <2> QED
    BY <2>1 DEF SerialInv, Fresh, Sensible
<1>3. ASSUME NEW c \in Clients, Store(c) \/ Abandon(c) PROVE \A d \in Clients : Fresh(d)'
  <2>1. Forget(c) /\ step[c] # "idle"
    BY <1>3 DEF Store, Abandon
  <2> QED
    BY <2>1, SerialForget DEF SerialInv, Fresh
<1>4. CASE UNCHANGED vars
  BY <1>4 DEF SerialInv, vars, Fresh, Sensible
<1> QED
  BY <1>1, <1>2, <1>3, <1>4 DEF Next

LEMMA SerialInvariant ==
  ASSUME Serialized
  PROVE  Spec => []SerialInv
<1>1. Init => SerialInv
  BY FlowInvInit DEF SerialInv, Init, Fresh
<1> QED
  BY <1>1, SerialInvNext, PTL DEF Spec

(***************************************************************************)
(* What an UPDATE leaves of the dnnListIds of the slice profile it was     *)
(* read against.                                                           *)
(***************************************************************************)
KeptOrMovedUp(old, new) ==
  \A pair \in DnnListIdPairs(old.plmnIdSets) :
    /\ \E k \in DnnListIdPairs(new.plmnIdSets) : k[1] = pair[1]
    /\ \E k \in DnnListIdPairs(new.plmnIdSets) :
         k[2] = pair[2] /\ Rank[k[1]] >= Rank[pair[1]]

LEMMA PairOfSet ==
  ASSUME NEW sets, NEW pair \in DnnListIdPairs(sets)
  PROVE  \E s \in Range(sets) :
           pair[1] = s.plmnIdSetIdentifier /\ pair[2] \in DnnListIdsOf(s)
  BY DEF DnnListIdPairs

LEMMA UnchangedKeeps ==
  ASSUME NEW profile, IsProfile(profile)
  PROVE  KeptOrMovedUp(profile, profile)
<1> SUFFICES ASSUME NEW pair \in DnnListIdPairs(profile.plmnIdSets)
             PROVE  Rank[pair[1]] >= Rank[pair[1]]
  BY DEF KeptOrMovedUp
<1>1. pair[1] \in DOMAIN Rank
  BY PairOfSet DEF IsProfile, IsPlmnIdSet
<1> QED
  BY <1>1, RankAssumption

LEMMA UpdateKeeps ==
  ASSUME NEW c, IsChange(c), c.path.kind = "udmSliceProfile", c.operation # "DELETE",
         NEW resources, CheckChange(c, resources).valid, c.operation # "CREATE"
  PROVE  KeptOrMovedUp(resources[c.path], c.data)
<1> DEFINE old == resources[c.path]
           sets == c.data.plmnIdSets
<1>1. checkForUpdateSpecificUdmSliceProfileRules(sets, old) = {}
  BY AcceptedByRules
<1>2. \A s \in Range(old.plmnIdSets) : \A id \in DnnListIdsOf(s) :
        DnnListIdDefined(s.plmnIdSetIdentifier, id, sets)
  BY <1>1 DEF checkForUpdateSpecificUdmSliceProfileRules, Raise
<1> HIDE DEF old, sets
<1>3. \A pair \in DnnListIdPairs(old.plmnIdSets) : DnnListIdDefined(pair[1], pair[2], sets)
  BY <1>2, PairOfSet
<1> QED
  BY <1>3 DEF KeptOrMovedUp, DnnListIdDefined, old, sets

LEMMA StoreKeepsDnnListIds ==
  ASSUME NEW content, GoodContent(content), NEW list \in Intents \cup {<<>>},
         AllPass(list, content),
         \A i \in DOMAIN list : list[i].operation = "CREATE" => list[i].path \notin DOMAIN content,
         NEW p \in DOMAIN content, p.kind = "udmSliceProfile",
         p \in DOMAIN ApplyAll(content, Mutated(list))
  PROVE  KeptOrMovedUp(content[p], ApplyAll(content, Mutated(list))[p])
<1> DEFINE stored == ApplyAll(content, Mutated(list))
<1>1. IsProfile(content[p])
  BY DEF GoodContent, ProfilesOf, PathsOf, GoodProfile
<1>2. CASE stored[p] = content[p]
  BY <1>1, <1>2, UnchangedKeeps
<1>3. ASSUME NEW i \in DOMAIN list,
             IsChange(list[i]),
             list[i].path = p,
             list[i].operation # "DELETE",
             CheckChange(list[i], content).valid,
             stored[p] = computeMutations(list[i]).data
      PROVE  KeptOrMovedUp(content[p], stored[p])
  <2> DEFINE c == list[i]
  <2>1. /\ IsChange(c) /\ c.path.kind = "udmSliceProfile" /\ c.operation # "DELETE"
        /\ CheckChange(c, content).valid /\ c.operation # "CREATE" /\ c.path = p
    BY <1>3
  <2> HIDE DEF c
  <2>2. KeptOrMovedUp(content[p], c.data)
    BY <2>1, UpdateKeeps
  <2>3. DnnListIdPairs(computeMutations(c).data.plmnIdSets) = DnnListIdPairs(c.data.plmnIdSets)
    BY <2>1, AcceptedProfile, MutatedIsGood
  <2> QED
    BY <1>3, <2>2, <2>3 DEF KeptOrMovedUp, c
<1> QED
  BY <1>2, <1>3, StoredByChange

(***************************************************************************)
(* When no one else stores between a client's read and its store, a slice  *)
(* profile that stays keeps every identifier that had dnnLists, and every  *)
(* dnnListId under the same identifier or a later one: what the loop to    *)
(* the end of the multimap leaves of "do not allow deleting a dnnListId".  *)
(***************************************************************************)
THEOREM DnnListIdsAreKept ==
  ASSUME Serialized
  PROVE  Spec => DnnListIdsStayOrMoveUp
<1> DEFINE A == \A p \in PathsOf("udmSliceProfile", db) \cap DOMAIN db' :
                  KeptOrMovedUp(db[p], db'[p])
<1>1. ASSUME SerialInv, [Next]_vars PROVE [A]_vars
  <2>1. CASE db' = db
    BY <1>1, <2>1, UnchangedKeeps
    DEF SerialInv, FlowInv, GoodContent, GoodProfile, ProfilesOf, PathsOf
  <2>2. ASSUME NEW c \in Clients, Store(c) PROVE A
    <3>1. PICK accepted \in answer[c] : db' = ApplyAll(db, accepted)
      BY <2>2 DEF Store
    <3>2. /\ accepted = Mutated(changes[c])
          /\ AllPass(changes[c], related[c])
          /\ changes[c] \in Intents \cup {<<>>}
          /\ GoodContent(db)
      BY <1>1 DEF SerialInv, FlowInv, AnswerOf, Typed
    <3>3. related[c] = db /\ Sensible(changes[c])
      BY <1>1, <2>2 DEF SerialInv, Fresh, Store
    <3> QED
      BY <3>1, <3>2, <3>3, StoreKeepsDnnListIds DEF Sensible, PathsOf
  <2> QED
    BY <1>1, <2>1, <2>2 DEF Next, Read, Validate, Abandon, vars
<1>2. [A]_vars =>
        [\A p \in PathsOf("udmSliceProfile", db) \cap DOMAIN db' :
           LET kept == DnnListIdPairs(db'[p].plmnIdSets)
           IN  \A pair \in DnnListIdPairs(db[p].plmnIdSets) :
                 /\ \E k \in kept : k[1] = pair[1]
                 /\ \E k \in kept : k[2] = pair[2] /\ Rank[k[1]] >= Rank[pair[1]]]_vars
  BY DEF KeptOrMovedUp
<1> QED
  BY <1>1, <1>2, SerialInvariant, PTL DEF Spec, DnnListIdsStayOrMoveUp

===============================================================================
