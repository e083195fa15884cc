------------------------------ MODULE StoredProofs -----------------------------
(***************************************************************************)
(* What can be done with the database of ProvisioningFlow later on: a      *)
(* stored slice profile may be sent back as it is, and a stored            *)
(* subscription finds the dnnLists it refers to.                           *)
(***************************************************************************)
EXTENDS FlowProofs

(***************************************************************************)
(* The rules that look neither at references nor at the related resource.  *)
(* computeMutations does not touch what they look at, so that they hold of *)
(* what is stored; that references resolve is in FlowInv.                  *)
(***************************************************************************)
KeptRules(profile) ==
  /\ \/ profile.plmnIdSets = <<>>
     \/ \E s \in Range(profile.plmnIdSets) : s.plmnIdSetIdentifier = DEFAULT_VALUE
  /\ \A s \in Range(profile.plmnIdSets) :
       /\ PlmnIdSetErrors(s, FALSE) = {}
       /\ s.dnnLists = <<>> \/ DEFAULT_VALUE \in DnnListIdsOf(s)

LEMMA PlmnIdSetParts ==
  ASSUME NEW s
  PROVE  PlmnIdSetErrors(s, FALSE) = {} <=>
           /\ ~Unknown(s.plmnIdSetIdentifier, PlmnIdFormat)
           /\ \A n \in Range(AllNssais(s)) : NssaiErrors(n) = {}
           /\ \A l \in Range(s.dnnLists) : DnnListErrors(l) = {}
  BY DEF PlmnIdSetErrors, Raise

LEMMA CommonRulesAreKept ==
  ASSUME NEW profile, CommonUnlessEmpty(profile.plmnIdSets, TRUE) = {}
  PROVE  KeptRules(profile)
<1> DEFINE sets == profile.plmnIdSets
<1>1. CASE sets = <<>>
  BY <1>1 DEF KeptRules, Range
<1>2. CASE sets # <<>>
  <2>1. checkForCommonUdmSliceProfileRules(sets, TRUE) = {}
    BY <1>2 DEF CommonUnlessEmpty
  <2>2. \A s \in Range(sets) : PlmnIdSetErrors(s, TRUE) = {}
    BY <2>1 DEF checkForCommonUdmSliceProfileRules
  <2>3. \E s \in Range(sets) : s.plmnIdSetIdentifier = DEFAULT_VALUE
    BY <2>1 DEF checkForCommonUdmSliceProfileRules, Raise
  <2>4. \A s \in Range(sets) : /\ PlmnIdSetErrors(s, FALSE) = {}
                               /\ s.dnnLists = <<>> \/ DEFAULT_VALUE \in DnnListIdsOf(s)
    BY <2>2 DEF PlmnIdSetErrors, Raise
  <2> QED
    BY <2>3, <2>4 DEF KeptRules
<1> QED
  BY <1>1, <1>2

LEMMA MutationKeepsRules ==
  ASSUME NEW c, IsChange(c), c.path.kind = "udmSliceProfile", c.operation # "DELETE",
         KeptRules(c.data)
  PROVE  KeptRules(computeMutations(c).data)
<1> DEFINE sets == c.data.plmnIdSets
           mutated == MutateSets(sets)
<1>1. computeMutations(c).data.plmnIdSets = mutated
  BY MutatedProfile
<1>2. /\ \A s \in Range(sets) : IsPlmnIdSet(s)
      /\ DOMAIN mutated = DOMAIN sets
      /\ mutated = [i \in DOMAIN sets |-> mutated[i]]
  BY DEF IsChange, IsProfile, MutateSets
<1>3. ASSUME NEW i \in DOMAIN sets
      PROVE  /\ mutated[i].plmnIdSetIdentifier = sets[i].plmnIdSetIdentifier
             /\ PlmnIdSetErrors(mutated[i], FALSE) = {}
             /\ \/ mutated[i].dnnLists = <<>>
                \/ DEFAULT_VALUE \in DnnListIdsOf(mutated[i])
  <2> DEFINE s == sets[i]
             t == mutated[i]
  <2>1. /\ t.plmnIdSetIdentifier = s.plmnIdSetIdentifier
        /\ t.dnnLists = s.dnnLists
        /\ \A x \in Range(AllNssais(t)) : \E y \in Range(AllNssais(s)) : IncludedFrom(x, y)
    BY <1>2, MutatedSet
  <2>2. /\ PlmnIdSetErrors(s, FALSE) = {}
        /\ s.dnnLists = <<>> \/ DEFAULT_VALUE \in DnnListIdsOf(s)
    BY DEF KeptRules, Range
  <2> HIDE DEF s, t
  <2>3. \A x \in Range(AllNssais(t)) : NssaiErrors(x) = {}
    <3>1. \A x, y : IncludedFrom(x, y) => NssaiErrors(x) = NssaiErrors(y)
      BY DEF IncludedFrom, NssaiErrors
    <3> QED
      BY <2>1, <2>2, <3>1, PlmnIdSetParts
  <2>4. PlmnIdSetErrors(t, FALSE) = {}
    BY <2>1, <2>2, <2>3, PlmnIdSetParts
  <2> QED
    BY <2>1, <2>2, <2>4 DEF DnnListIdsOf, s, t
<1>4. CASE sets = <<>>
  <2>1. mutated = <<>>
    <3>1. mutated = [i \in 1..0 |-> mutated[i]]
      BY <1>2, <1>4
    <3> HIDE DEF mutated
    <3> QED
      BY <3>1
  <2> QED
    BY <1>1, <2>1 DEF KeptRules, Range
<1>5. CASE \E s \in Range(sets) : s.plmnIdSetIdentifier = DEFAULT_VALUE
  <2>1. PICK i \in DOMAIN sets : sets[i].plmnIdSetIdentifier = DEFAULT_VALUE
    BY <1>5 DEF Range
  <2> HIDE DEF mutated
  <2>2. mutated[i] \in Range(mutated) /\ mutated[i].plmnIdSetIdentifier = DEFAULT_VALUE
    BY <1>2, <1>3, <2>1 DEF Range
  <2>3. \A t \in Range(mutated) : /\ PlmnIdSetErrors(t, FALSE) = {}
                                  /\ t.dnnLists = <<>> \/ DEFAULT_VALUE \in DnnListIdsOf(t)
    BY <1>2, <1>3 DEF Range
  <2> QED
    BY <1>1, <2>2, <2>3 DEF KeptRules
<1> QED
  BY <1>4, <1>5 DEF KeptRules

(***************************************************************************)
(* What a profile that has the kept rules is checked for when it is sent   *)
(* back as an UPDATE of itself.                                            *)
(***************************************************************************)
NoLooseNssais(profile) ==
  \A s \in Range(profile.plmnIdSets) : s.dnnLists # <<>> \/ AllNssais(s) = <<>>

LEMMA CommonRulesPass ==
  ASSUME NEW profile, GoodProfile(profile), KeptRules(profile), NoLooseNssais(profile)
  PROVE  CommonUnlessEmpty(profile.plmnIdSets, TRUE) = {}
<1> DEFINE sets == profile.plmnIdSets
<1>1. CASE sets = <<>>
  BY <1>1 DEF CommonUnlessEmpty
<1>2. CASE sets # <<>>
  <2>1. \E s \in Range(sets) : s.plmnIdSetIdentifier = DEFAULT_VALUE
    BY <1>2 DEF KeptRules
  <2>2. ASSUME NEW s \in Range(sets) PROVE PlmnIdSetErrors(s, TRUE) = {}
    <3>1. /\ PlmnIdSetErrors(s, FALSE) = {}
          /\ s.dnnLists = <<>> \/ DEFAULT_VALUE \in DnnListIdsOf(s)
      BY DEF KeptRules
    <3>2. ReferencedIds(s) \subseteq DnnListIdsOf(s)
      <4>1. CASE s.dnnLists # <<>>
        BY <4>1 DEF GoodProfile, ReferencesResolve
      <4>2. CASE AllNssais(s) = <<>>
        BY <4>2 DEF ReferencedIds, Range
      <4> QED
        BY <4>1, <4>2 DEF NoLooseNssais
    <3> QED
      BY <3>1, <3>2 DEF PlmnIdSetErrors, Raise
  <2> QED
    BY <1>2, <2>1, <2>2
    DEF CommonUnlessEmpty, checkForCommonUdmSliceProfileRules, Raise
<1> QED
  BY <1>1, <1>2

\* An nssai at a position of both lists is in the one its position says.
LEMMA NssaiAtPosition ==
  ASSUME NEW s, IsPlmnIdSet(s), NEW j \in DOMAIN AllNssais(s)
  PROVE  AllNssais(s)[j] \in Range(s[IF j <= Len(s.defaultSingleNssais)
                                     THEN "defaultSingleNssais" ELSE "singleNssais"])
<1> DEFINE d == s.defaultSingleNssais
           n == s.singleNssais
           V == Range(d) \cup Range(n)
<1>1. d \in Seq(V) /\ n \in Seq(V)
  BY DEF IsPlmnIdSet, IsSequence, Range
<1>2. j \in 1..(Len(d) + Len(n)) /\ AllNssais(s)[j] = IF j <= Len(d) THEN d[j] ELSE n[j - Len(d)]
  <2> HIDE DEF V, d, n
  <2>1. AllNssais(s) = d \o n
    BY DEF AllNssais, d, n
  <2> QED
    BY <1>1, <2>1
<1>3. CASE j <= Len(d)
  <2>1. j \in DOMAIN d
    BY <1>1, <1>2, <1>3
  <2> QED
    BY <1>2, <1>3, <2>1 DEF Range
<1>4. CASE ~(j <= Len(d))
  <2>1. j - Len(d) \in DOMAIN n
    <3> HIDE DEF V, d, n
    <3> QED
      BY <1>1, <1>2, <1>4
  <2> QED
    BY <1>2, <1>4, <2>1 DEF Range
<1> QED
  BY <1>3, <1>4

\* The first set with an identifier no other set has is the set itself.
LEMMA OwnSetIsFirst ==
  ASSUME NEW profile, IsProfile(profile), DistinctIdentifiers(profile),
         NEW s \in Range(profile.plmnIdSets)
  PROVE  s \in FirstSets(profile, s.plmnIdSetIdentifier)
<1> DEFINE sets == profile.plmnIdSets
           ids == [i \in DOMAIN sets |-> sets[i].plmnIdSetIdentifier]
<1>1. DOMAIN sets = 1..Len(sets) /\ Len(sets) \in Nat
  BY SequenceFacts DEF IsProfile
<1>2. PICK k \in DOMAIN sets : s = sets[k]
  BY DEF Range
<1>3. \A i, j \in DOMAIN sets : i < j => ids[i] # ids[j]
  BY DEF DistinctIdentifiers, HasRepeats, Repeats
<1>4. \A i \in DOMAIN sets : sets[i].plmnIdSetIdentifier = s.plmnIdSetIdentifier => i = k
  <2>1. ASSUME NEW i \in DOMAIN sets, sets[i].plmnIdSetIdentifier = s.plmnIdSetIdentifier
        PROVE  i = k
    <3>1. ids[i] = ids[k]
      BY <1>2, <2>1
    <3>2. ~(i < k) /\ ~(k < i)
      BY <1>2, <1>3, <3>1
    <3> QED
      BY <1>1, <1>2, <3>2
  <2> QED
    BY <2>1
<1>5. k \in First({i \in DOMAIN sets : sets[i].plmnIdSetIdentifier = s.plmnIdSetIdentifier})
  BY <1>1, <1>2, <1>4 DEF First
<1> QED
  BY <1>2, <1>5 DEF FirstSets

LEMMA RepeatedNssaisPass ==
  ASSUME NEW profile, IsProfile(profile), NEW s \in Range(profile.plmnIdSets),
         DistinctIdentifiers(profile) \/ RepeatedNssais(s) = {}
  PROVE  ~checkForRepeatedNssaisOnUpdate(s, profile)
<1> SUFFICES ASSUME NEW j \in Repeats(Snssais(AllNssais(s)))
             PROVE  LET key == IF j <= Len(s.defaultSingleNssais) THEN "defaultSingleNssais"
                                                                  ELSE "singleNssais"
                    IN  AllNssais(s)[j] \in NssaisOf(profile, s.plmnIdSetIdentifier, key)
  BY DEF checkForRepeatedNssaisOnUpdate
<1>1. j \in DOMAIN AllNssais(s)
  BY DEF Repeats, Snssais
<1>2. IsPlmnIdSet(s)
  BY DEF IsProfile
<1>3. DistinctIdentifiers(profile)
  BY DEF RepeatedNssais
<1>4. s \in FirstSets(profile, s.plmnIdSetIdentifier)
  BY <1>3, OwnSetIsFirst
<1> QED
  BY <1>1, <1>2, <1>4, NssaiAtPosition DEF NssaisOf

LEMMA UpdateOfItselfPasses ==
  ASSUME NEW profile, GoodProfile(profile),
         \/ DistinctIdentifiers(profile)
         \/ \A s \in Range(profile.plmnIdSets) : RepeatedNssais(s) = {}
  PROVE  checkForUpdateSpecificUdmSliceProfileRules(profile.plmnIdSets, profile) = {}
<1> DEFINE sets == profile.plmnIdSets
<1>1. \A s \in Range(sets) : ~checkForRepeatedNssaisOnUpdate(s, profile)
  BY RepeatedNssaisPass DEF GoodProfile
<1>2. \A s \in Range(sets) : \A l \in Range(s.dnnLists) : ~RepeatedDnnsOnUpdate(s, l, profile)
  BY DEF GoodProfile, DnnsAreDistinct, HasRepeats, RepeatedDnnsOnUpdate
<1>3. ASSUME NEW s \in Range(sets), NEW id \in DnnListIdsOf(s)
      PROVE  DnnListIdDefined(s.plmnIdSetIdentifier, id, sets)
  <2>1. <<s.plmnIdSetIdentifier, id>> \in DnnListIdPairs(sets)
    BY DEF DnnListIdPairs
  <2>2. Rank[s.plmnIdSetIdentifier] \in Int
    BY RankAssumption DEF GoodProfile, IsProfile, IsPlmnIdSet
  <2> QED
    BY <2>1, <2>2 DEF DnnListIdDefined
<1> QED
  BY <1>1, <1>2, <1>3 DEF checkForUpdateSpecificUdmSliceProfileRules, Raise

LEMMA PassesAgain ==
  ASSUME NEW content, NEW p \in PathsOf("udmSliceProfile", content),
         GoodProfile(content[p]), KeptRules(content[p]), NoLooseNssais(content[p]),
         \/ DistinctIdentifiers(content[p])
         \/ \A s \in Range(content[p].plmnIdSets) : RepeatedNssais(s) = {}
  PROVE  CheckChange([operation |-> "UPDATE", path |-> p, data |-> content[p]], content).valid
<1> DEFINE c == [operation |-> "UPDATE", path |-> p, data |-> content[p]]
           sets == content[p].plmnIdSets
<1>1. CheckChange(c, content) = checkForUpdateUdmSliceProfileRules(content[p], {content[p]})
  <2>1. p \in DOMAIN content /\ p.kind = "udmSliceProfile"
    BY DEF PathsOf
  <2>2. CheckChange(c, content) = UdmSliceProfileRules(c, content)
    BY <2>1 DEF CheckChange
  <2> QED
    BY <2>1, <2>2 DEF UdmSliceProfileRules, RelatedResource
<1>2. /\ CommonUnlessEmpty(sets, TRUE) = {}
      /\ checkForUpdateSpecificUdmSliceProfileRules(sets, content[p]) = {}
  BY CommonRulesPass, UpdateOfItselfPasses
<1>3. checkForUpdateUdmSliceProfileRules(content[p], {content[p]}) = Conflict({})
  BY <1>2 DEF checkForUpdateUdmSliceProfileRules
<1>4. Conflict({}).valid
  BY DEF Conflict
<1> QED
  BY <1>1, <1>3, <1>4

(***************************************************************************)
(* A slice profile that was accepted, mutated and stored is accepted when  *)
(* it is sent back as it is, for any clients and stale reads: the rules    *)
(* come before the mutations, and look at other things than they change.   *)
(* What is in the database from the start has to satisfy the rules that    *)
(* are kept.                                                               *)
(***************************************************************************)
RulesInv == FlowInv /\ \A profile \in ProfilesOf(db) : KeptRules(profile)

LEMMA RulesInvStore ==
  ASSUME RulesInv, NEW c \in Clients, Store(c)
  PROVE  \A profile \in ProfilesOf(db') : KeptRules(profile)
<1>1. PICK accepted \in answer[c] : db' = ApplyAll(db, accepted)
  BY DEF Store
<1>2. /\ accepted = Mutated(changes[c])
      /\ AllPass(changes[c], related[c])
      /\ changes[c] \in Intents \cup {<<>>}
  BY DEF RulesInv, FlowInv, AnswerOf, Typed
<1>3. ASSUME NEW p \in DOMAIN db', p.kind = "udmSliceProfile" PROVE KeptRules(db'[p])
  <2>1. CASE p \in DOMAIN db /\ db'[p] = db[p]
    BY <1>3, <2>1 DEF RulesInv, ProfilesOf, PathsOf
  <2>2. ASSUME NEW i \in DOMAIN changes[c],
               IsChange(changes[c][i]),
               changes[c][i].path = p,
               changes[c][i].operation # "DELETE",
               CheckChange(changes[c][i], related[c]).valid,
               db'[p] = computeMutations(changes[c][i]).data
        PROVE  KeptRules(db'[p])
    <3> DEFINE change == changes[c][i]
    <3>1. /\ IsChange(change)
          /\ change.path.kind = "udmSliceProfile"
          /\ change.operation # "DELETE"
          /\ CheckChange(change, related[c]).valid
      BY <1>3, <2>2
    <3> HIDE DEF change
    <3>2. KeptRules(change.data)
      BY <3>1, AcceptedByRules, CommonRulesAreKept
    <3> QED
      BY <2>2, <3>1, <3>2, MutationKeepsRules DEF change
  <2> QED
    BY <1>1, <1>2, <2>1, <2>2, StoredByChange
<1> QED
  BY <1>3 DEF ProfilesOf, PathsOf

THEOREM StoredProfilesPass ==
  ASSUME \A profile \in ProfilesOf(InitialDb) : KeptRules(profile)
  PROVE  Spec => []StoredProfilesPassAgain
<1>1. Init => RulesInv
  BY FlowInvInit DEF Init, RulesInv
<1>2. RulesInv /\ [Next]_vars => RulesInv'
  <2> SUFFICES ASSUME RulesInv, [Next]_vars
               PROVE  \A profile \in ProfilesOf(db') : KeptRules(profile)
    BY FlowInvNext DEF RulesInv
  <2>1. CASE \E c \in Clients : Store(c)
    BY <2>1, RulesInvStore
  <2>2. CASE ~\E c \in Clients : Store(c)
    <3>1. db' = db
      BY <2>2 DEF Next, Read, Validate, Abandon, vars
    <3> QED
      BY <3>1 DEF RulesInv
  <2> QED
    BY <2>1, <2>2
<1>3. RulesInv => StoredProfilesPassAgain
  <2> SUFFICES ASSUME RulesInv, NEW p \in PathsOf("udmSliceProfile", db)
               PROVE  GoodProfile(db[p]) /\ KeptRules(db[p])
    BY PassesAgain DEF StoredProfilesPassAgain, NoLooseNssais
  <2> QED
    BY DEF RulesInv, FlowInv, GoodContent, ProfilesOf
<1> QED
  BY <1>1, <1>2, <1>3, PTL DEF Spec

-------------------------------------------------------------------------------
(***************************************************************************)
(* References of subscriptions. Where every slice profile has the id of    *)
(* its path, the one a subscription refers to is the one with this path.   *)
(***************************************************************************)
LEMMA RelatedById ==
  ASSUME NEW content, ProfilesHaveIdsOfPaths(content), NEW id
  PROVE  getRelatedUdmSliceProfile(content, id) =
           {content[p] : p \in {p \in PathsOf("udmSliceProfile", content) : p.id = id}}
<1> DEFINE paths == {p \in DOMAIN content : /\ p.kind = "udmSliceProfile"
                                            /\ content[p].udmSliceProfileId = id}
<1>1. paths = {p \in PathsOf("udmSliceProfile", content) : p.id = id}
  BY DEF ProfilesHaveIdsOfPaths, HasIdOfPath, PathsOf
<1>2. \A p, q \in paths : Rank[p.id] <= Rank[q.id]
  <2> SUFFICES ASSUME NEW p \in paths, NEW q \in paths PROVE Rank[p.id] <= Rank[q.id]
    OBVIOUS
  <2>1. p.id = id /\ q.id = id /\ p.id \in DOMAIN Rank
    BY <1>1 DEF ProfilesHaveIdsOfPaths, HasIdOfPath
  <2> QED
    BY <2>1, RankAssumption
<1>3. {p \in paths : \A q \in paths : Rank[p.id] <= Rank[q.id]} = paths
  <2> HIDE DEF paths
  <2> QED
    BY <1>2
<1>4. getRelatedUdmSliceProfile(content, id) = {content[p] : p \in paths}
  BY <1>3 DEF getRelatedUdmSliceProfile
<1> QED
  BY <1>1, <1>4

\* Where there are no DELETEs of slice profiles, they stay.
LEMMA ProfilesPersist ==
  ASSUME NEW content, NEW list \in Intents \cup {<<>>}, KeepsProfiles(list),
         NEW p \in DOMAIN content, p.kind = "udmSliceProfile"
  PROVE  p \in DOMAIN ApplyAll(content, Mutated(list))
<1> DEFINE mutated == Mutated(list)
<1>1. CASE LastFor(mutated, p) = {}
  BY <1>1 DEF ApplyAll
<1>2. CASE LastFor(mutated, p) # {}
  <2>1. PICK i \in DOMAIN mutated : mutated[i].path = p /\ mutated[i] \in LastFor(mutated, p)
    <3> HIDE DEF mutated
    <3> QED
      BY <1>2 DEF LastFor
  <2>2. /\ i \in DOMAIN list
        /\ IsChange(list[i])
        /\ mutated[i] = computeMutations(list[i])
    BY <2>1, IntentFacts
  <2>3. mutated[i].operation = list[i].operation /\ list[i].path = p
    BY <2>1, <2>2, MutationKeepsPath
  <2>4. mutated[i].operation # "DELETE"
    BY <2>2, <2>3 DEF KeepsProfiles, Range
  <2> HIDE DEF mutated
  <2> QED
    BY <2>1, <2>4 DEF ApplyAll, mutated
<1> QED
  BY <1>1, <1>2

LEMMA IdsPersist ==
  ASSUME NEW content, ProfilesHaveIdsOfPaths(content), NEW resources,
         NEW list \in Intents \cup {<<>>}, KeepsProfiles(list), AllPass(list, resources)
  PROVE  ProfilesHaveIdsOfPaths(ApplyAll(content, Mutated(list)))
<1> DEFINE stored == ApplyAll(content, Mutated(list))
<1>1. ASSUME NEW p \in DOMAIN stored, p.kind = "udmSliceProfile"
      PROVE  HasIdOfPath(p, stored[p])
  <2>1. CASE p \in DOMAIN content /\ stored[p] = content[p]
    BY <1>1, <2>1 DEF ProfilesHaveIdsOfPaths, PathsOf
  <2>2. ASSUME NEW i \in DOMAIN list,
               IsChange(list[i]),
               list[i].path = p,
               list[i].operation # "DELETE",
               stored[p] = computeMutations(list[i]).data
        PROVE  HasIdOfPath(p, stored[p])
    <3> DEFINE c == list[i]
    <3>1. HasIdOfPath(p, c.data)
      BY <1>1, <2>2 DEF KeepsProfiles, Range
    <3>2. computeMutations(c).data.udmSliceProfileId = c.data.udmSliceProfileId
      BY <1>1, <2>2, MutatedProfile
    <3> HIDE DEF c
    <3> QED
      BY <2>2, <3>1, <3>2 DEF HasIdOfPath, c
  <2> HIDE DEF stored
  <2> QED
    BY <1>1, <2>1, <2>2, StoredByChange DEF stored
<1> HIDE DEF stored
<1>2. ProfilesHaveIdsOfPaths(stored)
  BY <1>1 DEF ProfilesHaveIdsOfPaths, PathsOf
<1> QED
  BY <1>2 DEF stored

(***************************************************************************)
(* A subscription that resolves goes on to do so when slice profiles are   *)
(* updated: dnnListIds stay or move up, and moving up twice is moving up.  *)
(***************************************************************************)
LEMMA PairHasRank ==
  ASSUME NEW sets, \A s \in Range(sets) : IsPlmnIdSet(s)
  PROVE  /\ \A pair \in DnnListIdPairs(sets) : Rank[pair[1]] \in Int
         /\ \A pair \in ReferencedPairs(sets) : Rank[pair[1]] \in Int
<1>1. \A pair \in DnnListIdPairs(sets) : \E s \in Range(sets) : pair[1] = s.plmnIdSetIdentifier
  BY DEF DnnListIdPairs
<1>2. \A pair \in ReferencedPairs(sets) : \E s \in Range(sets) : pair[1] = s.plmnIdSetIdentifier
  BY DEF ReferencedPairs
<1>3. \A s \in Range(sets) : Rank[s.plmnIdSetIdentifier] \in Int
  BY RankAssumption DEF IsPlmnIdSet
<1> QED
  BY <1>1, <1>2, <1>3

\* d serves the reference pair.
Serves(d, pair) == d[2] = pair[2] /\ Rank[d[1]] >= Rank[pair[1]]

LEMMA ResolvesAcrossUpdates ==
  ASSUME NEW u, IsSubscription(u), NEW old, NEW new,
         SubscriptionResolves(u, old),
         ProfilesHaveIdsOfPaths(old), ProfilesHaveIdsOfPaths(new),
         \A p \in PathsOf("udmSliceProfile", old) :
           /\ p \in DOMAIN new
           /\ IsProfile(old[p]) /\ IsProfile(new[p])
           /\ KeptOrMovedUp(old[p], new[p])
  PROVE  SubscriptionResolves(u, new)
<1> DEFINE id == u.udmSliceProfileId
           Related(content) == getRelatedUdmSliceProfile(content, id)
<1> SUFFICES ASSUME NEW sets \in u.udmSliceData, NEW pair \in ReferencedPairs(sets),
                    pair[2] # DEFAULT_VALUE
             PROVE  \E d \in DnnListIdPairs(sets) \cup
                             UNION {DnnListIdPairs(profile.plmnIdSets) : profile \in Related(new)} :
                      Serves(d, pair)
  BY DEF SubscriptionResolves, Serves
<1>1. PICK d \in DnnListIdPairs(sets) \cup
                 UNION {DnnListIdPairs(profile.plmnIdSets) : profile \in Related(old)} :
        Serves(d, pair)
  BY DEF SubscriptionResolves, Serves
<1>2. CASE d \in DnnListIdPairs(sets)
  BY <1>1, <1>2
<1>3. ASSUME NEW profile \in Related(old), d \in DnnListIdPairs(profile.plmnIdSets)
      PROVE  \E e \in UNION {DnnListIdPairs(q.plmnIdSets) : q \in Related(new)} : Serves(e, pair)
  <2>1. PICK p \in PathsOf("udmSliceProfile", old) : p.id = id /\ profile = old[p]
    BY <1>3, RelatedById
  <2>2. PICK e \in DnnListIdPairs(new[p].plmnIdSets) : e[2] = d[2] /\ Rank[e[1]] >= Rank[d[1]]
    BY <1>3, <2>1 DEF KeptOrMovedUp
  <2>3. Rank[pair[1]] \in Int /\ Rank[d[1]] \in Int /\ Rank[e[1]] \in Int
    BY <1>3, <2>1, <2>2, PairHasRank DEF IsSubscription, IsProfile
  <2>4. Serves(e, pair)
    BY <1>1, <2>2, <2>3 DEF Serves
  <2>5. new[p] \in Related(new)
    BY <2>1, RelatedById DEF PathsOf
  <2> QED
    BY <2>2, <2>4, <2>5
<1> HIDE DEF Related
<1> QED
  BY <1>1, <1>2, <1>3

(***************************************************************************)
(* An accepted subscription points to what it defines or to what the slice *)
(* profile defines that the sender read, and computeMutations adds only    *)
(* references to "Default".                                                *)
(***************************************************************************)
LEMMA AcceptedSubscription ==
  ASSUME NEW c, IsChange(c), c.path.kind = "udmStaticData", c.operation # "DELETE",
         NEW resources, CheckChange(c, resources).valid
  PROVE  SubscriptionResolves(c.data, resources)
<1> DEFINE u == c.data
           profiles == getRelatedUdmSliceProfile(resources, u.udmSliceProfileId)
<1>1. UdmStaticDataRules(c, resources).valid
  BY DEF CheckChange
<1>2. PICK errors : CheckedAgainst(u, profiles, errors).valid
  <2> HIDE DEF u, profiles
  <2>1. CASE c.operation = "CREATE"
    BY <1>1, <2>1 DEF UdmStaticDataRules, checkForCreationUdmSubscriptionRules, Unprocessable,
                      u, profiles
  <2>2. CASE c.operation # "CREATE"
    BY <1>1, <2>2 DEF UdmStaticDataRules, checkForUpdateUdmSubscriptionRules, Unprocessable,
                      u, profiles
  <2> QED
    BY <2>1, <2>2
<1> HIDE DEF profiles
<1>3. PICK profile \in profiles : checkForCommonUdmSubscriptionRules(u, profile) = {}
  <2>1. profiles # {}
    BY <1>2 DEF CheckedAgainst, Unprocessable
  <2>2. errors \cup UNION {checkForCommonUdmSubscriptionRules(u, p) : p \in profiles} = {}
    BY <1>2, <2>1, NoConflict DEF CheckedAgainst
  <2> QED
    BY <2>1, <2>2
<1>4. ASSUME NEW sets \in u.udmSliceData
      PROVE  ReferencedPairs(sets) \subseteq
               DnnListIdPairs(sets) \cup DnnListIdPairs(profile.plmnIdSets)
  <2>1. UdmSliceDataErrors(sets, profile) = {}
    BY <1>3 DEF checkForCommonUdmSubscriptionRules
  <2> QED
    BY <2>1 DEF UdmSliceDataErrors, Raise
<1>5. ASSUME NEW sets \in u.udmSliceData, NEW pair \in ReferencedPairs(sets)
      PROVE  \E d \in DnnListIdPairs(sets) \cup
                      UNION {DnnListIdPairs(p.plmnIdSets) : p \in profiles} :
               d[2] = pair[2] /\ Rank[d[1]] >= Rank[pair[1]]
  <2>1. Rank[pair[1]] \in Int
    BY PairHasRank DEF IsChange, IsSubscription
  <2> QED
    BY <1>4, <2>1
<1> QED
  BY <1>5 DEF SubscriptionResolves, profiles

LEMMA MutatedSubscription ==
  ASSUME NEW c, IsChange(c), c.path.kind = "udmStaticData", c.operation # "DELETE",
         NEW content, SubscriptionResolves(c.data, content)
  PROVE  /\ IsSubscription(computeMutations(c).data)
         /\ SubscriptionResolves(computeMutations(c).data, content)
<1> DEFINE u == c.data
           m == computeMutations(c).data
<1>1. /\ {"udmSliceProfileId", "udmSliceData"} \subseteq DOMAIN m
      /\ m.udmSliceProfileId = u.udmSliceProfileId
      /\ m.udmSliceData = {MutateSets(sets) : sets \in u.udmSliceData}
  BY Zenon DEF computeMutations, IsChange, IsSubscription
<1>2. ASSUME NEW sets \in u.udmSliceData
      PROVE  /\ \A t \in Range(MutateSets(sets)) : IsPlmnIdSet(t)
             /\ DnnListIdPairs(MutateSets(sets)) = DnnListIdPairs(sets)
             /\ \A pair \in ReferencedPairs(MutateSets(sets)) :
                  pair[2] = DEFAULT_VALUE \/ pair \in ReferencedPairs(sets)
  <2> DEFINE mutated == MutateSets(sets)
  <2>1. /\ \A s \in Range(sets) : IsPlmnIdSet(s)
        /\ DOMAIN mutated = DOMAIN sets
    BY DEF IsChange, IsSubscription, MutateSets
  <2>2. ASSUME NEW i \in DOMAIN sets
        PROVE  /\ IsPlmnIdSet(mutated[i])
               /\ mutated[i].plmnIdSetIdentifier = sets[i].plmnIdSetIdentifier
               /\ ReferencedIds(mutated[i]) \subseteq ReferencedIds(sets[i]) \cup {DEFAULT_VALUE}
               /\ DnnListIdsOf(mutated[i]) = DnnListIdsOf(sets[i])
    BY <2>1, MutatedSet DEF DnnListIdsOf
  <2> HIDE DEF mutated
  <2>3. \A t \in Range(mutated) : IsPlmnIdSet(t)
    BY <2>1, <2>2 DEF Range
  <2>4. DnnListIdPairs(mutated) = DnnListIdPairs(sets)
    BY <2>1, <2>2 DEF DnnListIdPairs, Range
  <2>5. ASSUME NEW pair \in ReferencedPairs(mutated)
        PROVE  pair[2] = DEFAULT_VALUE \/ pair \in ReferencedPairs(sets)
    <3>1. PICK i \in DOMAIN sets :
            pair \in {mutated[i].plmnIdSetIdentifier} \X ReferencedIds(mutated[i])
      BY <2>1 DEF ReferencedPairs, Range
    <3>2. \/ pair[2] = DEFAULT_VALUE
          \/ pair \in {sets[i].plmnIdSetIdentifier} \X ReferencedIds(sets[i])
      BY <2>2, <3>1
    <3> QED
      BY <3>2 DEF ReferencedPairs, Range
  <2> QED
    BY <2>3, <2>4, <2>5 DEF mutated
<1>3. IsSubscription(m)
  BY <1>1, <1>2 DEF IsSubscription
<1>4. SubscriptionResolves(m, content)
  <2> HIDE DEF m
  <2> SUFFICES ASSUME NEW sets \in u.udmSliceData,
                      NEW pair \in ReferencedPairs(MutateSets(sets)),
                      pair[2] # DEFAULT_VALUE
               PROVE  \E d \in DnnListIdPairs(sets) \cup
                        UNION {DnnListIdPairs(profile.plmnIdSets) :
                          profile \in getRelatedUdmSliceProfile(content, u.udmSliceProfileId)} :
                        d[2] = pair[2] /\ Rank[d[1]] >= Rank[pair[1]]
    BY <1>1, <1>2 DEF SubscriptionResolves
  <2>1. pair \in ReferencedPairs(sets)
    BY <1>2
  <2> QED
    BY <2>1 DEF SubscriptionResolves
<1> QED
  BY <1>3, <1>4

LEMMA StoreKeepsSubscriptions ==
  ASSUME NEW content, GoodContent(content), ProfilesHaveIdsOfPaths(content),
         \A u \in SubscriptionsOf(content) : IsSubscription(u) /\ SubscriptionResolves(u, content),
         NEW list \in Intents \cup {<<>>}, KeepsProfiles(list), AllPass(list, content),
         \A i \in DOMAIN list : list[i].operation = "CREATE" => list[i].path \notin DOMAIN content
  PROVE  LET stored == ApplyAll(content, Mutated(list))
         IN  /\ ProfilesHaveIdsOfPaths(stored)
             /\ \A u \in SubscriptionsOf(stored) :
                  IsSubscription(u) /\ SubscriptionResolves(u, stored)
<1> DEFINE stored == ApplyAll(content, Mutated(list))
<1>1. ProfilesHaveIdsOfPaths(stored)
  BY IdsPersist
<1>2. GoodContent(stored)
  BY StoreKeepsContent
<1>3. ASSUME NEW p \in PathsOf("udmSliceProfile", content)
      PROVE  /\ p \in DOMAIN stored
             /\ IsProfile(content[p]) /\ IsProfile(stored[p])
             /\ KeptOrMovedUp(content[p], stored[p])
  <2>1. p \in DOMAIN content /\ p.kind = "udmSliceProfile" /\ p \in DOMAIN stored
    BY ProfilesPersist DEF PathsOf
  <2>2. KeptOrMovedUp(content[p], stored[p])
    BY <2>1, StoreKeepsDnnListIds
  <2> HIDE DEF stored
  <2> QED
    BY <1>2, <2>1, <2>2 DEF GoodContent, GoodProfile, ProfilesOf, PathsOf
<1> HIDE DEF stored
<1>4. ASSUME NEW u, IsSubscription(u), SubscriptionResolves(u, content)
      PROVE  SubscriptionResolves(u, stored)
  BY <1>1, <1>3, <1>4, ResolvesAcrossUpdates
<1>5. ASSUME NEW p \in DOMAIN stored, p.kind = "udmStaticData"
      PROVE  IsSubscription(stored[p]) /\ SubscriptionResolves(stored[p], stored)
  <2>1. CASE p \in DOMAIN content /\ stored[p] = content[p]
    BY <1>4, <1>5, <2>1 DEF SubscriptionsOf, PathsOf
  <2>2. ASSUME NEW i \in DOMAIN list,
               IsChange(list[i]),
               list[i].path = p,
               list[i].operation # "DELETE",
               CheckChange(list[i], content).valid,
               stored[p] = computeMutations(list[i]).data
        PROVE  IsSubscription(stored[p]) /\ SubscriptionResolves(stored[p], stored)
    <3> DEFINE c == list[i]
    <3>1. /\ IsChange(c) /\ c.path.kind = "udmStaticData" /\ c.operation # "DELETE"
          /\ CheckChange(c, content).valid
      BY <1>5, <2>2
    <3> HIDE DEF c
    <3>2. SubscriptionResolves(c.data, content)
      BY <3>1, AcceptedSubscription
    <3>3. /\ IsSubscription(computeMutations(c).data)
          /\ SubscriptionResolves(computeMutations(c).data, content)
      BY <3>1, <3>2, MutatedSubscription
    <3> QED
      BY <1>4, <2>2, <3>3 DEF c
  <2> QED
    BY <2>1, <2>2, StoredByChange DEF stored
<1>6. \A u \in SubscriptionsOf(stored) : IsSubscription(u) /\ SubscriptionResolves(u, stored)
  BY <1>5 DEF SubscriptionsOf, PathsOf
<1> QED
  BY <1>1, <1>6 DEF stored

SubscriptionInv ==
  /\ SerialInv
  /\ ProfilesHaveIdsOfPaths(db)
  /\ \A u \in SubscriptionsOf(db) : IsSubscription(u) /\ SubscriptionResolves(u, db)

(***************************************************************************)
(* The dnnListIds of a subscription and those of the slice profile it      *)
(* refers to change in different rounds, or in one round that checks each  *)
(* against the old other one; the references stay resolved, up to the      *)
(* order of the identifiers, when rounds are done one at a time and slice  *)
(* profiles have the ids of their paths and are not deleted. Neither of    *)
(* the two is looked at by a rule.                                         *)
(***************************************************************************)
THEOREM SubscriptionReferencesStayResolved ==
  ASSUME Serialized,
         \A intent \in Intents : KeepsProfiles(intent),
         ProfilesHaveIdsOfPaths(InitialDb),
         SubscriptionsResolve(InitialDb)
  PROVE  Spec => []SubscriptionReferencesResolve
<1>1. Init => SubscriptionInv
  BY FlowInvInit, InitialDbAssumption
  DEF Init, SubscriptionInv, SerialInv, Fresh, SubscriptionsResolve
<1>2. SubscriptionInv /\ [Next]_vars => SubscriptionInv'
  <2> SUFFICES ASSUME SubscriptionInv, [Next]_vars
               PROVE  /\ ProfilesHaveIdsOfPaths(db')
                      /\ \A u \in SubscriptionsOf(db') :
                           IsSubscription(u) /\ SubscriptionResolves(u, db')
    BY SerialInvNext DEF SubscriptionInv
  <2>1. ASSUME NEW c \in Clients, Store(c)
        PROVE  /\ ProfilesHaveIdsOfPaths(db')
               /\ \A u \in SubscriptionsOf(db') :
                    IsSubscription(u) /\ SubscriptionResolves(u, db')
    <3>1. PICK accepted \in answer[c] : db' = ApplyAll(db, accepted)
      BY <2>1 DEF Store
    <3>2. /\ accepted = Mutated(changes[c])
          /\ AllPass(changes[c], related[c])
          /\ changes[c] \in Intents \cup {<<>>}
          /\ GoodContent(db)
      BY DEF SubscriptionInv, SerialInv, FlowInv, AnswerOf, Typed
    <3>3. related[c] = db /\ Sensible(changes[c])
      BY <2>1 DEF SubscriptionInv, SerialInv, Fresh, Store
    <3>4. KeepsProfiles(changes[c])
      BY <3>2 DEF KeepsProfiles, Range
    <3> QED
      BY <3>1, <3>2, <3>3, <3>4, StoreKeepsSubscriptions DEF SubscriptionInv, Sensible
  <2>2. CASE db' = db
    BY <2>2 DEF SubscriptionInv
  <2> QED
    BY <2>1, <2>2 DEF Next, Read, Validate, Abandon, vars
<1>3. SubscriptionInv => SubscriptionReferencesResolve
  BY DEF SubscriptionInv, SubscriptionReferencesResolve, SubscriptionsResolve
<1> QED
  BY <1>1, <1>2, <1>3, PTL DEF Spec

===============================================================================
