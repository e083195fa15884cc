--------------------------- MODULE SliceProfileRules --------------------------
(***************************************************************************)
(* The rules of entities/ValidationData.cpp about UDM slice profiles: the  *)
(* plmnIdSets of a slice profile, and of the udmSliceData of a             *)
(* subscription, which have the same shape.                                *)
(*                                                                         *)
(*   nssaiDetails  [sst, sd, dnnListId, charging]                          *)
(*   dnnData       [dnn, defaultDnnIndicator, attributes]                  *)
(*   dnnList       [dnnListId, dnnDataList]                                *)
(*   plmnIdSet     [plmnIdSetIdentifier, defaultSingleNssais,              *)
(*                  singleNssais, dnnLists]                                *)
(*   udmSliceProfile [udmSliceProfileId, plmnIdSets]                       *)
(*                                                                         *)
(* Lists are sequences, in the order of the JSON arrays; an absent string  *)
(* is "". The regular expressions are constants: the set of the strings    *)
(* that match. dnnData.attributes is what DnnDataRules looks at.           *)
(***************************************************************************)
EXTENDS DnnDataRules, Sequences, FiniteSets, SequencesExt

CONSTANTS
  PlmnIdFormat,   \* identifiers PLMNID_SET_IDENTIFIER_REGEXP matches
  SdFormat,       \* slice differentiators SD_REGEXP matches
  Lower,          \* boost::algorithm::to_lower_copy, on the strings in use
  Rank            \* position of an identifier in the order of std::string

DEFAULT_VALUE == "Default"

\* The nssais of a set, default ones first: the order in which the loops over
\* defaultSingleNssais and singleNssais fill nssaiList.
AllNssais(set) == set.defaultSingleNssais \o set.singleNssais

\* Two nssais are the same when sst and the lower-cased sd are.
SnssaiOf(n) == <<n.sst, Lower[n.sd]>>

Snssais(nssais) == [i \in DOMAIN nssais |-> SnssaiOf(nssais[i])]

DnnListIdsOf(set) == {l.dnnListId : l \in Range(set.dnnLists)}

ReferencedIds(set) == {n.dnnListId : n \in Range(AllNssais(set))} \ {""}

-------------------------------------------------------------------------------
(* Rules common to CREATE and UPDATE, and to udmSliceData                      *)

NssaiErrors(n) ==
       Raise(n.sst \notin 0..255, "sst")
  \cup Raise(Unknown(n.sd, SdFormat), "sd")
  \cup Raise(Unknown(n.charging, ChargingFormat), "nssaiCharging")

DnnListErrors(list) ==
       Raise(\E d \in Range(list.dnnDataList) : d.defaultDnnIndicator /\ d.dnn = "*",
             "wildcardDefault")
  \cup Raise(\A d \in Range(list.dnnDataList) : ~d.defaultDnnIndicator,
             "noDefaultDnn")
  \cup UNION {DnnDataErrors(d.attributes) : d \in Range(list.dnnDataList)}

\* Seeded fault: a set without dnnLists is not looked at, as for the check of
\* the default dnnListId.
PlmnIdSetErrorsWithDnnLists(set, isSliceProfile) ==
       Raise(Unknown(set.plmnIdSetIdentifier, PlmnIdFormat), "plmnIdSetIdentifier")
  \cup (UNION {NssaiErrors(n) : n \in Range(AllNssais(set))})
  \cup (UNION {DnnListErrors(l) : l \in Range(set.dnnLists)})
  \cup Raise(/\ isSliceProfile
             /\ set.dnnLists # <<>>
             /\ DEFAULT_VALUE \notin DnnListIdsOf(set), "noDefaultDnnList")
  \cup Raise(/\ isSliceProfile
             /\ set.dnnLists # <<>>
             /\ ~(ReferencedIds(set) \subseteq DnnListIdsOf(set)), "danglingDnnListId")

PlmnIdSetErrors(set, isSliceProfile) ==
       Raise(Unknown(set.plmnIdSetIdentifier, PlmnIdFormat), "plmnIdSetIdentifier")
  \cup (UNION {NssaiErrors(n) : n \in Range(AllNssais(set))})
  \cup (UNION {DnnListErrors(l) : l \in Range(set.dnnLists)})
  \cup Raise(/\ isSliceProfile
             /\ set.dnnLists # <<>>
             /\ DEFAULT_VALUE \notin DnnListIdsOf(set), "noDefaultDnnList")
  \cup Raise(/\ isSliceProfile
             /\ ~(ReferencedIds(set) \subseteq DnnListIdsOf(set)), "danglingDnnListId")

checkForCommonUdmSliceProfileRules(plmnIdSets, isSliceProfile) ==
       (UNION {PlmnIdSetErrors(s, isSliceProfile) : s \in Range(plmnIdSets)})
  \cup Raise(/\ isSliceProfile
             /\ \A s \in Range(plmnIdSets) : s.plmnIdSetIdentifier # DEFAULT_VALUE,
             "noDefaultPlmn")

-------------------------------------------------------------------------------
(* Repeated dnns and nssais                                                    *)

\* The lower-cased dnns of a list, at their positions. A dnn that is absent is
\* never compared.
DnnNames(list) ==
  [i \in {i \in DOMAIN list.dnnDataList : list.dnnDataList[i].dnn # ""} |->
     Lower[list.dnnDataList[i].dnn]]

checkForRepeatedDnnsandNssais(plmnIdSets) ==
       Raise(\E s \in Range(plmnIdSets) : HasRepeats(Snssais(AllNssais(s))),
             "repeatedNssai")
  \cup Raise(\E s \in Range(plmnIdSets) : \E l \in Range(s.dnnLists) :
                HasRepeats(DnnNames(l)), "repeatedDnn")

-------------------------------------------------------------------------------
(* Rules of an UPDATE, against the slice profile of the related resources      *)

\* std::map::insert keeps what a key was first inserted with: {} or the first
\* of the positions that have the key.
First(positions) == {i \in positions : \A j \in positions : i <= j}

FirstSets(profile, plmn) ==
  LET sets == profile.plmnIdSets
  IN  {sets[i] : i \in First({i \in DOMAIN sets : sets[i].plmnIdSetIdentifier = plmn})}

\* getAllNssaisUdmSliceProfile: the nssais the profile has under <<plmn, key>>.
\* Looking up an identifier that is not there gives the empty list.
NssaisOf(profile, plmn, key) == UNION {Range(s[key]) : s \in FirstSets(profile, plmn)}

\* getAllDnnsUdmSliceProfile: likewise, {} or the dnns under <<plmn, dnnListId>>.
DnnsOf(profile, plmn, id) ==
  LET sets == profile.plmnIdSets
      Lists(s) == First({k \in DOMAIN s.dnnLists : s.dnnLists[k].dnnListId = id})
  IN  UNION {{DnnNames(sets[i].dnnLists[k]) : k \in Lists(sets[i])} :
               i \in First({i \in DOMAIN sets : /\ sets[i].plmnIdSetIdentifier = plmn
                                                /\ id \in DnnListIdsOf(sets[i])})}

\* A repeated nssai passes when the database has the nssai, in the list of the
\* same name and with the dnnListId of the change as it was sent.
checkForRepeatedNssaisOnUpdate(set, related) ==
  \E j \in Repeats(Snssais(AllNssais(set))) :
    LET n   == AllNssais(set)[j]
        key == IF j <= Len(set.defaultSingleNssais) THEN "defaultSingleNssais"
                                                    ELSE "singleNssais"
    IN  ~\E m \in NssaisOf(related, set.plmnIdSetIdentifier, key) :
           SnssaiOf(m) = SnssaiOf(n) /\ m.dnnListId = n.dnnListId

\* How often a dnn is in a list before position n.
Times(dnns, dnn, n) == Cardinality({i \in DOMAIN dnns : i < n /\ dnns[i] = dnn})

InAll(dnns, dnn) == Cardinality({i \in DOMAIN dnns : dnns[i] = dnn})

\* Seeded fault: >= for > in the comparison with the database.
RepeatedDnnsUnlessAsOften(set, list, related) ==
  LET dnns == DnnNames(list)
  IN  \E j \in Repeats(dnns) :
        \A stored \in DnnsOf(related, set.plmnIdSetIdentifier, list.dnnListId) :
          InAll(stored, dnns[j]) < Times(dnns, dnns[j], j)

\* A dnn that repeats k earlier ones passes when the database has it more
\* than k times in the list.
RepeatedDnnsOnUpdate(set, list, related) ==
  LET dnns == DnnNames(list)
  IN  \E j \in Repeats(dnns) :
        \A stored \in DnnsOf(related, set.plmnIdSetIdentifier, list.dnnListId) :
          InAll(stored, dnns[j]) <= Times(dnns, dnns[j], j)

\* dnnListIdsOnChange, a multimap: the pairs the change has.
DnnListIdPairs(plmnIdSets) ==
  UNION {{s.plmnIdSetIdentifier} \X DnnListIdsOf(s) : s \in Range(plmnIdSets)}

\* Seeded faults: the loop starts where the identifier would be (lower_bound),
\* and the loop steps before it looks.
DnnListIdDefinedFrom(plmn, id, plmnIdSets) ==
  \E p \in DnnListIdPairs(plmnIdSets) : p[2] = id /\ Rank[p[1]] >= Rank[plmn]

DnnListIdDefinedAfter(plmn, id, plmnIdSets) ==
  LET pairs == DnnListIdPairs(plmnIdSets)
  IN  /\ \E p \in pairs : p[1] = plmn
      /\ \E p \in pairs : p[2] = id /\ Rank[p[1]] > Rank[plmn]

\* The loop starts at the entries of the identifier, if it has any, and runs
\* to the end of the multimap: through the entries of every identifier that
\* is later in the order of the keys.
DnnListIdDefined(plmn, id, plmnIdSets) ==
  LET pairs == DnnListIdPairs(plmnIdSets)
  IN  /\ \E p \in pairs : p[1] = plmn
      /\ \E p \in pairs : p[2] = id /\ Rank[p[1]] >= Rank[plmn]

checkForUpdateSpecificUdmSliceProfileRules(plmnIdSets, related) ==
       Raise(\E s \in Range(plmnIdSets) : checkForRepeatedNssaisOnUpdate(s, related),
             "repeatedNssai")
  \cup Raise(\E s \in Range(plmnIdSets) : \E l \in Range(s.dnnLists) :
                RepeatedDnnsOnUpdate(s, l, related), "repeatedDnn")
  \cup Raise(\E s \in Range(related.plmnIdSets) : \E id \in DnnListIdsOf(s) :
                ~DnnListIdDefined(s.plmnIdSetIdentifier, id, plmnIdSets),
             "dnnListIdDeleted")

-------------------------------------------------------------------------------
(* What is answered for a slice profile. An empty plmnIdSets is not looked at  *)
(* by the common rules.                                                        *)

CommonUnlessEmpty(plmnIdSets, isSliceProfile) ==
  IF plmnIdSets = <<>> THEN {}
  ELSE checkForCommonUdmSliceProfileRules(plmnIdSets, isSliceProfile)

checkForCreationUdmSliceProfileRules(profile) ==
  Conflict(CommonUnlessEmpty(profile.plmnIdSets, TRUE)
           \cup checkForRepeatedDnnsandNssais(profile.plmnIdSets))

\* related: the resource at the path of the change, in a set; {} without one.
checkForUpdateUdmSliceProfileRules(profile, related) ==
  IF related = {} THEN Unprocessable({"noRelatedResource"})
  ELSE Conflict(
         CommonUnlessEmpty(profile.plmnIdSets, TRUE)
         \cup UNION {checkForUpdateSpecificUdmSliceProfileRules(profile.plmnIdSets, r) :
                       r \in related})

\* computeMutations: every nssai without a dnnListId gets the default one.
includeNssai(nssais) ==
  [i \in DOMAIN nssais |->
     IF nssais[i].dnnListId = "" THEN [nssais[i] EXCEPT !.dnnListId = DEFAULT_VALUE]
                                 ELSE nssais[i]]

MutateSets(plmnIdSets) ==
  [i \in DOMAIN plmnIdSets |->
     [plmnIdSets[i] EXCEPT !.defaultSingleNssais = includeNssai(@),
                           !.singleNssais = includeNssai(@)]]

===============================================================================
