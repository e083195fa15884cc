--------------------------- MODULE MCProvisioningFlow -------------------------
(***************************************************************************)
(* One slice profile p1, whose sets are for the identifiers "12345" and    *)
(* "Default" (later in the order of the keys), with the dnnListIds         *)
(* "Default" and "X", and one subscription m1 that refers to it.           *)
(***************************************************************************)
EXTENDS ProvisioningFlow, MCValidationData

n == Nssai(1, "aaaaaa", "")
N == Nssai(1, "AAAAAA", "")
nX == Nssai(1, "aaaaaa", "X")
NX == Nssai(1, "AAAAAA", "X")

Default == DnnList("Default", <<Dnn("net", TRUE)>>)
DefaultTwice == DnnList("Default", <<Dnn("net", TRUE), Dnn("NET", FALSE)>>)
X == DnnList("X", <<Dnn("ims", TRUE)>>)

P1 == Path("udmSliceProfile", "p1")
M1 == Path("udmStaticData", "m1")

MCInitialDb ==
  [p \in {Path("provJournal", "m1")} |-> [imsi |-> "imsi"]]

Sets(plmns, defaults, singles, lists) ==
  {PlmnIdSet(p, d, s, l) : p \in plmns, d \in defaults, s \in singles, l \in lists}

Profiles(numbered, defaults) ==
  {Profile("p1", <<d>>) : d \in defaults} \cup
  {Profile("p1", <<s, d>>) : s \in numbered, d \in defaults}

Subscriptions(sets) == {Subscription("p1", {})} \cup {Subscription("p1", {<<s>>}) : s \in sets}

Writes(path, resources) ==
  {<<Change(op, path, r)>> : op \in {"CREATE", "UPDATE"}, r \in resources}

Deletes(path) == {<<Change("DELETE", path, {})>>}

\* Both resources in one request: they are checked against what was read.
Both(profiles, subscriptions) ==
  {<<Change("UPDATE", P1, p), Change("UPDATE", M1, u)>> :
     p \in profiles, u \in subscriptions}

SmallProfiles ==
  Profiles(Sets({"12345"}, {<<n>>, <<nX>>}, {<<>>}, {<<>>, <<Default>>, <<Default, X>>}),
           Sets({"Default"}, {<<n>>}, {<<>>}, {<<Default>>, <<Default, X>>}))

SubscriptionSets ==
  Sets({"12345"}, {<<n>>, <<nX>>}, {<<>>}, {<<>>, <<X>>})

SerializedIntents ==
  Writes(P1, SmallProfiles) \cup Writes(M1, Subscriptions(SubscriptionSets))
  \cup Deletes(M1) \cup Both(SmallProfiles, Subscriptions(SubscriptionSets))

\* What SubscriptionReferencesResolve rests on.
ASSUME SerializedIntentsKeepProfiles == \A intent \in SerializedIntents : KeepsProfiles(intent)

\* Repeated nssais, within and across the two lists of a set, and repeated
\* dnns.
RepeatingProfiles ==
  Profiles(Sets({"12345"}, {<<n>>, <<nX>>, <<nX, NX>>, <<n, N>>}, {<<>>, <<NX>>},
                {<<Default, X>>, <<DefaultTwice, X>>}),
           Sets({"Default"}, {<<n>>}, {<<>>}, {<<>>, <<Default>>, <<DefaultTwice>>}))

RepeatingIntents == Writes(P1, RepeatingProfiles)

\* Two sets with the same identifier, an nssai repeated in the second one.
TwoSetsForOneIdentifier ==
  {Profile("p1", <<PlmnIdSet("12345", <<first>>, <<>>, <<Default, X>>),
                   PlmnIdSet("12345", second, <<>>, <<Default, X>>),
                   PlmnIdSet("Default", <<n>>, <<>>, <<Default>>)>>) :
     first \in {nX, Nssai(2, "", "X")}, second \in {<<nX>>, <<nX, NX>>}}

\* Two clients store profiles that differ in their dnns.
StaleProfiles ==
  TwoSetsForOneIdentifier \cup
  Profiles(Sets({"12345"}, {<<nX>>, <<nX, NX>>}, {<<>>}, {<<Default, X>>, <<DefaultTwice, X>>}),
           Sets({"Default"}, {<<n>>}, {<<>>}, {<<>>, <<Default>>, <<DefaultTwice>>}))

StaleIntents == Writes(P1, StaleProfiles) \cup Deletes(P1)

===============================================================================
