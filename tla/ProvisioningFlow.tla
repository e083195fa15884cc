---------------------------- MODULE ProvisioningFlow --------------------------
(***************************************************************************)
(* What the rules of ValidationData come to over time. The validator keeps *)
(* nothing between requests: whoever provisions reads the resources from   *)
(* the database, sends them along with the changes, and, on a 200, stores  *)
(* the changes of the answer. So what the validator protects is the        *)
(* database at the end of any sequence of such rounds.                     *)
(*                                                                         *)
(* The clients and the database are external. A client may stop after any  *)
(* step. Serialized says that a client has the database for itself from    *)
(* its read to its store; without it, another client may store in between, *)
(* and what was sent as related resources is stale.                        *)
(***************************************************************************)
EXTENDS ValidationData

CONSTANTS
  Clients,      \* who provisions
  Intents,      \* the lists of changes they send
  InitialDb,    \* what is in the database from the start
  Serialized    \* a round is done without others in between

ASSUME SerializedAssumption == Serialized \in BOOLEAN

-------------------------------------------------------------------------------
(* The shape of what is sent and stored, as far as the database depends on it. *)

IsSequence(list) == list \in Seq(Range(list))

IsNssai(n) == {"sst", "sd", "charging", "dnnListId"} \subseteq DOMAIN n

IsPlmnIdSet(s) ==
  /\ {"plmnIdSetIdentifier", "defaultSingleNssais", "singleNssais", "dnnLists"} \subseteq DOMAIN s
  /\ s.plmnIdSetIdentifier \in DOMAIN Rank
  /\ IsSequence(s.defaultSingleNssais) /\ IsSequence(s.singleNssais)
  /\ \A n \in Range(s.defaultSingleNssais) \cup Range(s.singleNssais) : IsNssai(n)
  /\ \A l \in Range(s.dnnLists) : IsSequence(l.dnnDataList)

IsProfile(profile) ==
  /\ {"udmSliceProfileId", "plmnIdSets"} \subseteq DOMAIN profile
  /\ IsSequence(profile.plmnIdSets)
  /\ \A s \in Range(profile.plmnIdSets) : IsPlmnIdSet(s)

IsSubscription(u) ==
  /\ {"udmSliceProfileId", "udmSliceData"} \subseteq DOMAIN u
  /\ \A sets \in u.udmSliceData : \A s \in Range(sets) : IsPlmnIdSet(s)

IsChange(c) ==
  /\ {"operation", "path", "data"} \subseteq DOMAIN c
  /\ c.path.kind \in PathKinds
  /\ c.operation # "DELETE" =>
       /\ c.path.kind = "udmSliceProfile" => IsProfile(c.data)
       /\ c.path.kind = "udmStaticData" => IsSubscription(c.data)

PathsOf(kind, content) == {p \in DOMAIN content : p.kind = kind}

ProfilesOf(content) == {content[p] : p \in PathsOf("udmSliceProfile", content)}

SubscriptionsOf(content) == {content[p] : p \in PathsOf("udmStaticData", content)}

\* No dnnList has the same dnn twice.
DnnsAreDistinct(profile) ==
  \A s \in Range(profile.plmnIdSets) : \A l \in Range(s.dnnLists) : ~HasRepeats(DnnNames(l))

\* Every nssai points to a dnnList of its set, but for the "Default" that
\* computeMutations writes into sets without dnnLists.
ReferencesResolve(profile) ==
  \A s \in Range(profile.plmnIdSets) :
    \/ ReferencedIds(s) \subseteq DnnListIdsOf(s)
    \/ s.dnnLists = <<>> /\ ReferencedIds(s) = {DEFAULT_VALUE}

\* Every dnnListId a subscription points to is defined by itself or by the
\* slice profile it refers to, under the same identifier or a later one, but for
\* the "Default" of computeMutations.
SubscriptionResolves(u, content) ==
  \A sets \in u.udmSliceData :
    LET defined == DnnListIdPairs(sets) \cup
                   UNION {DnnListIdPairs(profile.plmnIdSets) :
                            profile \in getRelatedUdmSliceProfile(content, u.udmSliceProfileId)}
    IN  \A pair \in ReferencedPairs(sets) :
          \/ pair[2] = DEFAULT_VALUE
          \/ \E d \in defined : d[2] = pair[2] /\ Rank[d[1]] >= Rank[pair[1]]

SubscriptionsResolve(content) ==
  \A u \in SubscriptionsOf(content) : SubscriptionResolves(u, content)

\* A slice profile has the id of its path, which nothing in the validator
\* compares, and is not deleted.
HasIdOfPath(path, profile) == path.id \in DOMAIN Rank /\ profile.udmSliceProfileId = path.id

ProfilesHaveIdsOfPaths(content) ==
  \A p \in PathsOf("udmSliceProfile", content) : HasIdOfPath(p, content[p])

KeepsProfiles(intent) ==
  \A c \in Range(intent) :
    c.path.kind = "udmSliceProfile" => c.operation # "DELETE" /\ HasIdOfPath(c.path, c.data)

ASSUME RankAssumption == \A x \in DOMAIN Rank : Rank[x] \in Int

ASSUME IntentsAssumption ==
  \A intent \in Intents : IsSequence(intent) /\ \A c \in Range(intent) : IsChange(c)

ASSUME InitialDbAssumption ==
  /\ \A p \in DOMAIN InitialDb : p.kind \in PathKinds
  /\ \A profile \in ProfilesOf(InitialDb) :
       IsProfile(profile) /\ DnnsAreDistinct(profile) /\ ReferencesResolve(profile)
  /\ \A u \in SubscriptionsOf(InitialDb) : IsSubscription(u)

-------------------------------------------------------------------------------

VARIABLES
  db,           \* the database: a function from paths to resources
  step,         \* step[c]: "idle", "read" or "answered"
  changes,      \* changes[c]: the changes of the round
  related,      \* related[c]: what was read for it
  answer        \* answer[c]: {} or {the changes of a 200}

vars == <<db, step, changes, related, answer>>

Init ==
  /\ db = InitialDb
  /\ step = [c \in Clients |-> "idle"]
  /\ changes = [c \in Clients |-> <<>>]
  /\ related = [c \in Clients |-> InitialDb]
  /\ answer = [c \in Clients |-> {}]

\* A resource is created where there is none.
Sensible(intent) ==
  \A i \in DOMAIN intent :
    intent[i].operation = "CREATE" <=> intent[i].path \notin DOMAIN db

Read(c) ==
  /\ step[c] = "idle"
  /\ Serialized => \A other \in Clients : step[other] = "idle"
  /\ \E intent \in Intents :
       /\ Sensible(intent)
       /\ changes' = [changes EXCEPT ![c] = intent]
  /\ related' = [related EXCEPT ![c] = db]
  /\ step' = [step EXCEPT ![c] = "read"]
  /\ UNCHANGED <<db, answer>>

\* The request is answered: see ValidationServer for how.
Validate(c) ==
  /\ step[c] = "read"
  /\ answer' = [answer EXCEPT ![c] =
                  IF AllPass(changes[c], related[c]) THEN {Mutated(changes[c])} ELSE {}]
  /\ step' = [step EXCEPT ![c] = "answered"]
  /\ UNCHANGED <<db, changes, related>>

\* The last of the changes for a path, in a set; {} without one.
LastFor(list, path) ==
  {list[i] : i \in {i \in DOMAIN list : /\ list[i].path = path
                                        /\ \A j \in DOMAIN list : list[j].path = path => j <= i}}

\* The database with the changes of a list, one after the other.
ApplyAll(content, list) ==
  LET written == {p \in {list[i].path : i \in DOMAIN list} :
                    \E c \in LastFor(list, p) : c.operation # "DELETE"}
      kept    == {p \in DOMAIN content : LastFor(list, p) = {}}
  IN  [p \in written \cup kept |->
         IF p \in kept THEN content[p] ELSE (CHOOSE c \in LastFor(list, p) : TRUE).data]

\* Seeded fault: an answer is kept for the next round.
ForgetRequestOnly(c) ==
  /\ step' = [step EXCEPT ![c] = "idle"]
  /\ changes' = [changes EXCEPT ![c] = <<>>]
  /\ related' = [related EXCEPT ![c] = InitialDb]
  /\ UNCHANGED answer

Forget(c) ==
  /\ step' = [step EXCEPT ![c] = "idle"]
  /\ changes' = [changes EXCEPT ![c] = <<>>]
  /\ related' = [related EXCEPT ![c] = InitialDb]
  /\ answer' = [answer EXCEPT ![c] = {}]

Store(c) ==
  /\ step[c] = "answered"
  /\ \E accepted \in answer[c] : db' = ApplyAll(db, accepted)
  /\ Forget(c)

\* The answer was not a 200, or the client is gone before it stored.
Abandon(c) ==
  /\ step[c] # "idle"
  /\ Forget(c)
  /\ UNCHANGED db

Next == \E c \in Clients : Read(c) \/ Validate(c) \/ Store(c) \/ Abandon(c)

Spec == Init /\ [][Next]_vars

-------------------------------------------------------------------------------
(* What the database holds                                                     *)

RepeatedNssais(set) ==
  LET nssais == Snssais(AllNssais(set)) IN {nssais[j] : j \in Repeats(nssais)}

DistinctIdentifiers(profile) ==
  ~HasRepeats([i \in DOMAIN profile.plmnIdSets |-> profile.plmnIdSets[i].plmnIdSetIdentifier])

\* The database is a function on paths, and a client that is idle has
\* forgotten its round.
TypeOK ==
  /\ \A p \in DOMAIN db : p.kind \in PathKinds
  /\ step \in [Clients -> {"idle", "read", "answered"}]
  /\ \A c \in Clients :
       /\ changes[c] \in Intents \cup {<<>>}
       /\ step[c] # "answered" => answer[c] = {}

\* Starting from a database without any, no dnnList of a slice profile ever
\* has the same dnn twice, whatever is stored between a client's read and its
\* store: a repeated dnn passes an UPDATE only when it was repeated more often
\* in what was read, and that never comes to be.
NoRepeatedDnns == \A profile \in ProfilesOf(db) : DnnsAreDistinct(profile)

\* Every nssai of a stored slice profile points to a dnnList of its set, but
\* for the "Default" that computeMutations writes into sets without dnnLists.
ProfileReferencesResolve == \A profile \in ProfilesOf(db) : ReferencesResolve(profile)

\* A stored slice profile, sent back as it is, is accepted: a client may read,
\* change and write. But a set with nssais has to have dnnLists, and an nssai
\* may be repeated only when no two sets have the same identifier: it is looked
\* for in the first set with the identifier, wherever it is repeated.
StoredProfilesPassAgain ==
  \A p \in PathsOf("udmSliceProfile", db) :
    (/\ DistinctIdentifiers(db[p]) \/ \A s \in Range(db[p].plmnIdSets) : RepeatedNssais(s) = {}
     /\ \A s \in Range(db[p].plmnIdSets) : s.dnnLists # <<>> \/ AllNssais(s) = <<>>)
      => CheckChange([operation |-> "UPDATE", path |-> p, data |-> db[p]], db).valid

\* What is left of "do not allow deleting a dnnListId": an UPDATE keeps every
\* plmnIdSetIdentifier that has dnnLists, and every dnnListId is still there
\* under the same identifier or a later one.
DnnListIdsStayOrMoveUp ==
  [][\A p \in PathsOf("udmSliceProfile", db) \cap DOMAIN db' :
       LET kept == DnnListIdPairs(db'[p].plmnIdSets)
       IN  \A pair \in DnnListIdPairs(db[p].plmnIdSets) :
             /\ \E k \in kept : k[1] = pair[1]
             /\ \E k \in kept : k[2] = pair[2] /\ Rank[k[1]] >= Rank[pair[1]]]_vars

\* Every dnnListId a stored subscription points to is defined by itself or by
\* the slice profile it refers to, under the same identifier or a later one,
\* but for the "Default" of computeMutations. A round that reads fresh data
\* keeps it so, although the profile and the subscription change in different
\* rounds and neither is looked at when the other one changes, except for the
\* related profile of the subscription. This is as long as no slice profile is
\* deleted, and each has the id of its path: a DELETE is never refused, whoever
\* refers to the resource, and no rule looks at the id of a profile.
SubscriptionReferencesResolve == SubscriptionsResolve(db)

-------------------------------------------------------------------------------
(* What comments of the code say, and the code does not do                     *)

\* "Do not allow deleting a dnnListId from UdmSliceProfile": an UPDATE keeps
\* every dnnListId under its identifier.
DnnListIdsStay ==
  [][\A p \in PathsOf("udmSliceProfile", db) \cap DOMAIN db' :
       DnnListIdPairs(db[p].plmnIdSets) \subseteq DnnListIdPairs(db'[p].plmnIdSets)]_vars

\* "It is also duplicated in database. Return OK and log the issue": an nssai
\* that is repeated after an UPDATE was repeated before.
NssaiRepeatedOnlyIfItWas ==
  [][\A p \in PathsOf("udmSliceProfile", db) \cap DOMAIN db' :
       \A s \in Range(db'[p].plmnIdSets) :
         RepeatedNssais(s) \subseteq
           UNION {RepeatedNssais(old) : old \in Range(db[p].plmnIdSets)}]_vars

\* "Check that DnnListId in nssaiDetails point to Dnnlists": every nssai of a
\* stored slice profile does.
NssaisPointToDnnLists ==
  \A profile \in ProfilesOf(db) : \A s \in Range(profile.plmnIdSets) :
    ReferencedIds(s) \subseteq DnnListIdsOf(s)

===============================================================================
