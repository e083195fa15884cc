---------------------------- MODULE MCValidationData --------------------------
(***************************************************************************)
(* Strings, formats and resources for the model-checking modules. Every    *)
(* format has a string that matches and one that does not ("bad").         *)
(***************************************************************************)
EXTENDS Integers, Sequences

MCBitRateFormat == {"1 Mbps"}
MCUuidFormat == {"uuid"}
MCChargingFormat == {"0A0B"}
MCPlmnIdFormat == {"12345", "67890", "Default"}
MCSdFormat == {"aaaaaa", "AAAAAA"}
MCIpv4Format == {"10.0.0.1"}
MCIpv6Format == {"2001::1"}
MCIpv6PrefixFormat == {"2001::/64"}
MCTacFormat == {"00AA"}

\* to_lower_copy, on the slice differentiators and the dnns in use.
MCLower == [x \in {"", "*", "bad", "aaaaaa", "AAAAAA", "net", "NET", "ims"} |->
              CASE x = "AAAAAA" -> "aaaaaa" [] x = "NET" -> "net" [] OTHER -> x]

\* std::string order: digits are before letters.
MCRank == [x \in {"", "12345", "67890", "Default", "p1", "p2"} |->
             CASE x = "" -> 0 [] x = "12345" -> 1 [] x = "67890" -> 2 [] x = "Default" -> 3
               [] x = "p1" -> 4 [] x = "p2" -> 5]

NoAttributes ==
  [sscModes |-> {}, pduSessionTypes |-> {}, fivegQosProfile |-> {}, sessionAmbr |-> {},
   upSecurity |-> {}, smfList |-> {}, charging |-> ""]

Dnn(name, default) ==
  [dnn |-> name, defaultDnnIndicator |-> default, attributes |-> NoAttributes]

Nssai(sst, sd, id) == [sst |-> sst, sd |-> sd, dnnListId |-> id, charging |-> ""]

DnnList(id, dnns) == [dnnListId |-> id, dnnDataList |-> dnns]

PlmnIdSet(plmn, default, single, lists) ==
  [plmnIdSetIdentifier |-> plmn, defaultSingleNssais |-> default,
   singleNssais |-> single, dnnLists |-> lists]

Profile(id, sets) == [udmSliceProfileId |-> id, plmnIdSets |-> sets]

Subscription(profileId, sliceData) ==
  [udmSliceProfileId |-> profileId, udmSliceData |-> sliceData,
   serviceAreaRestriction |-> [areas |-> <<>>, restrictionType |-> "",
                               hasMaxNumOfTas |-> FALSE],
   forbiddenAreas |-> <<>>, subscribedUeAmbr |-> {}, ratRestrictions |-> <<>>,
   coreNetworkTypeRestrictions |-> <<>>, dlPacketCount |-> {}, ueUsageType |-> {},
   roamingOdb |-> "", staticIpAddress |-> {}]

Path(kind, id) == [kind |-> kind, id |-> id]

Change(operation, path, data) == [operation |-> operation, path |-> path, data |-> data]

===============================================================================
