---------------------------- MODULE RoamingAreaRules --------------------------
(***************************************************************************)
(* The rules of entities/ValidationData.cpp about UDM roaming areas. The   *)
(* areaList is a sequence whose elements are [type, tacs], and only the    *)
(* "tacs" ones are looked at: the other variant of the boost::variant is   *)
(* an area code.                                                           *)
(***************************************************************************)
EXTENDS Outcomes, Sequences, Functions

CONSTANT TacFormat    \* TACS_REGEXP

isTac(tac) == tac \in TacFormat

TacLists(area) == {e.tacs : e \in {e \in Range(area.areaList) : e.type = "tacs"}}

checkForCommonUdmRoamingAreaRules(area) ==
       Raise(area.areaList = <<>>, "emptyAreaList")
  \cup Raise(<<>> \in TacLists(area), "emptyTacs")
  \cup Raise(\E tacs \in TacLists(area) : \E tac \in Range(tacs) : ~isTac(tac), "tacs")

checkForCreationUdmRoamingAreaRules(area) ==
  Conflict(checkForCommonUdmRoamingAreaRules(area))

\* related: the resource at the path of the change, in a set; {} without one.
checkForUpdateUdmRoamingAreaRules(area, related) ==
  IF related = {} THEN Unprocessable({"noRelatedResource"})
  ELSE Conflict(checkForCommonUdmRoamingAreaRules(area))

===============================================================================
