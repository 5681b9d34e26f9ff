----------------------------- MODULE KeyedLoads -----------------------------
(* Data a view loads for the houses it is given: the rooms of the dashboard   *)
(* (DashboardView) and the trend of the last months (useRevenueTrend).  Every *)
(* change of the houses starts a load in an effect whose cleanup disowns the  *)
(* previous one; the answers arrive in any order.                             *)
EXTENDS Integers, Sequences

CONSTANTS
  HouseLists,  \* the lists the views are given
  NoHouses,    \* the empty one
  MaxLoads     \* bound on the changes

ASSUME LoadsAssumption == NoHouses \notin HouseLists /\ MaxLoads \in Nat

VARIABLES
  given,        \* the houses, and so the requestKey of the trend
  loads,        \* the loads started, answered ones included
  owner,        \* the load each view's last effect started; 0 when it started none
  trend,        \* the key result is stored with
  allRooms,     \* the houses allRooms was loaded for
  isLoadingData

loadVars == <<given, loads, owner, trend, allRooms, isLoadingData>>

Inputs == HouseLists \cup {NoHouses}
Views == {"trend", "rooms"}

LoadTypeOK ==
  /\ {given, trend, allRooms} \subseteq Inputs
  /\ loads \in Seq([of : Inputs, trend : BOOLEAN, rooms : BOOLEAN])
  /\ owner \in [Views -> 0..MaxLoads] /\ isLoadingData \in BOOLEAN

\* The first effects run before the houses have been fetched.
LoadInit ==
  /\ given = NoHouses /\ loads = <<>> /\ owner = [v \in Views |-> 0]
  /\ trend = NoHouses /\ allRooms = NoHouses /\ isLoadingData = FALSE

\* A new list of the same houses runs the dashboard's effect, not the trend's.
HousesGiven(list) ==
  LET n == Len(loads) + 1 IN
  /\ n <= MaxLoads /\ given' = list
  /\ loads' = Append(loads, [of |-> list, trend |-> list \notin {given, NoHouses}, rooms |-> list # NoHouses])
  /\ owner' = [trend |-> IF list = given THEN owner["trend"] ELSE n, rooms |-> n]
  /\ allRooms' = IF list = NoHouses THEN NoHouses ELSE allRooms
  /\ isLoadingData' = (list # NoHouses)
  /\ UNCHANGED trend

\* A month or a house that cannot be fetched counts as empty.
TrendAnswered(n) ==
  /\ loads[n].trend /\ loads' = [loads EXCEPT ![n].trend = FALSE]
  /\ trend' = IF owner["trend"] = n THEN loads[n].of ELSE trend
  /\ UNCHANGED <<given, owner, allRooms, isLoadingData>>

\* rooms set by an effect that was cleaned up
RoomsAnsweredAnyway(n) ==
  /\ loads[n].rooms /\ loads' = [loads EXCEPT ![n].rooms = FALSE]
  /\ allRooms' = loads[n].of /\ isLoadingData' = FALSE
  /\ UNCHANGED <<given, owner, trend>>

RoomsAnswered(n) ==
  /\ loads[n].rooms /\ loads' = [loads EXCEPT ![n].rooms = FALSE]
  /\ IF owner["rooms"] = n THEN allRooms' = loads[n].of /\ isLoadingData' = FALSE
     ELSE UNCHANGED <<allRooms, isLoadingData>>
  /\ UNCHANGED <<given, owner, trend>>

LoadEnds(n) == n \in DOMAIN loads /\ (TrendAnswered(n) \/ RoomsAnswered(n))

LoadNext == (\E list \in Inputs : HousesGiven(list)) \/ \E n \in DOMAIN loads : LoadEnds(n)

\* Every load is answered in the end.
LoadFairness == WF_loadVars(\E n \in DOMAIN loads : LoadEnds(n))

-----------------------------------------------------------------------------
trendLoading == given # NoHouses /\ trend # given

(* When the dashboard does not say "loading", it counts the rooms of the      *)
(* houses there are, however many loads overlapped.                           *)
RoomsAreCurrent == ~isLoadingData => allRooms = given
=============================================================================
