----------------------------- MODULE Navigation -----------------------------
(* Where the user is (selectedData, Sidebar, MobileNav): the tab and the      *)
(* selected house, both kept in the browser's storage.  After a reload an     *)
(* effect selects the stored house once the houses are known; the deletion of *)
(* the selected house leaves it.                                              *)
EXTENDS Integers, FiniteSets

CONSTANTS NavHouses, NoHouse, Tabs, MaxReloads

ASSUME NavigationAssumption ==
  NoHouse \notin NavHouses /\ {"dashboard", "house_rooms", "revenue"} \subseteq Tabs /\ MaxReloads \in Nat

VARIABLES
  houseRows,     \* the houses on the server
  listed,        \* houses, of the store
  fetching,      \* the page's fetchHouses is under way
  activeTab, selectedHouse,
  savedTab, savedHouseId,   \* localStorage
  dirtyCosts,    \* edits that make the revenue tab's interceptor refuse
  houseToDelete, \* in the confirmation, if any
  deletion,      \* "none", "sent", "served", "refetch"
  wasSelected,   \* selectedHouse as onConfirm's closure holds it
  chosen,        \* history: the house the user last chose, if not left since
  lostDeletion,  \* history: the answer to a deletion was lost
  reloads

navVars == <<houseRows, listed, fetching, activeTab, selectedHouse, savedTab, savedHouseId, dirtyCosts,
             houseToDelete, deletion, wasSelected, chosen, lostDeletion, reloads>>
stays == <<houseRows, listed, fetching, houseToDelete, deletion, wasSelected, lostDeletion, reloads>>

MaybeHouse == NavHouses \cup {NoHouse}

NavTypeOK ==
  /\ houseRows \subseteq NavHouses /\ listed \subseteq NavHouses
  /\ {selectedHouse, savedHouseId, houseToDelete, wasSelected, chosen} \subseteq MaybeHouse
  /\ {activeTab, savedTab} \subseteq Tabs /\ {fetching, dirtyCosts, lostDeletion} \subseteq BOOLEAN
  /\ deletion \in {"none", "sent", "served", "refetch"} /\ reloads \in 0..MaxReloads

NavInit ==
  /\ houseRows = NavHouses /\ listed = {} /\ fetching = TRUE
  /\ activeTab = "dashboard" /\ savedTab = "dashboard" /\ dirtyCosts = FALSE
  /\ selectedHouse = NoHouse /\ savedHouseId = NoHouse /\ chosen = NoHouse
  /\ houseToDelete = NoHouse /\ deletion = "none" /\ wasSelected = NoHouse
  /\ lostDeletion = FALSE /\ reloads = 0

\* The effect that hydrates the selection, after any change it depends on.
Hydrate(house, saved, rows) ==
  /\ selectedHouse' = IF house = NoHouse /\ saved \in rows THEN saved ELSE house
  /\ savedHouseId' = saved

\* a deselection that forgets the storage
SelectHouseKept(house, rows) == Hydrate(house, IF house = NoHouse THEN savedHouseId ELSE house, rows)

SelectHouse(house, rows) == Hydrate(house, house, rows)

SetActiveTab(tab) ==
  IF dirtyCosts /\ activeTab = "revenue" /\ tab # "revenue" THEN UNCHANGED <<activeTab, savedTab, dirtyCosts>>
  ELSE activeTab' = tab /\ savedTab' = tab /\ dirtyCosts' = FALSE

NotAsking == houseToDelete = NoHouse

HouseClick(h) ==
  /\ NotAsking /\ h \in listed /\ SelectHouse(h, listed) /\ SetActiveTab("house_rooms")
  /\ chosen' = h /\ UNCHANGED stays

\* The sidebar leaves the house even when the tab is refused.
TabClick(tab) ==
  /\ NotAsking /\ tab # "house_rooms" /\ SetActiveTab(tab) /\ SelectHouse(NoHouse, listed)
  /\ chosen' = NoHouse /\ UNCHANGED stays

MobileTab(tab) ==
  /\ NotAsking /\ SetActiveTab(tab) /\ UNCHANGED <<selectedHouse, savedHouseId, chosen>> /\ UNCHANGED stays

EditCosts ==
  /\ NotAsking /\ activeTab = "revenue" /\ ~dirtyCosts /\ dirtyCosts' = TRUE
  /\ UNCHANGED <<activeTab, savedTab, selectedHouse, savedHouseId, chosen>> /\ UNCHANGED stays

\* "Discard", or a save, frees the tab.
EndEdits ==
  /\ NotAsking /\ dirtyCosts /\ dirtyCosts' = FALSE
  /\ UNCHANGED <<activeTab, savedTab, selectedHouse, savedHouseId, chosen>> /\ UNCHANGED stays

Reload ==
  /\ reloads < MaxReloads /\ reloads' = reloads + 1
  /\ selectedHouse' = NoHouse /\ activeTab' = savedTab /\ listed' = {} /\ fetching' = TRUE /\ dirtyCosts' = FALSE
  /\ houseToDelete' = NoHouse /\ deletion' = "none" /\ wasSelected' = NoHouse
  /\ houseRows' \in {houseRows, IF deletion = "sent" THEN houseRows \ {houseToDelete} ELSE houseRows}
  /\ UNCHANGED <<savedTab, savedHouseId, chosen, lostDeletion>>

HousesFetched ==
  /\ fetching /\ fetching' = FALSE /\ listed' = houseRows
  /\ Hydrate(selectedHouse, savedHouseId, houseRows)
  /\ UNCHANGED <<houseRows, activeTab, savedTab, dirtyCosts, houseToDelete, deletion, wasSelected, chosen, lostDeletion, reloads>>

FetchRefused ==
  /\ fetching /\ fetching' = FALSE
  /\ UNCHANGED <<houseRows, listed, activeTab, selectedHouse, savedTab, savedHouseId, dirtyCosts, houseToDelete,
                 deletion, wasSelected, chosen, lostDeletion, reloads>>

AskHouseDeletion(h) ==
  /\ NotAsking /\ h \in listed /\ houseToDelete' = h
  /\ UNCHANGED <<houseRows, listed, fetching, activeTab, selectedHouse, savedTab, savedHouseId, dirtyCosts,
                 deletion, wasSelected, chosen, lostDeletion, reloads>>

CancelDeletion ==
  /\ houseToDelete # NoHouse /\ deletion = "none" /\ houseToDelete' = NoHouse
  /\ UNCHANGED <<houseRows, listed, fetching, activeTab, selectedHouse, savedTab, savedHouseId, dirtyCosts,
                 deletion, wasSelected, chosen, lostDeletion, reloads>>

\* deleteHouse takes the row out of the list before the server has answered.
ConfirmDeletion ==
  /\ houseToDelete # NoHouse /\ deletion = "none" /\ deletion' = "sent"
  /\ listed' = listed \ {houseToDelete} /\ wasSelected' = selectedHouse
  /\ UNCHANGED <<houseRows, fetching, activeTab, selectedHouse, savedTab, savedHouseId, dirtyCosts, houseToDelete,
                 chosen, lostDeletion, reloads>>

DeletionServed ==
  /\ deletion = "sent" /\ deletion' = "served" /\ houseRows' = houseRows \ {houseToDelete}
  /\ UNCHANGED <<listed, fetching, activeTab, selectedHouse, savedTab, savedHouseId, dirtyCosts, houseToDelete,
                 wasSelected, chosen, lostDeletion, reloads>>

DeletionAnswered ==
  /\ deletion = "served" /\ deletion' = "refetch"
  /\ UNCHANGED <<houseRows, listed, fetching, activeTab, selectedHouse, savedTab, savedHouseId, dirtyCosts,
                 houseToDelete, wasSelected, chosen, lostDeletion, reloads>>

DeletionRefused ==
  /\ deletion \in {"sent", "served"} /\ deletion' = "none"
  /\ lostDeletion' = (lostDeletion \/ deletion = "served")
  /\ listed' = listed \cup {houseToDelete} /\ houseToDelete' = NoHouse
  /\ Hydrate(selectedHouse, savedHouseId, listed')
  /\ UNCHANGED <<houseRows, fetching, activeTab, savedTab, dirtyCosts, wasSelected, chosen, reloads>>

\* await fetchHouses(), which keeps the list when it fails, then the way out;
\* the house's own page stays on its tab.
DeletionEnds(rows, sidebar) ==
  /\ deletion = "refetch" /\ deletion' = "none" /\ houseToDelete' = NoHouse /\ listed' = rows
  /\ IF wasSelected = houseToDelete THEN SelectHouse(NoHouse, rows) /\ chosen' = NoHouse
     ELSE Hydrate(selectedHouse, savedHouseId, rows) /\ UNCHANGED chosen
  /\ IF sidebar /\ wasSelected = houseToDelete THEN SetActiveTab("dashboard")
     ELSE UNCHANGED <<activeTab, savedTab, dirtyCosts>>
  /\ UNCHANGED <<houseRows, fetching, wasSelected, lostDeletion, reloads>>

NavNext ==
  \/ \E h \in NavHouses : HouseClick(h) \/ AskHouseDeletion(h)
  \/ \E tab \in Tabs : TabClick(tab) \/ MobileTab(tab)
  \/ EditCosts \/ EndEdits \/ Reload \/ HousesFetched \/ FetchRefused
  \/ CancelDeletion \/ ConfirmDeletion \/ DeletionServed \/ DeletionAnswered \/ DeletionRefused
  \/ \E rows \in {listed, houseRows}, sidebar \in BOOLEAN : DeletionEnds(rows, sidebar)

-----------------------------------------------------------------------------
(* Once the houses are known the selected house is the one the user chose     *)
(* last and has not left, also after a reload: no effect selects a house      *)
(* again that the user has left.                                              *)
SelectionFollowsChoice ==
  /\ selectedHouse # NoHouse => selectedHouse = chosen
  /\ chosen \in listed => selectedHouse = chosen

(* When no deletion is under way, and no answer to one was lost, the selected *)
(* house exists: no page of a deleted house is left open.                     *)
SelectedExists == deletion = "none" /\ ~lostDeletion => selectedHouse \in houseRows \cup {NoHouse}

(* The selection is the user's and exists.                                    *)
SelectionHolds == SelectionFollowsChoice /\ SelectedExists
=============================================================================
