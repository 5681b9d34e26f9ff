--------------------------- MODULE WebClient_proof ---------------------------
(* What parts of WebClient guarantee for any number of rooms, houses, tabs,   *)
(* submissions, loads, reloads and failures: the form of a new house creates  *)
(* nothing twice, the dashboard counts the rooms of the houses there are, the *)
(* selected house is the one the user chose and exists, the price sheet       *)
(* closes on what is stored, a settings card at rest shows the server's       *)
(* account, the page's user and its look are the server's, a session and its  *)
(* keys survive what one tab does, the forms of documents keep their word,    *)
(* and an image is returned at the first quality that fits, or at the floor.  *)
EXTENDS WebClient, FiniteSetTheorems, TLAPS

\* What the client as a whole does to a part is a step of it or none.
LEMMA PartsStep ==
  ASSUME [Next]_vars
  PROVE  /\ [SetupNext]_setupVars /\ [LoadNext]_loadVars /\ [NavNext]_navVars
         /\ [SheetNext]_sheetVars /\ [CardNext]_cardVars /\ [EncodingNext]_encodingVars
         /\ [ProfileNext]_profileVars /\ [SessionNext]_sessionVars /\ [DocNext]_docVars
BY DEF Next, Rests, vars

LEMMA PartsInit ==
  Init => /\ SetupInit /\ LoadInit /\ NavInit /\ SheetInit /\ ProfileInit /\ SessionInit /\ DocInit
          /\ CardInit \/ CardUnmounted
          /\ EncodingInit \/ EncodingIdle
BY DEF Init

-----------------------------------------------------------------------------
(* The form of a new house.                                                   *)

\* Only one submission makes the house, the one that found the code free, and that
\* one alone sends the rooms, once each.
SetupInv ==
  /\ made \in [houses : 0..1, rooms : [Planned -> 0..1]]
  /\ houseCall \in [Submissions -> Stages] /\ roomCall \in [Submissions -> [Planned -> RoomStages]]
  /\ tries \in 0..MaxTries /\ \A s \in Submissions : s > tries => houseCall[s] = "none"
  /\ made.houses = 0 => \A s \in Submissions : houseCall[s] # "served" /\ \A r \in Planned : roomCall[s][r] = "none"
  /\ \A s, t \in Submissions : houseCall[s] = "served" =>
       (t # s => houseCall[t] # "served") /\ \A r \in Planned : roomCall[t][r] = "none"
  /\ \A s, t \in Submissions, r \in Planned : roomCall[s][r] # "none" /\ roomCall[t][r] # "none" => s = t
  /\ \A r \in Planned : made.rooms[r] # 0 => \E s \in Submissions : roomCall[s][r] \notin {"none", "sent"}

LEMMA SetupInvInit == SetupInit => SetupInv
<1> SUFFICES ASSUME SetupInit PROVE SetupInv
  OBVIOUS
<1>1. MaxTries \in Nat
  BY SetupAssumption
<1>2. \A s \in Submissions : houseCall[s] = "none" /\ \A r \in Planned : roomCall[s][r] = "none"
  BY DEF SetupInit
<1>3. houseCall \in [Submissions -> Stages] /\ roomCall \in [Submissions -> [Planned -> RoomStages]]
  BY DEF SetupInit, Stages, RoomStages
<1>4. made \in [houses : 0..1, rooms : [Planned -> 0..1]] /\ made.houses = 0 /\ \A r \in Planned : made.rooms[r] = 0
  BY DEF SetupInit
<1> QED BY <1>1, <1>2, <1>3, <1>4 DEF SetupInit, SetupInv

\* A step of one submission's request for a room.
LEMMA RoomGoesOn ==
  ASSUME SetupInv, NEW s \in Submissions, NEW r \in Planned, NEW stage \in RoomStages \ {"none", "sent"},
         RoomGoes(s, r, stage), roomCall[s][r] # "none", houseCall' = houseCall, tries' = tries,
         \/ made' = made
         \/ roomCall[s][r] = "sent" /\ made' = [made EXCEPT !.rooms = [made.rooms EXCEPT ![r] = made.rooms[r] + 1]]
  PROVE  SetupInv'
<1>1. /\ roomCall' \in [Submissions -> [Planned -> RoomStages]] /\ roomCall'[s][r] = stage
      /\ \A t \in Submissions, q \in Planned : t # s \/ q # r => roomCall'[t][q] = roomCall[t][q]
  BY DEF SetupInv, RoomGoes
<1>2. roomCall[s][r] = "sent" => made.rooms[r] = 0
  BY DEF SetupInv
<1>3. /\ made' \in [houses : 0..1, rooms : [Planned -> 0..1]] /\ made'.houses = made.houses
      /\ \A q \in Planned : q # r => made'.rooms[q] = made.rooms[q]
  <2>1. CASE made' = made
    BY <2>1 DEF SetupInv
  <2>2. CASE roomCall[s][r] = "sent" /\ made' = [made EXCEPT !.rooms = [made.rooms EXCEPT ![r] = made.rooms[r] + 1]]
    <3>1. made' = [made EXCEPT !.rooms = [made.rooms EXCEPT ![r] = 1]]
      BY <1>2, <2>2
    <3> QED BY <3>1 DEF SetupInv
  <2> QED BY <2>1, <2>2
<1>4. \A q \in Planned : made'.rooms[q] # 0 => \E t \in Submissions : roomCall'[t][q] \notin {"none", "sent"}
  <2> TAKE q \in Planned
  <2>1. CASE q = r
    BY <1>1, <2>1
  <2>2. CASE q # r
    BY <1>1, <1>3, <2>2 DEF SetupInv
  <2> QED BY <2>1, <2>2
<1>5. \A t \in Submissions, q \in Planned : roomCall'[t][q] = "none" <=> roomCall[t][q] = "none"
  BY <1>1
<1> QED BY <1>1, <1>3, <1>4, <1>5 DEF SetupInv

\* A step of one submission's request for the house that goes no further.
LEMMA HouseGoesOn ==
  ASSUME SetupInv, NEW s \in Submissions, NEW stage \in Stages \ {"served"}, s <= tries',
         houseCall' = [houseCall EXCEPT ![s] = stage], tries' \in 0..MaxTries, tries <= tries',
         UNCHANGED <<made, roomCall>>
  PROVE  SetupInv'
<1>1. MaxTries \in Nat /\ tries \in Nat /\ tries' \in Nat
  BY SetupAssumption DEF SetupInv
<1>2. /\ houseCall' \in [Submissions -> Stages]
      /\ \A t \in Submissions : houseCall'[t] = IF t = s THEN stage ELSE houseCall[t]
  BY DEF SetupInv
<1>3. \A t \in Submissions : t > tries' => t # s /\ t > tries
  BY <1>1 DEF Submissions
<1>4. \A t \in Submissions : t > tries' => houseCall'[t] = "none"
  BY <1>2, <1>3 DEF SetupInv
<1>5. \A t \in Submissions : houseCall'[t] = "served" => t # s /\ houseCall[t] = "served"
  BY <1>2
<1> QED BY <1>2, <1>4, <1>5 DEF SetupInv

LEMMA SetupInvStep == SetupInv /\ [SetupNext]_setupVars => SetupInv'
<1> SUFFICES ASSUME SetupInv, [SetupNext]_setupVars PROVE SetupInv'
  OBVIOUS
<1>0. MaxTries \in Nat /\ tries \in Nat /\ tries <= MaxTries
  BY SetupAssumption DEF SetupInv
<1>a. \A s \in Submissions : houseCall[s] # "none" => s <= tries
  BY <1>0 DEF SetupInv, Submissions
<1>1. CASE SubmitSetup
  <2>1. PICK s \in Submissions : s = tries + 1
    BY <1>0, <1>1 DEF SubmitSetup, Submissions
  <2>2. /\ houseCall' = [houseCall EXCEPT ![s] = "sent"] /\ tries' = s /\ "sent" \in Stages \ {"served"}
        /\ UNCHANGED <<made, roomCall>>
    BY <1>1, <2>1 DEF SubmitSetup, Stages
  <2>3. tries' \in 0..MaxTries /\ tries <= tries' /\ s <= tries'
    BY <1>0, <2>1, <2>2 DEF Submissions
  <2> QED BY <2>2, <2>3, HouseGoesOn
<1>2. ASSUME NEW s \in Submissions, HouseServed(s) PROVE SetupInv'
  <2>1. /\ made.houses = 0 /\ houseCall[s] = "sent" /\ houseCall' = [houseCall EXCEPT ![s] = "served"]
        /\ UNCHANGED <<roomCall, tries>>
    BY <1>2 DEF HouseServed
  <2>2. made' = [made EXCEPT !.houses = 1]
    BY <1>2, <2>1 DEF HouseServed
  <2>3. made' \in [houses : 0..1, rooms : [Planned -> 0..1]] /\ made'.houses = 1 /\ made'.rooms = made.rooms
    BY <2>2 DEF SetupInv
  <2>4. /\ houseCall' \in [Submissions -> Stages]
        /\ \A t \in Submissions : houseCall'[t] = IF t = s THEN "served" ELSE houseCall[t]
    BY <2>1 DEF SetupInv, Stages
  <2>5. \A t \in Submissions : t > tries' => houseCall'[t] = "none"
    BY <2>1, <2>4 DEF SetupInv
  <2>6. \A t \in Submissions : houseCall[t] # "served" /\ \A r \in Planned : roomCall[t][r] = "none"
    BY <2>1 DEF SetupInv
  <2> QED BY <2>1, <2>3, <2>4, <2>5, <2>6 DEF SetupInv
<1>3. ASSUME NEW s \in Submissions, HouseCreated(s) PROVE SetupInv'
  <2>1. houseCall[s] = "served" /\ UNCHANGED <<made, tries>> /\ s <= tries
    BY <1>3, <1>a DEF HouseCreated
  <2>2. CASE Planned = {}
    <3>1. houseCall' = [houseCall EXCEPT ![s] = "ended"] /\ roomCall' = roomCall /\ "ended" \in Stages \ {"served"}
      BY <1>3, <2>2 DEF HouseCreated, Stages
    <3>2. tries' \in 0..MaxTries /\ tries <= tries' /\ s <= tries'
      BY <1>0, <2>1
    <3> QED BY <2>1, <3>1, <3>2, HouseGoesOn
  <2>3. CASE Planned # {}
    <3>1. /\ houseCall' = [houseCall EXCEPT ![s] = "rooms"]
          /\ roomCall' = [roomCall EXCEPT ![s] = [r \in Planned |-> "sent"]]
      BY <1>3, <2>3 DEF HouseCreated
    <3>2. made.houses # 0 /\ \A t \in Submissions, r \in Planned : roomCall[t][r] = "none"
      BY <2>1 DEF SetupInv
    <3>3. \A t \in Submissions : t # s => houseCall[t] # "served"
      BY <2>1 DEF SetupInv
    <3>4. /\ houseCall' \in [Submissions -> Stages]
          /\ \A t \in Submissions : houseCall'[t] = IF t = s THEN "rooms" ELSE houseCall[t]
      BY <3>1 DEF SetupInv, Stages
    <3>5. /\ roomCall' \in [Submissions -> [Planned -> RoomStages]]
          /\ \A t \in Submissions, r \in Planned : roomCall'[t][r] = IF t = s THEN "sent" ELSE "none"
      BY <3>1, <3>2 DEF SetupInv, RoomStages
    <3>6. \A t \in Submissions : t > tries' => houseCall'[t] = "none"
      <4>1. \A t \in Submissions : t > tries => t # s
        BY <1>0, <2>1 DEF Submissions
      <4> QED BY <2>1, <3>4, <4>1 DEF SetupInv
    <3>7. \A t \in Submissions : houseCall'[t] # "served"
      BY <3>3, <3>4
    <3>8. \A r \in Planned : made.rooms[r] = 0
      BY <3>2 DEF SetupInv
    <3> QED BY <2>1, <3>2, <3>4, <3>5, <3>6, <3>7, <3>8 DEF SetupInv
  <2> QED BY <2>2, <2>3
<1>4. ASSUME NEW s \in Submissions, HouseFails(s) \/ SetupEnds(s) PROVE SetupInv'
  <2>1. /\ houseCall' = [houseCall EXCEPT ![s] = "ended"] /\ "ended" \in Stages \ {"served"}
        /\ UNCHANGED <<made, roomCall, tries>> /\ houseCall[s] # "none"
    BY <1>4 DEF HouseFails, SetupEnds, Stages
  <2>2. tries' \in 0..MaxTries /\ tries <= tries' /\ s <= tries'
    BY <1>0, <1>a, <2>1
  <2> QED BY <2>1, <2>2, HouseGoesOn
<1>5. ASSUME NEW s \in Submissions, NEW r \in Planned, RoomServed(s, r) PROVE SetupInv'
  <2>1. /\ roomCall[s][r] = "sent" /\ RoomGoes(s, r, "served") /\ UNCHANGED <<houseCall, tries>>
        /\ made' = [made EXCEPT !.rooms = [made.rooms EXCEPT ![r] = made.rooms[r] + 1]]
        /\ "served" \in RoomStages \ {"none", "sent"}
    BY <1>5 DEF RoomServed, RoomStages
  <2> QED BY <2>1, RoomGoesOn
<1>6. ASSUME NEW s \in Submissions, NEW r \in Planned, RoomAnswered(s, r) PROVE SetupInv'
  <2>1. UNCHANGED <<made, houseCall, tries>> /\ roomCall[s][r] # "none"
    BY <1>6 DEF RoomAnswered, RoomCreated, RoomFails
  <2>2. PICK stage \in RoomStages \ {"none", "sent"} : RoomGoes(s, r, stage)
    BY <1>6 DEF RoomAnswered, RoomCreated, RoomFails, RoomStages
  <2> QED BY <2>1, <2>2, RoomGoesOn
<1>7. CASE CloseSetup \/ ReopenSetup \/ HousesRefetched \/ UNCHANGED setupVars
  <2>1. UNCHANGED <<made, houseCall, roomCall, tries>>
    BY <1>7 DEF CloseSetup, ReopenSetup, HousesRefetched, setupVars
  <2> QED BY <2>1 DEF SetupInv
<1> QED BY <1>1, <1>2, <1>3, <1>4, <1>5, <1>6, <1>7 DEF SetupNext, SetupAnswered

(* However often the form of a new house is sent, closed and opened again,    *)
(* and whichever answers of CreateHouse and CreateRoom are lost, the house is *)
(* created once and so is each of its rooms.                                  *)
THEOREM HouseCreatedOnce == Spec => []CreatedOnce
<1>1. Init => SetupInv
  BY PartsInit, SetupInvInit
<1>2. SetupInv /\ [Next]_vars => SetupInv'
  BY PartsStep, SetupInvStep
<1>3. SetupInv => CreatedOnce
  <2>1. SetupInv => made.houses \in 0..1 /\ \A r \in Planned : made.rooms[r] \in 0..1
    BY DEF SetupInv
  <2> QED BY <2>1 DEF CreatedOnce
<1> QED BY <1>1, <1>2, <1>3, PTL DEF Spec

-----------------------------------------------------------------------------
(* The loads of the dashboard.                                                *)

LoadRecords == [of : Inputs, trend : BOOLEAN, rooms : BOOLEAN]

\* The load that owns the view is for the houses it was given last.
LoadInv ==
  /\ loads \in Seq(LoadRecords) /\ given \in Inputs
  /\ owner \in [Views -> Nat] /\ owner["rooms"] <= Len(loads)
  /\ owner["rooms"] \in DOMAIN loads => loads[owner["rooms"]].of = given
  /\ RoomsAreCurrent

LEMMA LoadInvInit == LoadInit => LoadInv
BY DEF LoadInit, LoadInv, Views, Inputs, RoomsAreCurrent

LEMMA LoadInvStep == LoadInv /\ [LoadNext]_loadVars => LoadInv'
<1> SUFFICES ASSUME LoadInv, [LoadNext]_loadVars PROVE LoadInv'
  OBVIOUS
<1>0. "rooms" \in Views /\ Len(loads) \in Nat
  BY DEF Views, LoadInv
<1>1. ASSUME NEW list \in Inputs, HousesGiven(list) PROVE LoadInv'
  <2> DEFINE n == Len(loads) + 1
             new == [of |-> list, trend |-> list \notin {given, NoHouses}, rooms |-> list # NoHouses]
  <2>1. new \in LoadRecords /\ new.of = list
    BY DEF LoadRecords
  <2>2. loads' = Append(loads, new) /\ given' = list /\ owner'["rooms"] = n /\ owner' \in [Views -> Nat]
    BY <1>0, <1>1 DEF HousesGiven, Views, LoadInv
  <2>3. isLoadingData' \/ allRooms' = given'
    BY <1>1 DEF HousesGiven
  <2> HIDE DEF new
  <2>4. loads' \in Seq(LoadRecords) /\ Len(loads') = n /\ loads'[n] = new
    BY <2>1, <2>2 DEF LoadInv
  <2> QED BY <1>0, <2>1, <2>2, <2>3, <2>4 DEF LoadInv, RoomsAreCurrent
<1>2. ASSUME NEW n \in DOMAIN loads, LoadEnds(n) PROVE LoadInv'
  <2>1. loads[n] \in LoadRecords /\ UNCHANGED <<given, owner>>
    BY <1>2 DEF LoadInv, LoadEnds, TrendAnswered, RoomsAnswered
  <2>2. PICK q \in LoadRecords : q.of = loads[n].of /\ loads' = [loads EXCEPT ![n] = q]
    BY <1>2, <2>1 DEF LoadRecords, LoadEnds, TrendAnswered, RoomsAnswered
  <2>3. /\ loads' \in Seq(LoadRecords) /\ DOMAIN loads' = DOMAIN loads /\ Len(loads') = Len(loads)
        /\ \A m \in DOMAIN loads : loads'[m].of = loads[m].of
    BY <2>2 DEF LoadInv
  <2>4. isLoadingData' \/ allRooms' = given'
    BY <1>2, <2>1 DEF LoadInv, RoomsAreCurrent, LoadEnds, TrendAnswered, RoomsAnswered
  <2> QED BY <2>1, <2>3, <2>4 DEF LoadInv, RoomsAreCurrent
<1>3. CASE UNCHANGED loadVars
  BY <1>3 DEF loadVars, LoadInv, RoomsAreCurrent
<1> QED BY <1>1, <1>2, <1>3 DEF LoadNext

(* However many loads of DashboardView overlap and in whatever order they are *)
(* answered, the rooms it counts when it does not say "loading" are those of  *)
(* the houses it was given last.                                              *)
THEOREM DashboardCurrent == Spec => []RoomsAreCurrent
<1>1. Init => LoadInv
  BY PartsInit, LoadInvInit
<1>2. LoadInv /\ [Next]_vars => LoadInv'
  BY PartsStep, LoadInvStep
<1>3. LoadInv => RoomsAreCurrent
  BY DEF LoadInv
<1> QED BY <1>1, <1>2, <1>3, PTL DEF Spec

-----------------------------------------------------------------------------
(* Navigation.                                                                *)

\* While a deletion goes on nothing changes the selection, as the confirmation
\* is in the way and the houses are listed already; so the handler's closure
\* still knows it.  Until an answer is lost, the houses listed exist.
DeletionInv ==
  /\ houseToDelete # NoHouse \/ listed # {} => ~fetching
  /\ deletion # "none" =>
       houseToDelete # NoHouse /\ houseToDelete \notin listed /\ wasSelected = selectedHouse

RowsInv ==
  ~lostDeletion =>
    /\ listed \subseteq houseRows
    /\ deletion \in {"none", "sent"} => houseToDelete \in houseRows \cup {NoHouse}
    /\ selectedHouse \in houseRows \cup {NoHouse} \cup (IF deletion \in {"served", "refetch"} THEN {houseToDelete} ELSE {})

NavInv == NavTypeOK /\ savedHouseId = chosen /\ SelectionFollowsChoice /\ DeletionInv /\ RowsInv

LEMMA NavInvInit == NavInit => NavInv
<1> SUFFICES ASSUME NavInit PROVE NavInv
  OBVIOUS
<1> USE NavigationAssumption DEF NavInit
<1>1. NavTypeOK
  <2>1. fetching \in BOOLEAN /\ dirtyCosts \in BOOLEAN /\ lostDeletion \in BOOLEAN
    OBVIOUS
  <2>2. /\ houseRows \subseteq NavHouses /\ listed \subseteq NavHouses /\ reloads \in 0..MaxReloads
        /\ {selectedHouse, savedHouseId, houseToDelete, wasSelected, chosen} \subseteq MaybeHouse
        /\ {activeTab, savedTab} \subseteq Tabs
    BY DEF MaybeHouse
  <2> QED BY <2>1, <2>2 DEF NavTypeOK
<1>2. savedHouseId = chosen /\ SelectionFollowsChoice
  BY DEF SelectionFollowsChoice
<1>3. DeletionInv
  BY DEF DeletionInv
<1>4. RowsInv
  BY DEF RowsInv
<1> QED BY <1>1, <1>2, <1>3, <1>4 DEF NavInv

\* The selection that the effect leaves is the stored one, or none of the listed.
LEMMA HydrateFollows ==
  ASSUME NavInv, NEW house \in MaybeHouse, NEW stored \in MaybeHouse, NEW rows \in SUBSET NavHouses,
         Hydrate(house, stored, rows), house # NoHouse => house = stored
  PROVE  /\ savedHouseId' = stored /\ selectedHouse' \in {house} \cup (rows \cap {stored})
         /\ selectedHouse' # NoHouse => selectedHouse' = stored
         /\ stored \in rows => selectedHouse' = stored
BY NavigationAssumption DEF Hydrate, MaybeHouse

LEMMA TabType ==
  ASSUME NavInv, \/ \E tab \in Tabs : SetActiveTab(tab)
                 \/ UNCHANGED <<activeTab, savedTab, dirtyCosts>>
  PROVE  {activeTab', savedTab'} \subseteq Tabs /\ dirtyCosts' \in BOOLEAN
BY DEF NavInv, NavTypeOK, SetActiveTab

LEMMA NavInvStep == NavInv /\ [NavNext]_navVars => NavInv'
<1> SUFFICES ASSUME NavInv, [NavNext]_navVars PROVE NavInv'
  OBVIOUS
<1>0. NoHouse \notin NavHouses /\ {"dashboard", "house_rooms", "revenue"} \subseteq Tabs /\ MaxReloads \in Nat
  BY NavigationAssumption
<1> USE DEF NavInv, NavTypeOK, MaybeHouse, SelectionFollowsChoice, DeletionInv, RowsInv
<1>1. ASSUME NEW h \in NavHouses, HouseClick(h) PROVE NavInv'
  <2>1. savedHouseId' = h /\ selectedHouse' = h
    BY <1>0, <1>1 DEF HouseClick, SelectHouse, Hydrate
  <2>2. {activeTab', savedTab'} \subseteq Tabs /\ dirtyCosts' \in BOOLEAN
    BY <1>0, <1>1, TabType DEF HouseClick
  <2>3. h \in listed /\ houseToDelete = NoHouse /\ chosen' = h /\ UNCHANGED stays
    BY <1>1 DEF HouseClick, NotAsking
  <2> QED BY <1>0, <2>1, <2>2, <2>3 DEF stays
<1>2. ASSUME NEW tab \in Tabs, TabClick(tab) PROVE NavInv'
  <2>1. savedHouseId' = NoHouse /\ selectedHouse' = NoHouse
    BY <1>0, <1>2 DEF TabClick, SelectHouse, Hydrate
  <2>2. {activeTab', savedTab'} \subseteq Tabs /\ dirtyCosts' \in BOOLEAN
    BY <1>2, TabType DEF TabClick
  <2>3. houseToDelete = NoHouse /\ chosen' = NoHouse /\ UNCHANGED stays
    BY <1>2 DEF TabClick, NotAsking
  <2> QED BY <1>0, <2>1, <2>2, <2>3 DEF stays
<1>3. ASSUME NEW tab \in Tabs, MobileTab(tab) PROVE NavInv'
  <2>1. {activeTab', savedTab'} \subseteq Tabs /\ dirtyCosts' \in BOOLEAN
    BY <1>3, TabType DEF MobileTab
  <2> QED BY <1>3, <2>1 DEF MobileTab, stays
<1>4. CASE EditCosts \/ EndEdits
  <2>1. dirtyCosts' \in BOOLEAN /\ UNCHANGED <<activeTab, savedTab, selectedHouse, savedHouseId, chosen>> /\ UNCHANGED stays
    BY <1>4 DEF EditCosts, EndEdits
  <2> QED BY <2>1 DEF stays
<1>5. CASE Reload
  <2>1. reloads' \in 0..MaxReloads /\ houseRows' \subseteq NavHouses
    BY <1>0, <1>5 DEF Reload
  <2>2. fetching' \in BOOLEAN /\ dirtyCosts' \in BOOLEAN /\ lostDeletion' \in BOOLEAN
    BY <1>5, Zenon DEF Reload
  <2>3. /\ selectedHouse' = NoHouse /\ activeTab' = savedTab /\ listed' = {} /\ houseToDelete' = NoHouse
        /\ deletion' = "none" /\ wasSelected' = NoHouse /\ UNCHANGED <<savedTab, savedHouseId, chosen, lostDeletion>>
    BY <1>5 DEF Reload
  <2> QED BY <1>0, <2>1, <2>2, <2>3
<1>6. CASE HousesFetched
  <2>1. Hydrate(selectedHouse, savedHouseId, houseRows)
    BY <1>6 DEF HousesFetched
  <2>2. houseToDelete = NoHouse /\ deletion = "none"
    BY <1>6 DEF HousesFetched
  <2>3. /\ savedHouseId' = savedHouseId /\ selectedHouse' \in {selectedHouse} \cup (houseRows \cap {savedHouseId})
        /\ selectedHouse' # NoHouse => selectedHouse' = savedHouseId
        /\ savedHouseId \in houseRows => selectedHouse' = savedHouseId
    BY <2>1, HydrateFollows
  <2> QED BY <1>6, <2>2, <2>3 DEF HousesFetched
<1>7. CASE FetchRefused
  BY <1>7 DEF FetchRefused
<1>8. ASSUME NEW h \in NavHouses, AskHouseDeletion(h) PROVE NavInv'
  BY <1>0, <1>8 DEF AskHouseDeletion, NotAsking
<1>9. CASE CancelDeletion
  BY <1>9 DEF CancelDeletion
<1>10. CASE ConfirmDeletion
  BY <1>10 DEF ConfirmDeletion
<1>11. CASE DeletionServed
  BY <1>11 DEF DeletionServed
<1>12. CASE DeletionAnswered
  BY <1>12 DEF DeletionAnswered
<1>13. CASE DeletionRefused
  <2>1. listed' = listed \cup {houseToDelete} /\ listed' \in SUBSET NavHouses /\ houseToDelete' = NoHouse
    BY <1>13 DEF DeletionRefused
  <2>2. Hydrate(selectedHouse, savedHouseId, listed')
    BY <1>13 DEF DeletionRefused
  <2>3. /\ savedHouseId' = savedHouseId /\ selectedHouse' \in {selectedHouse} \cup (listed' \cap {savedHouseId})
        /\ selectedHouse' # NoHouse => selectedHouse' = savedHouseId
        /\ savedHouseId \in listed' => selectedHouse' = savedHouseId
    BY <2>1, <2>2, HydrateFollows
  <2> QED BY <1>13, <2>1, <2>3 DEF DeletionRefused
<1>14. ASSUME NEW rows \in {listed, houseRows}, NEW sidebar \in BOOLEAN, DeletionEnds(rows, sidebar) PROVE NavInv'
  <2>1. {activeTab', savedTab'} \subseteq Tabs /\ dirtyCosts' \in BOOLEAN
    BY <1>0, <1>14, TabType DEF DeletionEnds
  <2>2. /\ deletion = "refetch" /\ deletion' = "none" /\ houseToDelete' = NoHouse /\ listed' = rows
        /\ UNCHANGED <<houseRows, fetching, wasSelected, lostDeletion, reloads>>
    BY <1>14 DEF DeletionEnds
  <2>3. CASE wasSelected = houseToDelete
    <3>1. savedHouseId' = NoHouse /\ selectedHouse' = NoHouse /\ chosen' = NoHouse
      BY <1>0, <1>14, <2>3 DEF DeletionEnds, SelectHouse, Hydrate
    <3> QED BY <1>0, <2>1, <2>2, <3>1
  <2>4. CASE wasSelected # houseToDelete
    <3>1. Hydrate(selectedHouse, savedHouseId, rows) /\ chosen' = chosen
      BY <1>14, <2>4 DEF DeletionEnds
    <3>2. /\ savedHouseId' = savedHouseId /\ selectedHouse' \in {selectedHouse} \cup (rows \cap {savedHouseId})
          /\ selectedHouse' # NoHouse => selectedHouse' = savedHouseId
          /\ savedHouseId \in rows => selectedHouse' = savedHouseId
      BY <3>1, HydrateFollows
    <3> QED BY <2>1, <2>2, <2>4, <3>1, <3>2
  <2> QED BY <2>3, <2>4
<1>15. CASE UNCHANGED navVars
  BY <1>15 DEF navVars
<1> QED BY <1>1, <1>2, <1>3, <1>4, <1>5, <1>6, <1>7, <1>8, <1>9, <1>10, <1>11, <1>12, <1>13, <1>14, <1>15 DEF NavNext

(* After any reloads, clicks and deletions, the house on screen is the one    *)
(* the user chose last and has not left, and while no answer to a deletion    *)
(* was lost it exists: no effect of Sidebar or Home brings back what was left.*)
THEOREM SelectionFollows == Spec => []SelectionHolds
<1>1. Init => NavInv
  BY PartsInit, NavInvInit
<1>2. NavInv /\ [Next]_vars => NavInv'
  BY PartsStep, NavInvStep
<1>3. NavInv => SelectionHolds
  BY DEF NavInv, RowsInv, SelectionHolds, SelectedExists
<1> QED BY <1>1, <1>2, <1>3, PTL DEF Spec

-----------------------------------------------------------------------------
(* The encoder's quality and what it returns.                                 *)

EncodingTypes ==
  /\ options \in [start : Percent, floor : Percent] /\ options.floor <= options.start
  /\ tried \in Seq([quality : Int, size : Nat]) /\ Len(tried) >= 1
  /\ output \in Nat /\ source \in Nat /\ handed \in Nat

EncodingInv == EncodingTypes /\ FirstFitOrFloor

LEMMA EncodingInvInit == EncodingInit \/ EncodingIdle => EncodingInv
<1>1. EncodingInit => EncodingTypes
  BY EncodingAssumption DEF EncodingInit, EncodingTypes, Percent
<1>2. EncodingInit => FirstFitOrFloor
  BY EncodingAssumption DEF EncodingInit, FirstFitOrFloor, StepsTried, Percent
<1>3. EncodingIdle => EncodingTypes
  BY DEF EncodingIdle, EncodingTypes, Percent
<1>4. EncodingIdle => FirstFitOrFloor
  BY DEF EncodingIdle, FirstFitOrFloor, StepsTried
<1> QED BY <1>1, <1>2, <1>3, <1>4 DEF EncodingInv

LEMMA EncodingRange ==
  ASSUME EncodingInv
  PROVE  options.floor \in Nat /\ options.start \in Nat /\ quality \in options.floor..options.start
<1>1. options.floor \in Percent /\ options.start \in Percent
  BY DEF EncodingInv, EncodingTypes
<1>2. quality \in options.floor..options.start
  BY DEF EncodingInv, FirstFitOrFloor
<1> QED BY <1>1, <1>2 DEF Percent

\* An encoding at the next quality extends the steps tried.
LEMMA NextIsTried == EncodingInv /\ EncodeAgain => EncodingInv'
<1> SUFFICES ASSUME EncodingInv, EncodeAgain PROVE EncodingInv'
  OBVIOUS
<1>1. /\ UNCHANGED <<options, source, state, handed>> /\ state = "encode"
      /\ output > Target /\ quality > options.floor
      /\ quality' = NextQuality /\ output' \in Nat
      /\ tried' = Append(tried, [quality |-> quality', size |-> output'])
  BY EncodingAssumption DEF EncodeAgain, TooLarge
<1>2. options.floor \in Nat /\ options.start \in Nat /\ quality \in options.floor..options.start
  BY EncodingRange
<1>3. quality' \in options.floor..options.start /\ quality - quality' \in 1..QualityStep
  <2>1. PICK floor \in Nat, start \in Nat, at \in Int : floor = options.floor /\ start = options.start /\ at = quality
    BY <1>2
  <2>2. at \in floor..start /\ at > floor
    BY <1>1, <1>2, <2>1
  <2>3. quality' = IF at - 10 < floor THEN floor ELSE at - 10
    BY <1>1, <2>1 DEF NextQuality, QualityStep
  <2>4. quality' \in floor..start /\ at - quality' \in 1..10
    BY <2>2, <2>3
  <2> QED BY <2>1, <2>4 DEF QualityStep
<1>4. tried \in Seq([quality : Int, size : Nat]) /\ Len(tried) \in Nat /\ Len(tried) >= 1
  BY DEF EncodingInv, EncodingTypes
<1>5. [quality |-> quality', size |-> output'] \in [quality : Int, size : Nat]
  BY <1>1, <1>2, <1>3
<1>6. /\ Len(tried') = Len(tried) + 1 /\ tried' \in Seq([quality : Int, size : Nat])
      /\ tried'[Len(tried')] = [quality |-> quality', size |-> output']
      /\ \A n \in 1..Len(tried) : tried'[n] = tried[n]
  BY <1>1, <1>4, <1>5
<1>7. EncodingTypes'
  BY <1>1, <1>4, <1>6 DEF EncodingInv, EncodingTypes
<1>8. tried[Len(tried)].quality = quality /\ tried[Len(tried)].size = output
  BY DEF EncodingInv, FirstFitOrFloor, StepsTried
<1>9. ASSUME NEW n \in 1..(Len(tried') - 1)
      PROVE  tried'[n].size > Target /\ tried'[n].quality - tried'[n + 1].quality \in 1..QualityStep
  <2>1. CASE n = Len(tried)
    BY <1>1, <1>3, <1>4, <1>6, <1>8, <2>1
  <2>2. CASE n # Len(tried)
    <3>1. n \in 1..(Len(tried) - 1) /\ n \in 1..Len(tried) /\ n + 1 \in 1..Len(tried)
      <4>1. PICK k \in Nat : k = Len(tried)
        BY <1>4
      <4>2. n \in 1..((k + 1) - 1) /\ n # k
        BY <1>6, <1>9, <2>2, <4>1
      <4>3. n \in 1..(k - 1) /\ n \in 1..k /\ n + 1 \in 1..k
        BY <4>2
      <4> QED BY <4>1, <4>3
    <3>2. tried'[n] = tried[n] /\ tried'[n + 1] = tried[n + 1]
      BY <1>6, <3>1
    <3> QED BY <3>1, <3>2 DEF EncodingInv, FirstFitOrFloor, StepsTried
  <2> QED BY <2>1, <2>2
<1>10. tried'[1].quality = options.start
  BY <1>4, <1>6 DEF EncodingInv, FirstFitOrFloor, StepsTried
<1>11. StepsTried'
  BY <1>1, <1>6, <1>9, <1>10 DEF StepsTried, QualityStep
<1>12. FirstFitOrFloor'
  BY <1>1, <1>3, <1>11 DEF EncodingInv, FirstFitOrFloor
<1> QED BY <1>7, <1>12 DEF EncodingInv

LEMMA EncodingInvStep == EncodingInv /\ [EncodingNext]_encodingVars => EncodingInv'
<1> SUFFICES ASSUME EncodingInv, [EncodingNext]_encodingVars PROVE EncodingInv'
  OBVIOUS
<1>1. CASE EncodeAgain
  BY <1>1, NextIsTried
<1>2. CASE ReturnEncoded
  <2>1. options.floor \in Nat /\ options.start \in Nat /\ quality \in options.floor..options.start /\ output \in Nat
    BY EncodingRange DEF EncodingInv, EncodingTypes
  <2>2. output <= Target \/ quality = options.floor
    BY <1>2, <2>1, EncodingAssumption DEF ReturnEncoded, TooLarge
  <2>3. UNCHANGED <<options, source, quality, output, tried, handed>>
    BY <1>2 DEF ReturnEncoded
  <2>4. EncodingTypes' /\ StepsTried'
    BY <2>3 DEF EncodingInv, EncodingTypes, FirstFitOrFloor, StepsTried
  <2> QED BY <2>2, <2>3, <2>4 DEF EncodingInv, FirstFitOrFloor
<1>3. CASE HandOn
  <2>1. UNCHANGED <<options, source, quality, output, tried>> /\ state = "returned"
    BY <1>3 DEF HandOn
  <2>2. output \in Nat /\ source \in Nat
    BY DEF EncodingInv, EncodingTypes
  <2>3. handed' \in Nat /\ handed' <= source
    <3>1. CASE HandUpload
      BY <2>2, <3>1 DEF HandUpload
    <3>2. CASE HandOptimized
      BY <2>2, <3>2 DEF HandOptimized
    <3> QED BY <1>3, <3>1, <3>2 DEF HandOn
  <2>4. EncodingTypes' /\ StepsTried'
    BY <2>1, <2>3 DEF EncodingInv, EncodingTypes, FirstFitOrFloor, StepsTried
  <2>5. output <= Target \/ quality = options.floor
    BY <2>1 DEF EncodingInv, FirstFitOrFloor
  <2> QED BY <2>1, <2>3, <2>4, <2>5 DEF EncodingInv, FirstFitOrFloor
<1>4. CASE UNCHANGED encodingVars
  BY <1>4 DEF encodingVars, EncodingInv, EncodingTypes, FirstFitOrFloor, StepsTried
<1> QED BY <1>1, <1>2, <1>3, <1>4 DEF EncodingNext

(* Whatever sizes the encoder gives, compressImageBlob never encodes below    *)
(* the floor, tries every step from the start on its way down, and returns    *)
(* the first encoding that fits the target, or the one at the floor when none *)
(* fitted; and its callers hand on nothing larger than the file chosen.       *)
THEOREM FirstFitIsReturned == Spec => []FirstFitOrFloor
<1>1. Init => EncodingInv
  BY PartsInit, EncodingInvInit
<1>2. EncodingInv /\ [Next]_vars => EncodingInv'
  BY PartsStep, EncodingInvStep
<1>3. EncodingInv => FirstFitOrFloor
  BY DEF EncodingInv
<1> QED BY <1>1, <1>2, <1>3, PTL DEF Spec

-----------------------------------------------------------------------------
(* The price sheet.                                                           *)

SheetPrices == Prices \cup {NotThere}
BatchRows ==
  [stage : {"idle", "sent", "served", "saved", "failed"}, kind : {"save", "add", "drop"},
   price : SheetPrices, before : SheetPrices, all : RoomPrices]

SheetTypes ==
  /\ roomRows \in RoomPrices /\ roomList \in RoomPrices /\ typedRows \in RoomPrices /\ asked \in RoomPrices
  /\ batch \in [SheetRooms -> BatchRows]

\* A row that awaits its answer is shown as it will be, and knows what it was.
RowAgrees(r) ==
  CASE batch[r].stage = "sent" -> roomRows[r] = batch[r].before /\ roomList[r] = batch[r].price
    [] batch[r].stage = "served" -> roomRows[r] = batch[r].price /\ roomList[r] = batch[r].price
    [] OTHER -> roomRows[r] = roomList[r]

\* What the rows of the save under way carry is what was asked for.
RowAsked(r) ==
  /\ batch[r].stage \in {"sent", "served"} => batch[r].price = asked[r]
  /\ batch[r].stage = "saved" /\ ~lostRow => roomRows[r] = asked[r]

SheetInv ==
  /\ SheetTypes
  /\ ~lostRow => \A r \in SheetRooms : RowAgrees(r)
  /\ \A r \in SheetRooms : RowAsked(r)
  /\ ~savingRooms => \A r \in SheetRooms : batch[r].stage = "idle"
  /\ closedItself => sheet = "closed" /\ ~savingRooms /\ (~lostRow => roomRows = asked)

LEMMA IdleRowType == IdleRow \in BatchRows /\ IdleRow.stage = "idle"
BY SheetAssumption DEF IdleRow, BatchRows, RoomPrices, SheetPrices

LEMMA SheetInvInit == SheetInit => SheetInv
BY IdleRowType DEF SheetInit, SheetInv, SheetTypes, RowAgrees, RowAsked

\* A row of the batch goes on: what the steps of one row have in common.
LEMMA RowStep ==
  ASSUME SheetInv, NEW r \in SheetRooms, NEW stage \in {"served", "saved", "failed"},
         batch[r].stage \in {"sent", "served"},
         batch' = [batch EXCEPT ![r].stage = stage]
  PROVE  /\ batch' \in [SheetRooms -> BatchRows] /\ savingRooms
         /\ batch'[r].stage = stage /\ batch'[r].price = batch[r].price /\ batch'[r].before = batch[r].before
         /\ \A o \in SheetRooms \ {r} : batch'[o] = batch[o]
<1>1. batch[r] \in BatchRows
  BY DEF SheetInv, SheetTypes
<1>2. PICK row \in BatchRows : /\ row.stage = stage /\ row.price = batch[r].price /\ row.before = batch[r].before
                               /\ batch' = [batch EXCEPT ![r] = row]
  BY <1>1 DEF BatchRows
<1> QED BY <1>2 DEF SheetInv, SheetTypes

LEMMA SheetInvStep == SheetInv /\ [SheetNext]_sheetVars => SheetInv'
<1> SUFFICES ASSUME SheetInv, [SheetNext]_sheetVars PROVE SheetInv'
  OBVIOUS
<1>1. ASSUME NEW r \in SheetRooms, ServeRow(r) PROVE SheetInv'
  <2>1. /\ batch[r].stage = "sent" /\ batch' = [batch EXCEPT ![r].stage = "served"]
        /\ roomRows' = [roomRows EXCEPT ![r] = batch[r].price]
        /\ UNCHANGED <<roomList, typedRows, sheetDirty, sheet, savingRooms, asked, closedItself, lostRow, sent>>
    BY <1>1 DEF ServeRow
  <2>2. batch[r].price \in SheetPrices
    BY DEF SheetInv, SheetTypes, BatchRows
  <2> QED BY <2>1, <2>2, RowStep, ZenonT(30) DEF SheetInv, SheetTypes, RowAgrees, RowAsked, RoomPrices, SheetPrices
<1>2. ASSUME NEW r \in SheetRooms, RowUpdated(r) PROVE SheetInv'
  <2>1. /\ batch[r].stage = "served" /\ batch' = [batch EXCEPT ![r].stage = "saved"]
        /\ roomList' = [roomList EXCEPT ![r] = batch[r].price] /\ typedRows' \in {typedRows, roomList'}
        /\ UNCHANGED <<roomRows, sheetDirty, sheet, savingRooms, asked, closedItself, lostRow, sent>>
    BY <1>2 DEF RowUpdated
  <2>2. batch[r].price \in SheetPrices
    BY DEF SheetInv, SheetTypes, BatchRows
  <2>3. /\ batch' \in [SheetRooms -> BatchRows] /\ savingRooms /\ ~closedItself
        /\ batch'[r].stage = "saved" /\ batch'[r].price = batch[r].price
        /\ \A o \in SheetRooms \ {r} : batch'[o] = batch[o]
    BY <2>1, RowStep DEF SheetInv
  <2>4. SheetTypes'
    BY <2>1, <2>2, <2>3 DEF SheetInv, SheetTypes, RoomPrices, SheetPrices
  <2>5. /\ roomList'[r] = batch[r].price
        /\ \A o \in SheetRooms \ {r} : roomList'[o] = roomList[o]
    BY <2>1 DEF SheetInv, SheetTypes, RoomPrices, SheetPrices
  <2>6. ASSUME NEW o \in SheetRooms PROVE (~lostRow => RowAgrees(o)') /\ RowAsked(o)'
    BY <2>1, <2>3, <2>5 DEF SheetInv, RowAgrees, RowAsked
  <2> QED BY <2>1, <2>3, <2>4, <2>6 DEF SheetInv
<1>3. ASSUME NEW r \in SheetRooms, RowRefused(r) PROVE SheetInv'
  <2>1. /\ batch[r].stage \in {"sent", "served"} /\ batch' = [batch EXCEPT ![r].stage = "failed"]
        /\ roomList' = [roomList EXCEPT ![r] = batch[r].before] /\ typedRows' = roomList'
        /\ UNCHANGED <<roomRows, sheetDirty, sheet, savingRooms, asked, closedItself, sent>>
    BY <1>3 DEF RowRefused, Refill
  <2>2. batch[r].before \in SheetPrices
    BY DEF SheetInv, SheetTypes, BatchRows
  <2>3. lostRow' <=> (lostRow \/ batch[r].stage = "served")
    BY <1>3 DEF RowRefused
  <2>4. /\ batch' \in [SheetRooms -> BatchRows] /\ savingRooms /\ ~closedItself
        /\ batch'[r].stage = "failed" /\ \A o \in SheetRooms \ {r} : batch'[o] = batch[o]
    BY <2>1, RowStep DEF SheetInv
  <2>5. SheetTypes'
    BY <2>1, <2>2, <2>4 DEF SheetInv, SheetTypes, RoomPrices, SheetPrices
  <2>6. /\ roomList'[r] = batch[r].before
        /\ \A o \in SheetRooms \ {r} : roomList'[o] = roomList[o]
    BY <2>1 DEF SheetInv, SheetTypes, RoomPrices, SheetPrices
  <2>7. ASSUME NEW o \in SheetRooms PROVE (~lostRow' => RowAgrees(o)') /\ RowAsked(o)'
    BY <2>1, <2>3, <2>4, <2>6 DEF SheetInv, RowAgrees, RowAsked
  <2> QED BY <2>1, <2>4, <2>5, <2>7 DEF SheetInv
<1>4. ASSUME NEW r \in SheetRooms, NEW p \in Prices, TypeRow(r, p) PROVE SheetInv'
  BY <1>4 DEF TypeRow, SheetInv, SheetTypes, RowAgrees, RowAsked, RoomPrices, SheetPrices
<1>5. CASE SaveRows
  <2> DEFINE changed == {r \in SheetRooms : typedRows[r] # roomList[r]}
             row(r) == IF r \in changed
                       THEN [IdleRow EXCEPT !.stage = "sent", !.price = typedRows[r], !.before = roomList[r],
                                            !.all = roomList]
                       ELSE [IdleRow EXCEPT !.stage = "saved"]
  <2>1. /\ sheet = "open" /\ ~savingRooms /\ savingRooms' /\ asked' = typedRows /\ roomList' = typedRows
        /\ batch' = [r \in SheetRooms |-> row(r)]
        /\ UNCHANGED <<roomRows, typedRows, sheetDirty, sheet, closedItself, lostRow>>
    BY <1>5 DEF SaveRows
  <2>2. ASSUME NEW r \in SheetRooms
        PROVE  /\ row(r) \in BatchRows
               /\ r \in changed => row(r).stage = "sent" /\ row(r).price = typedRows[r] /\ row(r).before = roomList[r]
               /\ r \notin changed => row(r).stage = "saved" /\ typedRows[r] = roomList[r]
    <3>1. typedRows[r] \in SheetPrices /\ roomList[r] \in SheetPrices /\ roomList \in RoomPrices
      BY DEF SheetInv, SheetTypes, RoomPrices, SheetPrices
    <3> QED BY <3>1, IdleRowType DEF BatchRows
  <2>3. ~closedItself
    BY <2>1 DEF SheetInv
  <2>4. ASSUME NEW r \in SheetRooms, ~lostRow PROVE roomRows[r] = roomList[r]
    BY <2>1, <2>4 DEF SheetInv, RowAgrees
  <2> HIDE DEF row
  <2>5. SheetTypes'
    BY <2>1, <2>2 DEF SheetInv, SheetTypes
  <2>6. ASSUME NEW r \in SheetRooms
        PROVE  (~lostRow => RowAgrees(r)') /\ RowAsked(r)'
    <3>1. batch'[r] = row(r)
      BY <2>1
    <3> QED BY <2>1, <2>2, <2>4, <3>1 DEF RowAgrees, RowAsked
  <2> QED BY <2>1, <2>3, <2>5, <2>6 DEF SheetInv
<1>6. CASE SaveEnds
  <2>1. /\ savingRooms /\ \A r \in SheetRooms : batch[r].stage \in {"saved", "failed"}
        /\ batch' = [r \in SheetRooms |-> IdleRow]
        /\ UNCHANGED <<roomRows, roomList, typedRows, sheetDirty, asked, lostRow, sent>>
    BY <1>6 DEF SaveEnds, Settled
  <2>2. ~savingRooms' /\ ~closedItself
    BY <1>6, <2>1 DEF SaveEnds, Closing, SheetInv
  <2>3. closedItself' => sheet' = "closed" /\ \A r \in SheetRooms : batch[r].stage = "saved"
    BY <1>6, <2>1, <2>2 DEF SaveEnds, Closing
  <2>4. closedItself' /\ ~lostRow => roomRows = asked
    BY <2>3 DEF SheetInv, SheetTypes, RowAsked, RoomPrices, SheetPrices
  <2>5. SheetTypes' /\ \A r \in SheetRooms : (~lostRow => RowAgrees(r)') /\ RowAsked(r)'
    BY <2>1, IdleRowType DEF SheetInv, SheetTypes, RowAgrees, RowAsked
  <2> QED BY <2>1, <2>2, <2>3, <2>4, <2>5, IdleRowType DEF SheetInv
<1>9. ASSUME NEW kind \in {"add", "drop"}, NEW r \in SheetRooms, NEW p \in SheetPrices, BeginOne(kind, r, p)
      PROVE  SheetInv'
  <2> DEFINE row(b) == IF b = r THEN [IdleRow EXCEPT !.stage = "sent", !.kind = kind, !.price = p,
                                                     !.before = roomList[r], !.all = roomList]
                       ELSE IdleRow
  <2>1. /\ sheet = "open" /\ ~savingRooms /\ savingRooms' /\ roomList' = [roomList EXCEPT ![r] = p]
        /\ typedRows' = roomList' /\ asked' = roomList' /\ batch' = [b \in SheetRooms |-> row(b)]
        /\ UNCHANGED <<roomRows, sheetDirty, sheet, closedItself, lostRow>>
    BY <1>9 DEF BeginOne, Refill
  <2>2. roomList[r] \in SheetPrices /\ roomList \in RoomPrices
    BY DEF SheetInv, SheetTypes, RoomPrices, SheetPrices
  <2>3. ASSUME NEW b \in SheetRooms
        PROVE  /\ row(b) \in BatchRows
               /\ b = r => row(b).stage = "sent" /\ row(b).price = p /\ row(b).before = roomList[r]
               /\ b # r => row(b).stage = "idle"
    BY <2>2, IdleRowType DEF BatchRows
  <2>4. ~closedItself
    BY <2>1 DEF SheetInv
  <2>5. ASSUME NEW b \in SheetRooms, ~lostRow PROVE roomRows[b] = roomList[b]
    BY <2>1, <2>5 DEF SheetInv, RowAgrees
  <2> HIDE DEF row
  <2>6. roomList' \in RoomPrices /\ roomList'[r] = p /\ \A b \in SheetRooms \ {r} : roomList'[b] = roomList[b]
    BY <2>1, <2>2 DEF RoomPrices, SheetPrices
  <2>7. SheetTypes'
    BY <2>1, <2>3, <2>6 DEF SheetInv, SheetTypes
  <2>8. ASSUME NEW b \in SheetRooms PROVE (~lostRow => RowAgrees(b)') /\ RowAsked(b)'
    <3>1. batch'[b] = row(b)
      BY <2>1
    <3> QED BY <2>1, <2>3, <2>5, <2>6, <3>1 DEF RowAgrees, RowAsked
  <2> QED BY <2>1, <2>4, <2>7, <2>8 DEF SheetInv
<1>10. ASSUME NEW r \in SheetRooms, DeleteRoom(r) \/ \E original \in SheetRooms : DuplicateRoom(original, r)
       PROVE  SheetInv'
  BY <1>9, <1>10 DEF DeleteRoom, DuplicateRoom, SheetInv, SheetTypes, RoomPrices, SheetPrices
<1>7. CASE LeaveSheet \/ \E stay \in BOOLEAN : AnswerLeave(stay)
  BY <1>7 DEF LeaveSheet, AnswerLeave, SheetInv, SheetTypes, RowAgrees, RowAsked
<1>8. CASE UNCHANGED sheetVars
  BY <1>8 DEF sheetVars, SheetInv, SheetTypes, RowAgrees, RowAsked
<1> QED BY <1>1, <1>2, <1>3, <1>4, <1>5, <1>6, <1>7, <1>8, <1>10 DEF SheetNext

(* The sheet of QuickSetRoomPriceModal closes by itself only on what the      *)
(* server has stored, and at rest shows the server's rooms, whichever of the  *)
(* parallel updates are refused, for any rooms and prices.                    *)
THEOREM SheetIsTrue == Spec => []SheetHolds
<1>1. Init => SheetInv
  BY PartsInit, SheetInvInit
<1>2. SheetInv /\ [Next]_vars => SheetInv'
  BY PartsStep, SheetInvStep
<1>3. SheetInv => SheetHolds
  BY DEF SheetInv, SheetTypes, RowAgrees, SheetHolds, ClosesWhenStored, RoomsMatchServer, RoomPrices
<1> QED BY <1>1, <1>2, <1>3, PTL DEF Spec

-----------------------------------------------------------------------------
(* The cards of the settings.                                                 *)

StatusRecords == [stage : {"none", "sent", "read"}, version : Versions]
Asking(a) == statusCalls[a].stage # "none"
Calm == ~overlapped /\ ~unheard

CardTypes ==
  /\ config \in Versions /\ orders \in Versions /\ statusCalls \in [Askers -> StatusRecords]
  /\ Asking("save") <=> submitting = "status"
  /\ Asking("delete") <=> deleting = "status"

\* One thing at a time, and what was read is still so; only after the server has
\* changed the account, and until the status is known again, may the card be wrong.
OneAtATime ==
  /\ submitting = "no" \/ deleting = "no"
  /\ Asking("mount") => submitting = "no" /\ deleting = "no"
  /\ \A a \in Askers : statusCalls[a].stage = "read" => statusCalls[a].version = config
  /\ \/ status = config \/ Asking("mount")
     \/ submitting \in {"served", "status"} \/ deleting \in {"served", "status"}

CardInv == CardTypes /\ (Calm => OneAtATime)

LEMMA AskersAre == Askers = {"mount", "save", "delete"}
BY DEF Askers

LEMMA CardInvInit == CardInit \/ CardUnmounted => CardInv
<1>1. CardInit => CardInv
  BY CardAssumption
  DEF CardInit, CardAtRest, CardInv, CardTypes, OneAtATime, Asking, Askers, StatusAsked, Unasked, StatusRecords, Versions
<1>2. CardUnmounted => CardInv
  BY CardAssumption
  DEF CardUnmounted, CardAtRest, CardInv, CardTypes, OneAtATime, Asking, Askers, Unasked, StatusRecords, Versions
<1> QED BY <1>1, <1>2

\* A save or a deletion that starts while nothing is under way leaves the card calm.
LEMMA CardOrderCalm ==
  ASSUME CardInv, CardOrder, UNCHANGED unheard, ~overlapped' /\ ~unheard'
  PROVE  Calm /\ ~CardBusy /\ status = config
<1>1. Calm /\ ~CardBusy
  BY DEF CardOrder, Calm
<1>2. submitting = "no" /\ deleting = "no" /\ ~Asking("mount")
  BY <1>1 DEF CardBusy, Asking, Askers
<1> QED BY <1>1, <1>2 DEF CardInv, OneAtATime

LEMMA CardInvStep == CardInv /\ [CardNext]_cardVars => CardInv'
<1> SUFFICES ASSUME CardInv, [CardNext]_cardVars PROVE CardInv'
  OBVIOUS
<1>0. orders \in Nat /\ 0 \in Versions /\ MaxSaves \in Nat
  BY CardAssumption DEF CardInv, CardTypes, Versions
<1>1. CASE StartSave
  <2>1. /\ submitting = "no" /\ submitting' = "key" /\ orders' \in Versions
        /\ UNCHANGED <<config, status, deleting, statusCalls, unheard>>
    BY <1>0, <1>1 DEF StartSave, CardOrder, Versions
  <2>2. Calm' => Calm /\ ~CardBusy /\ status = config
    BY <1>1, <2>1, CardOrderCalm DEF StartSave, Calm
  <2> QED BY <2>1, <2>2 DEF CardInv, CardTypes, OneAtATime, Asking, CardBusy, Askers
<1>2. CASE SaveGoesOn
  BY <1>2 DEF SaveGoesOn, CardInv, CardTypes, OneAtATime, Asking, Calm, Askers
<1>3. CASE SaveAnswered
  <2>1. /\ submitting = "served" /\ submitting' = "status" /\ statusCalls' = [statusCalls EXCEPT !["save"] = StatusAsked]
        /\ UNCHANGED <<config, status, deleting, orders, overlapped, unheard>>
    BY <1>3 DEF SaveAnswered
  <2>2. StatusAsked \in StatusRecords /\ StatusAsked.stage = "sent"
    BY <1>0 DEF StatusAsked, StatusRecords
  <2> QED BY <2>1, <2>2 DEF CardInv, CardTypes, OneAtATime, Asking, Calm, Askers
<1>4. CASE SaveFails
  <2>1. /\ submitting \in {"key", "sent", "served"} /\ submitting' = "no"
        /\ UNCHANGED <<config, status, deleting, statusCalls, orders, overlapped>>
    BY <1>4 DEF SaveFails
  <2>2. unheard' <=> (unheard \/ submitting = "served")
    BY <1>4 DEF SaveFails
  <2> QED BY <2>1, <2>2 DEF CardInv, CardTypes, OneAtATime, Asking, Calm, Askers
<1>5. CASE EditCard \/ CancelEditing \/ ToggleConfirmation
  BY <1>5 DEF EditCard, CancelEditing, ToggleConfirmation, CardInv, CardTypes, OneAtATime, Asking, Calm
<1>6. CASE StartDeletion
  <2>1. /\ deleting = "no" /\ deleting' = "sent" /\ orders' \in Versions
        /\ UNCHANGED <<config, status, submitting, statusCalls, unheard>>
    BY <1>0, <1>6 DEF StartDeletion, CardOrder, Versions
  <2>2. Calm' => Calm /\ ~CardBusy /\ status = config
    BY <1>6, <2>1, CardOrderCalm DEF StartDeletion, Calm
  <2> QED BY <2>1, <2>2 DEF CardInv, CardTypes, OneAtATime, Asking, CardBusy, Askers
<1>7. CASE DeletionGoesOn
  BY <1>0, <1>7 DEF DeletionGoesOn, CardInv, CardTypes, OneAtATime, Asking, Calm, Askers
<1>8. CASE CardDeleted
  <2>1. /\ deleting = "served" /\ deleting' = "status" /\ statusCalls' = [statusCalls EXCEPT !["delete"] = StatusAsked]
        /\ UNCHANGED <<config, status, submitting, orders, overlapped, unheard>>
    BY <1>8 DEF CardDeleted
  <2>2. StatusAsked \in StatusRecords /\ StatusAsked.stage = "sent"
    BY <1>0 DEF StatusAsked, StatusRecords
  <2> QED BY <2>1, <2>2 DEF CardInv, CardTypes, OneAtATime, Asking, Calm, Askers
<1>9. CASE CardNotDeleted
  <2>1. /\ deleting \in {"sent", "served"} /\ deleting' = "no"
        /\ UNCHANGED <<config, status, submitting, statusCalls, orders, overlapped>>
    BY <1>9 DEF CardNotDeleted
  <2>2. unheard' <=> (unheard \/ deleting = "served")
    BY <1>9 DEF CardNotDeleted
  <2> QED BY <2>1, <2>2 DEF CardInv, CardTypes, OneAtATime, Asking, Calm, Askers
<1>10. ASSUME NEW a \in Askers, StatusRead(a) PROVE CardInv'
  <2>1. /\ statusCalls[a].stage = "sent"
        /\ statusCalls' = [statusCalls EXCEPT ![a] = [stage |-> "read", version |-> config]]
        /\ UNCHANGED <<config, status, submitting, deleting, orders, overlapped, unheard>>
    BY <1>10 DEF StatusRead
  <2>2. [stage |-> "read", version |-> config] \in StatusRecords
    BY DEF CardInv, CardTypes, StatusRecords
  <2> QED BY <2>1, <2>2, AskersAre DEF CardInv, CardTypes, OneAtATime, Asking, Calm
<1>11. ASSUME NEW a \in Askers, StatusGiven(a) \/ StatusFails(a) PROVE CardInv'
  <2>1. /\ Asking(a) /\ statusCalls' = [statusCalls EXCEPT ![a] = Unasked]
        /\ submitting' = (IF a = "save" THEN "no" ELSE submitting)
        /\ deleting' = (IF a = "delete" THEN "no" ELSE deleting)
        /\ UNCHANGED <<config, orders, overlapped>>
    BY <1>11 DEF StatusGiven, StatusFails, StatusEnds, Asking
  <2>2. Unasked \in StatusRecords /\ Unasked.stage = "none"
    BY <1>0 DEF Unasked, StatusRecords
  <2>3. /\ statusCalls' \in [Askers -> StatusRecords] /\ statusCalls'[a].stage = "none"
        /\ \A b \in Askers \ {a} : statusCalls'[b] = statusCalls[b]
    BY <2>1, <2>2 DEF CardInv, CardTypes
  <2>4. CardTypes'
    BY <2>1, <2>3, AskersAre DEF CardInv, CardTypes, Asking
  <2>5. ASSUME Calm' PROVE OneAtATime'
    <3>1. Calm /\ statusCalls[a].stage = "read" /\ status' = statusCalls[a].version
      BY <1>11, <2>1, <2>5 DEF StatusGiven, StatusFails, Calm
    <3>2. status' = config'
      BY <2>1, <3>1 DEF CardInv, OneAtATime
    <3> QED BY <2>1, <2>3, <3>1, <3>2, AskersAre DEF CardInv, OneAtATime, Asking
  <2> QED BY <2>4, <2>5 DEF CardInv
<1>12. CASE UNCHANGED cardVars
  BY <1>12 DEF cardVars, CardInv, CardTypes, OneAtATime, Asking, Calm
<1> QED BY <1>1, <1>2, <1>3, <1>4, <1>5, <1>6, <1>7, <1>8, <1>9, <1>10, <1>11, <1>12
        DEF CardNext, HandleCardSave, HandleCardDelete, RefreshStatus

(* A settings card at rest shows the account the server has, for any number   *)
(* of saves and deletions that each awaited what was under way, as long as    *)
(* no status request failed and no answer to a change was lost.               *)
THEOREM CardIsServer == Spec => []StatusIsServer
<1>1. Init => CardInv
  BY PartsInit, CardInvInit
<1>2. CardInv /\ [Next]_vars => CardInv'
  BY PartsStep, CardInvStep
<1>3. CardInv => StatusIsServer
  BY DEF CardInv, OneAtATime, StatusIsServer, CardBusy, Asking, Calm, Askers
<1> QED BY <1>1, <1>2, <1>3, PTL DEF Spec

-----------------------------------------------------------------------------
(* The look of the pages, and the profile.                                    *)

\* The writes so far are numbered 1, 2, ... in the order the server made them, and
\* the last of them answers with the row as it is.
Written == {n \in DOMAIN updates : updates[n].write > 0}

WritesInv ==
  /\ \A n \in DOMAIN updates : (updates[n].stage = "sent" => n \notin Written)
                            /\ (updates[n].stage = "served" => n \in Written)
  /\ \A m, n \in Written : updates[m].write = updates[n].write => m = n
  /\ \A n \in Written : updates[n].write <= Writes
  /\ Writes = 0 => user = userRow
  /\ Writes > 0 => \E n \in Written : updates[n].write = Writes /\ updates[n].reply = userRow
  /\ newest <= Writes

\* While answers come in the order of the writes, the page's user is the row that
\* the newest answered write has made, and none but lost answers are skipped.
AnswersInv ==
  /\ ~outOfOrder /\ newest > 0 =>
       \E n \in Written : updates[n].stage = "done" /\ updates[n].write = newest /\ user = updates[n].reply
  /\ ~lostUpdate => \A n \in Written : updates[n].stage = "done" => updates[n].write <= newest

\* The answers still to come that are not older than one that has come.
AnswersComing == {m \in DOMAIN updates : updates[m].stage = "served" /\ updates[m].write > newest}

FieldAtRest(f) ==
  /\ user[f] = userRow[f] /\ applied[f] = user[f]
  /\ \A m \in AnswersComing : updates[m].reply[f] = userRow[f]
FieldSent(f, n) ==
  /\ user[f] = userRow[f] /\ updates[n].previous = user[f] /\ applied[f] = updates[n].value
  /\ \A m \in AnswersComing : updates[m].reply[f] = userRow[f]
FieldServed(f, n) ==
  LET q == updates[n] IN
  /\ userRow[f] = q.value /\ applied[f] = q.value
  /\ user[f] = IF newest < q.write THEN q.previous ELSE q.value
  /\ \A m \in AnswersComing : updates[m].reply[f] = IF updates[m].write < q.write THEN q.previous ELSE q.value

UnderWayFor(f) == {n \in DOMAIN updates : updates[n].stage # "done" /\ updates[n].field = f}

LooksInv ==
  ~lostUpdate /\ ~outOfOrder /\ ~twice =>
    /\ \A f \in UserFields : \A m, n \in UnderWayFor(f) : m = n
    /\ \A f \in LookFields :
         /\ UnderWayFor(f) = {} => FieldAtRest(f)
         /\ \A n \in UnderWayFor(f) : IF updates[n].stage = "sent" THEN FieldSent(f, n) ELSE FieldServed(f, n)

ProfileTypes ==
  /\ userRow \in Users /\ user \in Users /\ applied \in [LookFields -> Looks]
  /\ updates \in Seq([field : UserFields, value : Looks, previous : Looks, reply : Users, write : Nat,
                      stage : {"sent", "served", "done"}])
  /\ newest \in Nat
ProfileInv == ProfileTypes /\ WritesInv /\ AnswersInv /\ LooksInv

UpdateRecords == [field : UserFields, value : Looks, previous : Looks, reply : Users, write : Nat,
                  stage : {"sent", "served", "done"}]

LEMMA ProfileInvInit == ProfileInit => ProfileInv
<1> SUFFICES ASSUME ProfileInit PROVE ProfileInv
  OBVIOUS
<1>1. PICK x \in Looks : userRow = [f \in UserFields |-> x]
  BY DEF ProfileInit
<1>2. ProfileTypes
  BY <1>1 DEF ProfileInit, ProfileTypes, Users, UserFields, LookFields
<1>3. Written = {} /\ AnswersComing = {} /\ {n \in DOMAIN updates : updates[n].write > 0} = {}
  BY DEF ProfileInit, Written, AnswersComing
<1>4. Writes = 0
  BY <1>3, FS_EmptySet DEF Writes
<1>5. WritesInv /\ AnswersInv
  BY <1>3, <1>4 DEF WritesInv, AnswersInv, ProfileInit
<1>6. \A f \in UserFields : UnderWayFor(f) = {}
  BY DEF UnderWayFor, ProfileInit
<1>7. LooksInv
  BY <1>3, <1>6 DEF LooksInv, FieldAtRest, UserFields, LookFields, ProfileInit
<1> QED BY <1>2, <1>5, <1>7 DEF ProfileInv

\* Counting the writes.
LEMMA WritesCount ==
  ASSUME ProfileTypes
  PROVE  Writes \in Nat /\ IsFiniteSet(Written)
<1>1. Len(updates) \in Nat /\ DOMAIN updates = 1..Len(updates)
  BY DEF ProfileTypes
<1>2. IsFiniteSet(1..Len(updates))
  BY <1>1, FS_Interval
<1>3. IsFiniteSet(Written)
  BY <1>1, <1>2, FS_Subset DEF Written
<1> QED BY <1>3, FS_CardinalityType DEF Writes, Written

LEMMA WritesCounted == Writes = Cardinality(Written)
BY DEF Writes, Written

LEMMA ChangeKeepsProfile ==
  ASSUME ProfileInv, NEW f \in UserFields, NEW x \in Looks, ChangeProfile(f, x)
  PROVE  ProfileInv'
<1> DEFINE q == [field |-> f, value |-> x, previous |-> user[f], reply |-> user, write |-> 0, stage |-> "sent"]
<1> USE DEF ProfileInv
<1>0. PICK k \in Nat \ {0} : k = Len(updates) + 1
  BY DEF ProfileTypes
<1>1. /\ q \in UpdateRecords /\ q.stage = "sent" /\ q.write = 0 /\ q.field = f
      /\ q.value = x /\ q.previous = user[f]
  BY DEF ProfileTypes, UpdateRecords, Users
<1>2. updates' = Append(updates, q) /\ UNCHANGED <<userRow, user, lostUpdate, newest, outOfOrder>>
  BY DEF ChangeProfile, histories
<1> HIDE DEF q
<1>3. /\ updates \in Seq(UpdateRecords) /\ updates' \in Seq(UpdateRecords)
      /\ DOMAIN updates = 1..Len(updates) /\ Len(updates) \in Nat
      /\ DOMAIN updates' = DOMAIN updates \cup {k} /\ k \notin DOMAIN updates
      /\ updates'[k] = q /\ \A m \in DOMAIN updates : updates'[m] = updates[m]
  BY <1>0, <1>1, <1>2 DEF ProfileTypes, UpdateRecords
<1>4. applied' \in [LookFields -> Looks]
  BY DEF ChangeProfile, ProfileTypes
<1>5. ProfileTypes'
  BY <1>2, <1>3, <1>4 DEF ProfileTypes, UpdateRecords
<1>6. Written' = Written /\ AnswersComing' = AnswersComing
  BY <1>1, <1>2, <1>3 DEF Written, AnswersComing
<1>7. Writes' = Writes
  BY <1>6 DEF Writes, Written
<1>8. Written \subseteq DOMAIN updates /\ AnswersComing \subseteq DOMAIN updates
  BY DEF Written, AnswersComing
<1>9. WritesInv'
  <2>1. \A n \in DOMAIN updates' : (updates'[n].stage = "sent" => n \notin Written)
                            /\ (updates'[n].stage = "served" => n \in Written)
    BY <1>1, <1>3, <1>8 DEF WritesInv
  <2> QED BY <2>1, <1>2, <1>3, <1>6, <1>7, <1>8 DEF WritesInv
<1>10. AnswersInv'
  BY <1>2, <1>3, <1>6, <1>8 DEF AnswersInv
<1>11. /\ UnderWayFor(f)' = UnderWayFor(f) \cup {k}
       /\ \A g \in UserFields : g # f => UnderWayFor(g)' = UnderWayFor(g)
  BY <1>1, <1>3 DEF UnderWayFor
<1>12. LooksInv'
  <2> SUFFICES ASSUME ~lostUpdate, ~outOfOrder, ~twice'
               PROVE  /\ \A g \in UserFields : \A m, n \in UnderWayFor(g)' : m = n
                      /\ \A g \in LookFields :
                           /\ UnderWayFor(g)' = {} => FieldAtRest(g)'
                           /\ \A n \in UnderWayFor(g)' : IF updates'[n].stage = "sent" THEN FieldSent(g, n)' ELSE FieldServed(g, n)'
    BY <1>2 DEF LooksInv
  <2>1. ~twice /\ UnderWayFor(f) = {}
    BY DEF ChangeProfile, Pending, UnderWayFor
  <2>2. \A g \in UserFields : \A m, n \in UnderWayFor(g)' : m = n
    BY <1>11, <2>1 DEF LooksInv
  <2>3. ASSUME NEW g \in LookFields
        PROVE  /\ UnderWayFor(g)' = {} => FieldAtRest(g)'
               /\ \A n \in UnderWayFor(g)' : IF updates'[n].stage = "sent" THEN FieldSent(g, n)' ELSE FieldServed(g, n)'
    <3>0. g \in UserFields /\ \A m \in AnswersComing : updates'[m] = updates[m]
      BY <1>3, <1>8 DEF UserFields
    <3>1. CASE g = f
      <4>1. FieldAtRest(f) /\ applied'[f] = x
        BY <2>1, <3>1 DEF LooksInv, ChangeProfile, ProfileTypes
      <4>2. FieldSent(f, k)'
        BY <1>1, <1>2, <1>3, <1>6, <3>0, <4>1 DEF FieldAtRest, FieldSent
      <4> QED BY <1>1, <1>3, <1>11, <2>1, <3>1, <4>2
    <3>2. CASE g # f
      <4>1. applied'[g] = applied[g] /\ UnderWayFor(g)' = UnderWayFor(g)
        BY <1>11, <3>0, <3>2 DEF ChangeProfile, ProfileTypes
      <4>2. \A n \in UnderWayFor(g) : updates'[n] = updates[n]
        BY <1>3 DEF UnderWayFor
      <4>3. /\ UnderWayFor(g) = {} => FieldAtRest(g)
            /\ \A n \in UnderWayFor(g) : IF updates[n].stage = "sent" THEN FieldSent(g, n) ELSE FieldServed(g, n)
        BY <2>1 DEF LooksInv
      <4>4. FieldAtRest(g) => FieldAtRest(g)'
        BY <1>2, <1>6, <3>0, <4>1 DEF FieldAtRest
      <4>5. \A n \in UnderWayFor(g) : FieldSent(g, n) => FieldSent(g, n)'
        BY <1>2, <1>6, <3>0, <4>1, <4>2 DEF FieldSent
      <4>6. \A n \in UnderWayFor(g) : FieldServed(g, n) => FieldServed(g, n)'
        BY <1>2, <1>6, <3>0, <4>1, <4>2 DEF FieldServed
      <4> QED BY <4>1, <4>2, <4>3, <4>4, <4>5, <4>6
    <3> QED BY <3>1, <3>2
  <2> QED BY <2>2, <2>3
<1> QED BY <1>5, <1>9, <1>10, <1>12

LEMMA UpdateTypes ==
  ASSUME ProfileTypes
  PROVE  /\ updates \in Seq(UpdateRecords) /\ Len(updates) \in Nat /\ DOMAIN updates = 1..Len(updates)
         /\ \A n \in DOMAIN updates : updates[n] \in UpdateRecords
<1>1. updates \in Seq(UpdateRecords)
  BY DEF ProfileTypes, UpdateRecords
<1> QED BY <1>1

LEMMA UpdateReplaced ==
  ASSUME ProfileTypes, NEW n \in DOMAIN updates, NEW q \in UpdateRecords, updates' = [updates EXCEPT ![n] = q]
  PROVE  /\ updates' \in Seq(UpdateRecords) /\ DOMAIN updates' = DOMAIN updates /\ updates'[n] = q
         /\ \A m \in DOMAIN updates : m # n => updates'[m] = updates[m]
BY UpdateTypes

LEMMA ServeKeepsProfile ==
  ASSUME ProfileInv, NEW n \in DOMAIN updates, ServeUpdate(n)
  PROVE  ProfileInv'
<1> USE DEF ProfileInv
<1>1. PICK v \in Nat : v = Writes
  BY WritesCount
<1>2. PICK row \in Users : row = [userRow EXCEPT ![updates[n].field] = updates[n].value]
  <2>1. updates[n] \in UpdateRecords
    BY UpdateTypes
  <2> QED BY <2>1 DEF ProfileTypes, Users, UpdateRecords
<1> DEFINE q == [updates[n] EXCEPT !.stage = "served", !.reply = row, !.write = v + 1]
<1>3. /\ updates[n].stage = "sent" /\ userRow' = row
      /\ UNCHANGED <<user, applied, lostUpdate, newest, outOfOrder, twice>>
      /\ updates' = [updates EXCEPT ![n] = q]
  BY <1>1, <1>2 DEF ServeUpdate, histories, ProfileTypes
<1>3a. /\ updates[n] \in UpdateRecords /\ q \in UpdateRecords
       /\ q.stage = "served" /\ q.reply = row /\ q.write = v + 1
       /\ q.field = updates[n].field /\ q.value = updates[n].value /\ q.previous = updates[n].previous
  <2>1. updates[n] \in UpdateRecords
    BY UpdateTypes
  <2> DEFINE q1 == [updates[n] EXCEPT !.stage = "served"]
             q2 == [q1 EXCEPT !.reply = row]
             q3 == [q2 EXCEPT !.write = v + 1]
  <2>2. q1 \in UpdateRecords /\ q1.stage = "served" /\ q1.field = updates[n].field
        /\ q1.value = updates[n].value /\ q1.previous = updates[n].previous
    BY <2>1 DEF UpdateRecords
  <2>3. q2 \in UpdateRecords /\ q2.stage = "served" /\ q2.field = updates[n].field
        /\ q2.value = updates[n].value /\ q2.previous = updates[n].previous /\ q2.reply = row
    <3> HIDE DEF q1
    <3> QED BY <1>2, <2>2 DEF UpdateRecords
  <2>4. q3 \in UpdateRecords /\ q3.stage = "served" /\ q3.field = updates[n].field
        /\ q3.value = updates[n].value /\ q3.previous = updates[n].previous /\ q3.reply = row /\ q3.write = v + 1
    <3> HIDE DEF q2
    <3> QED BY <1>1, <2>3 DEF UpdateRecords
  <2>5. q = q3
    BY <2>1 DEF UpdateRecords
  <2> QED BY <2>1, <2>4, <2>5
<1> HIDE DEF q
<1>4. /\ updates \in Seq(UpdateRecords) /\ updates' \in Seq(UpdateRecords)
      /\ DOMAIN updates' = DOMAIN updates /\ updates'[n] = q
      /\ \A m \in DOMAIN updates : m # n => updates'[m] = updates[m]
  BY <1>3, <1>3a, UpdateReplaced, UpdateTypes
<1>5. /\ updates'[n].stage = "served" /\ updates'[n].reply = row /\ updates'[n].write = v + 1
      /\ updates'[n].field = updates[n].field /\ updates'[n].value = updates[n].value
      /\ updates'[n].previous = updates[n].previous
      /\ updates[n] \in UpdateRecords
  BY <1>3a, <1>4
<1>6. ProfileTypes'
  BY <1>3, <1>4 DEF ProfileTypes, UpdateRecords
<1>7. n \notin Written /\ Written' = Written \cup {n}
  BY <1>1, <1>3, <1>4, <1>5 DEF Written, WritesInv
<1>8. Writes' = v + 1
  <2>1. Writes = Cardinality(Written) /\ Writes' = Cardinality(Written')
    BY DEF Writes, Written
  <2> QED BY <1>1, <1>7, <2>1, WritesCount, FS_AddElement
<1>9. \A m \in Written : m \in DOMAIN updates /\ m # n /\ updates'[m] = updates[m]
  BY <1>4, <1>7 DEF Written
<1>9a. \A m \in Written : updates[m].write \in Nat /\ updates[m].write <= v
  <2> SUFFICES ASSUME NEW m \in Written PROVE updates[m].write \in Nat /\ updates[m].write <= v
    OBVIOUS
  <2>1. updates[m] \in UpdateRecords
    BY <1>9, UpdateTypes
  <2> QED BY <1>1, <2>1 DEF WritesInv, UpdateRecords
<1>10. newest <= v /\ newest \in Nat
  BY <1>1 DEF WritesInv, ProfileTypes
<1>11. WritesInv'
  <2>1. \A m \in DOMAIN updates' : (updates'[m].stage = "sent" => m \notin Written')
                            /\ (updates'[m].stage = "served" => m \in Written')
    BY <1>4, <1>5, <1>7 DEF WritesInv
  <2>2. \A k, m \in Written' : updates'[k].write = updates'[m].write => k = m
    BY <1>5, <1>7, <1>9, <1>9a DEF WritesInv
  <2>3. \A m \in Written' : updates'[m].write <= Writes'
    BY <1>5, <1>7, <1>8, <1>9, <1>9a
  <2>4. Writes' > 0 /\ newest' <= Writes'
    BY <1>3, <1>8, <1>10
  <2>5. n \in Written' /\ updates'[n].write = Writes' /\ updates'[n].reply = userRow'
    BY <1>3, <1>5, <1>7, <1>8
  <2> QED BY <2>1, <2>2, <2>3, <2>4, <2>5 DEF WritesInv
<1>12. AnswersInv'
  <2>1. updates'[n].stage # "done"
    BY <1>5
  <2> QED BY <1>3, <1>7, <1>9, <2>1 DEF AnswersInv
<1>13. AnswersComing' = AnswersComing \cup {n} /\ n \notin AnswersComing
  BY <1>3, <1>4, <1>5, <1>10 DEF AnswersComing
<1>14. \A m \in AnswersComing : m \in Written /\ m \in DOMAIN updates
  BY <1>10, <1>4 DEF AnswersComing, WritesInv
<1>15. \A g \in UserFields : UnderWayFor(g)' = UnderWayFor(g)
  BY <1>3, <1>4, <1>5 DEF UnderWayFor
<1>16. LooksInv'
  <2> SUFFICES ASSUME ~lostUpdate, ~outOfOrder, ~twice
               PROVE  /\ \A g \in UserFields : \A m, k \in UnderWayFor(g)' : m = k
                      /\ \A g \in LookFields :
                           /\ UnderWayFor(g)' = {} => FieldAtRest(g)'
                           /\ \A k \in UnderWayFor(g)' : IF updates'[k].stage = "sent" THEN FieldSent(g, k)' ELSE FieldServed(g, k)'
    BY <1>3 DEF LooksInv
  <2>1. \A g \in UserFields : \A m, k \in UnderWayFor(g)' : m = k
    BY <1>15 DEF LooksInv
  <2>2. ASSUME NEW g \in LookFields
        PROVE  /\ UnderWayFor(g)' = {} => FieldAtRest(g)'
               /\ \A k \in UnderWayFor(g)' : IF updates'[k].stage = "sent" THEN FieldSent(g, k)' ELSE FieldServed(g, k)'
    <3>0. g \in UserFields /\ UnderWayFor(g)' = UnderWayFor(g)
      BY <1>15 DEF UserFields
    <3>1. CASE updates[n].field = g
      <4>1. UnderWayFor(g) = {n}
        BY <1>3, <3>0, <3>1 DEF UnderWayFor, LooksInv
      <4>2. FieldSent(g, n)
        BY <1>3, <4>1 DEF LooksInv
      <4>3. row[g] = updates[n].value
        BY <1>2, <3>0, <3>1 DEF ProfileTypes, Users
      <4>4. \A m \in AnswersComing : updates'[m].write < v + 1 /\ updates'[m].reply[g] = updates'[n].previous
        BY <1>5, <1>9, <1>9a, <1>14, <4>2 DEF FieldSent
      <4>5. \A m \in AnswersComing' : updates'[m].reply[g] =
              IF updates'[m].write < updates'[n].write THEN updates'[n].previous ELSE updates'[n].value
        BY <1>5, <1>13, <4>3, <4>4
      <4>6. newest' < updates'[n].write
        BY <1>3, <1>5, <1>10
      <4>7. FieldServed(g, n)'
        BY <1>3, <1>5, <4>2, <4>3, <4>5, <4>6 DEF FieldSent, FieldServed
      <4> QED BY <1>5, <3>0, <4>1, <4>7
    <3>2. CASE updates[n].field # g
      <4>1. row[g] = userRow[g] /\ updates[n].field \in UserFields
        BY <1>2, <1>5, <3>0, <3>2 DEF ProfileTypes, Users, UpdateRecords
      <4>2. \A k \in UnderWayFor(g) : k \in DOMAIN updates /\ updates'[k] = updates[k]
        BY <1>4, <3>2 DEF UnderWayFor
      <4>3. /\ UnderWayFor(g) = {} => FieldAtRest(g)
            /\ \A k \in UnderWayFor(g) : IF updates[k].stage = "sent" THEN FieldSent(g, k) ELSE FieldServed(g, k)
        BY DEF LooksInv
      <4>3a. \A m \in AnswersComing : updates'[m] = updates[m]
        BY <1>9, <1>14
      <4>4. FieldAtRest(g) => FieldAtRest(g)'
        BY <1>3, <1>5, <1>13, <4>3a, <4>1 DEF FieldAtRest
      <4>5. \A k \in UnderWayFor(g) : FieldSent(g, k) => FieldSent(g, k)'
        BY <1>3, <1>5, <1>13, <4>3a, <4>1, <4>2 DEF FieldSent
      <4>6. ASSUME NEW k \in UnderWayFor(g), updates[k].stage # "sent", FieldServed(g, k)
            PROVE  FieldServed(g, k)'
        <5>1. k \in Written /\ updates[k].write <= v /\ updates[k].write \in Nat
          <6>1. updates[k].stage = "served"
            BY <4>2, <4>6, UpdateTypes DEF UnderWayFor, UpdateRecords
          <6> QED BY <1>9a, <4>2, <6>1 DEF WritesInv
        <5>2. updates'[n].reply[g] = updates'[k].value /\ ~(updates'[n].write < updates'[k].write)
          BY <1>5, <4>1, <4>2, <4>6, <5>1 DEF FieldServed
        <5> QED BY <1>3, <1>13, <4>1, <4>2, <4>3a, <4>6, <5>2 DEF FieldServed
      <4> QED BY <3>0, <4>2, <4>3, <4>4, <4>5, <4>6
    <3> QED BY <3>1, <3>2
  <2> QED BY <2>1, <2>2
<1> QED BY <1>6, <1>11, <1>12, <1>16

\* What both ends of a request do to it.
LEMMA DoneRecord ==
  ASSUME ProfileTypes, NEW n \in DOMAIN updates, UpdateDone(n)
  PROVE  /\ updates \in Seq(UpdateRecords) /\ updates' \in Seq(UpdateRecords)
         /\ DOMAIN updates' = DOMAIN updates
         /\ updates'[n].stage = "done"
         /\ \A m \in DOMAIN updates :
              /\ m # n => updates'[m] = updates[m]
              /\ updates'[m].field = updates[m].field /\ updates'[m].value = updates[m].value
              /\ updates'[m].previous = updates[m].previous /\ updates'[m].reply = updates[m].reply
              /\ updates'[m].write = updates[m].write
         /\ Written' = Written /\ Writes' = Writes
<1>1. updates' = [updates EXCEPT ![n] = [updates[n] EXCEPT !.stage = "done"]]
  BY DEF UpdateDone
<1>3. updates[n] \in UpdateRecords /\ [updates[n] EXCEPT !.stage = "done"] \in UpdateRecords
  BY UpdateTypes DEF UpdateRecords
<1>2. /\ updates \in Seq(UpdateRecords) /\ updates' \in Seq(UpdateRecords)
      /\ DOMAIN updates' = DOMAIN updates
      /\ updates'[n] = [updates[n] EXCEPT !.stage = "done"]
      /\ \A m \in DOMAIN updates : m # n => updates'[m] = updates[m]
  BY <1>1, <1>3, UpdateTypes, UpdateReplaced
<1>4. \A m \in DOMAIN updates :
              /\ updates'[m].field = updates[m].field /\ updates'[m].value = updates[m].value
              /\ updates'[m].previous = updates[m].previous /\ updates'[m].reply = updates[m].reply
              /\ updates'[m].write = updates[m].write
  BY <1>2, <1>3 DEF UpdateRecords
<1>5. Written' = Written
  BY <1>2, <1>4 DEF Written
<1>6. Writes' = Writes
  BY <1>5 DEF Writes, Written
<1>7. updates'[n].stage = "done"
  BY <1>2, <1>3 DEF UpdateRecords
<1> QED BY <1>2, <1>4, <1>5, <1>6, <1>7

LEMMA WrittenRecord ==
  ASSUME ProfileTypes, WritesInv, NEW n \in Written
  PROVE  /\ n \in DOMAIN updates /\ updates[n] \in UpdateRecords
         /\ updates[n].write \in Nat \ {0} /\ updates[n].write <= Writes /\ Writes > 0
<1>1. n \in DOMAIN updates /\ updates[n] \in UpdateRecords /\ updates[n].write > 0 /\ updates[n].write <= Writes
  BY UpdateTypes DEF Written, WritesInv
<1> QED BY <1>1, WritesCount DEF UpdateRecords

LEMMA AnswerKeepsProfile ==
  ASSUME ProfileInv, NEW n \in DOMAIN updates, ProfileUpdated(n)
  PROVE  ProfileInv'
<1> USE DEF ProfileInv
<1>1. PICK w \in Nat : w = updates[n].write
  BY UpdateTypes DEF UpdateRecords
<1>2. PICK row \in Users : row = updates[n].reply
  BY UpdateTypes DEF UpdateRecords
<1>3. /\ updates[n].stage = "served" /\ UpdateDone(n) /\ user' = row /\ UNCHANGED <<userRow, lostUpdate, twice>>
      /\ applied' = [f \in LookFields |-> IF row[f] # user[f] THEN row[f] ELSE applied[f]]
      /\ outOfOrder' = (outOfOrder \/ w < newest)
      /\ newest' = IF w > newest THEN w ELSE newest
  BY <1>1, <1>2 DEF ProfileUpdated
<1>4. /\ n \in Written /\ w > 0 /\ w <= Writes
      /\ newest \in Nat /\ newest' \in Nat /\ newest' <= Writes
  BY <1>1, <1>3, WrittenRecord DEF ProfileTypes, WritesInv
<1>5. ProfileTypes'
  <2>1. applied' \in [LookFields -> Looks]
    BY <1>3 DEF ProfileTypes, Users, UserFields
  <2> QED BY <1>3, <1>4, <2>1, DoneRecord DEF ProfileTypes, UpdateRecords
<1>6. WritesInv'
  <2>1. \A m \in DOMAIN updates' : (updates'[m].stage = "sent" => m \notin Written')
                            /\ (updates'[m].stage = "served" => m \in Written')
    BY <1>3, DoneRecord DEF WritesInv
  <2>2. \A k, m \in Written' : updates'[k].write = updates'[m].write => k = m
    BY <1>3, DoneRecord DEF WritesInv, Written
  <2>3. \A m \in Written' : updates'[m].write <= Writes'
    BY <1>3, DoneRecord, WrittenRecord
  <2>4. Writes' > 0 /\ newest' <= Writes'
    BY <1>3, <1>4, DoneRecord, WritesCount
  <2>5. \E m \in Written' : updates'[m].write = Writes' /\ updates'[m].reply = userRow'
    BY <1>3, <2>4, DoneRecord, WrittenRecord DEF WritesInv
  <2> QED BY <2>1, <2>2, <2>3, <2>4, <2>5 DEF WritesInv
<1>7. AnswersInv'
  <2>1. ~outOfOrder' => n \in Written' /\ updates'[n].stage = "done" /\ updates'[n].write = newest' /\ user' = updates'[n].reply
    <3>1. ~outOfOrder' => newest' = w
      <4>1. ~outOfOrder' => ~(w < newest)
        BY <1>3
      <4> QED BY <1>1, <1>3, <1>4, <4>1
    <3>2. n \in Written' /\ updates'[n].stage = "done" /\ updates'[n].write = w /\ user' = updates'[n].reply
      BY <1>1, <1>2, <1>3, <1>4, DoneRecord
    <3> QED BY <3>1, <3>2
  <2>2. ASSUME ~lostUpdate', NEW m \in Written', updates'[m].stage = "done"
        PROVE  updates'[m].write <= newest'
    <3>1. m \in Written /\ updates'[m].write = updates[m].write /\ updates[m].write \in Nat
      BY <1>3, <2>2, DoneRecord, WrittenRecord
    <3>2. CASE m = n
      BY <1>1, <1>3, <1>4, <3>1, <3>2
    <3>3. CASE m # n
      <4>1. updates[m].stage = "done"
        BY <1>3, <2>2, <3>1, <3>3, DoneRecord, WrittenRecord
      <4>2. updates[m].write <= newest
        BY <1>3, <2>2, <3>1, <4>1 DEF AnswersInv
      <4> QED BY <1>3, <1>4, <3>1, <4>2
    <3> QED BY <3>2, <3>3
  <2> QED BY <2>1, <2>2 DEF AnswersInv
<1>8. LooksInv'
  <2> SUFFICES ASSUME ~lostUpdate, ~outOfOrder, ~twice, ~(w < newest)
               PROVE  /\ \A g \in UserFields : \A m, k \in UnderWayFor(g)' : m = k
                      /\ \A g \in LookFields :
                           /\ UnderWayFor(g)' = {} => FieldAtRest(g)'
                           /\ \A k \in UnderWayFor(g)' : IF updates'[k].stage = "sent" THEN FieldSent(g, k)' ELSE FieldServed(g, k)'
    BY <1>3 DEF LooksInv
  <2>1. w > newest /\ newest' = w /\ n \in AnswersComing
    <3>1. w # newest
      <4> SUFFICES ASSUME w = newest PROVE FALSE
        OBVIOUS
      <4>1. PICK m \in Written : updates[m].stage = "done" /\ updates[m].write = newest
        BY <1>4 DEF AnswersInv
      <4>2. m = n
        BY <1>1, <1>4, <4>1 DEF WritesInv
      <4> QED BY <1>3, <4>1, <4>2
    <3> QED BY <1>1, <1>3, <1>4, <3>1 DEF AnswersComing
  <2>2. \A m \in AnswersComing' : m \in AnswersComing /\ m # n /\ updates[m].write > w /\ updates'[m] = updates[m] /\ updates[m].write \in Nat
    <3> SUFFICES ASSUME NEW m \in AnswersComing'
                 PROVE  m \in AnswersComing /\ m # n /\ updates[m].write > w /\ updates'[m] = updates[m] /\ updates[m].write \in Nat
      OBVIOUS
    <3>1. m \in DOMAIN updates /\ m # n /\ updates'[m] = updates[m] /\ updates[m] \in UpdateRecords
      BY <1>3, DoneRecord, UpdateTypes DEF AnswersComing
    <3> QED BY <1>4, <2>1, <3>1 DEF AnswersComing, UpdateRecords
  <2>3. \A g \in UserFields : UnderWayFor(g)' = UnderWayFor(g) \ {n}
    BY <1>3, DoneRecord DEF UnderWayFor
  <2>4. \A g \in UserFields : \A m, k \in UnderWayFor(g)' : m = k
    BY <2>3 DEF LooksInv
  <2>5. ASSUME NEW g \in LookFields
        PROVE  /\ UnderWayFor(g)' = {} => FieldAtRest(g)'
               /\ \A k \in UnderWayFor(g)' : IF updates'[k].stage = "sent" THEN FieldSent(g, k)' ELSE FieldServed(g, k)'
    <3>0. /\ g \in UserFields /\ UnderWayFor(g)' = UnderWayFor(g) \ {n}
          /\ applied'[g] = IF row[g] # user[g] THEN row[g] ELSE applied[g]
          /\ \A k, m \in UnderWayFor(g) : k = m
      BY <1>3, <2>3 DEF UserFields, LooksInv
    <3>1. /\ UnderWayFor(g) = {} => FieldAtRest(g)
          /\ \A k \in UnderWayFor(g) : IF updates[k].stage = "sent" THEN FieldSent(g, k) ELSE FieldServed(g, k)
      BY DEF LooksInv
    <3>2. CASE UnderWayFor(g) = {}
      <4>1. row[g] = userRow[g]
        BY <1>2, <2>1, <3>1, <3>2 DEF FieldAtRest
      <4> QED BY <1>3, <2>2, <3>0, <3>1, <3>2, <4>1 DEF FieldAtRest
    <3>3. CASE n \in UnderWayFor(g)
      <4>1. UnderWayFor(g)' = {} /\ FieldServed(g, n)
        BY <1>3, <3>0, <3>1, <3>3
      <4>2. row[g] = updates[n].value /\ userRow[g] = updates[n].value /\ applied[g] = updates[n].value
        BY <1>2, <2>1, <1>1, <1>4, <4>1 DEF FieldServed
      <4>3. \A m \in AnswersComing' : updates'[m].reply[g] = updates[n].value
        BY <1>1, <2>2, <4>1 DEF FieldServed
      <4>4. FieldAtRest(g)'
        BY <1>3, <3>0, <4>2, <4>3 DEF FieldAtRest
      <4> QED BY <4>1, <4>4
    <3>4. ASSUME NEW k \in UnderWayFor(g), k # n
          PROVE  /\ UnderWayFor(g)' # {} /\ \A m \in UnderWayFor(g)' : m = k
                 /\ IF updates'[k].stage = "sent" THEN FieldSent(g, k)' ELSE FieldServed(g, k)'
      <4>1. /\ UnderWayFor(g)' # {} /\ \A m \in UnderWayFor(g)' : m = k
            /\ updates'[k] = updates[k] /\ k \in DOMAIN updates /\ updates[k] \in UpdateRecords
        BY <1>3, <3>0, <3>4, DoneRecord, UpdateTypes DEF UnderWayFor
      <4>2. CASE updates[k].stage = "sent"
        <5>1. FieldSent(g, k) /\ row[g] = userRow[g]
          BY <1>2, <2>1, <3>1, <4>2 DEF FieldSent
        <5>2. FieldSent(g, k)'
          BY <1>3, <2>2, <3>0, <4>1, <5>1 DEF FieldSent
        <5> QED BY <4>1, <4>2, <5>2
      <4>3. CASE updates[k].stage # "sent"
        <5>1. FieldServed(g, k) /\ row[g] = IF w < updates[k].write THEN updates[k].previous ELSE updates[k].value
          BY <1>1, <1>2, <2>1, <3>1, <4>3 DEF FieldServed
        <5>2. updates[k].write \in Nat
          BY <4>1 DEF UpdateRecords
        <5>3. applied'[g] = updates[k].value
          BY <1>4, <2>1, <3>0, <5>1, <5>2 DEF FieldServed
        <5>4. \A m \in AnswersComing' : updates'[m].reply[g] = IF updates[m].write < updates[k].write THEN updates[k].previous ELSE updates[k].value
          BY <2>2, <5>1 DEF FieldServed
        <5>5. FieldServed(g, k)'
          BY <1>3, <2>1, <2>2, <4>1, <5>1, <5>3, <5>4 DEF FieldServed
        <5> QED BY <4>1, <4>3, <5>5
      <4> QED BY <4>2, <4>3
    <3> QED BY <3>2, <3>3, <3>4
  <2> QED BY <2>4, <2>5
<1> QED BY <1>5, <1>6, <1>7, <1>8

LEMMA RefusalKeepsProfile ==
  ASSUME ProfileInv, NEW n \in DOMAIN updates, ProfileRefused(n)
  PROVE  ProfileInv'
<1> USE DEF ProfileInv
<1>1. /\ updates[n].stage \in {"sent", "served"} /\ UpdateDone(n)
      /\ lostUpdate' = (lostUpdate \/ updates[n].stage = "served")
      /\ UNCHANGED <<userRow, user, newest, outOfOrder, twice>>
      /\ applied' = IF updates[n].field \in LookFields THEN [applied EXCEPT ![updates[n].field] = updates[n].previous]
                    ELSE applied
  BY DEF ProfileRefused, histories
<1>2. updates[n] \in UpdateRecords
  BY UpdateTypes
<1>3. ProfileTypes'
  <2>1. applied' \in [LookFields -> Looks]
    BY <1>1, <1>2 DEF ProfileTypes, UpdateRecords
  <2> QED BY <1>1, <2>1, DoneRecord DEF ProfileTypes, UpdateRecords
<1>4. WritesInv'
  <2>1. \A m \in DOMAIN updates' : (updates'[m].stage = "sent" => m \notin Written')
                            /\ (updates'[m].stage = "served" => m \in Written')
    BY <1>1, DoneRecord DEF WritesInv
  <2>2. \A k, m \in Written' : updates'[k].write = updates'[m].write => k = m
    BY <1>1, DoneRecord DEF WritesInv, Written
  <2>3. \A m \in Written' : updates'[m].write <= Writes'
    BY <1>1, DoneRecord, WrittenRecord
  <2>4. Writes' > 0 => \E m \in Written' : updates'[m].write = Writes' /\ updates'[m].reply = userRow'
    BY <1>1, DoneRecord, WrittenRecord DEF WritesInv
  <2> QED BY <1>1, <2>1, <2>2, <2>3, <2>4, DoneRecord DEF WritesInv
<1>5. AnswersInv'
  <2>1. ASSUME ~outOfOrder', newest' > 0
        PROVE  \E m \in Written' : updates'[m].stage = "done" /\ updates'[m].write = newest' /\ user' = updates'[m].reply
    <3>1. PICK m \in Written : updates[m].stage = "done" /\ updates[m].write = newest /\ user = updates[m].reply
      BY <1>1, <2>1 DEF AnswersInv
    <3>2. m # n /\ m \in DOMAIN updates
      BY <1>1, <3>1, WrittenRecord
    <3> QED BY <1>1, <3>1, <3>2, DoneRecord
  <2>2. ASSUME ~lostUpdate', NEW m \in Written', updates'[m].stage = "done"
        PROVE  updates'[m].write <= newest'
    <3>1. m \in Written /\ m \in DOMAIN updates /\ updates[n].stage = "sent" /\ ~lostUpdate
      BY <1>1, <2>2, DoneRecord, WrittenRecord
    <3>2. m # n
      BY <3>1 DEF WritesInv
    <3> QED BY <1>1, <2>2, <3>1, <3>2, DoneRecord DEF AnswersInv
  <2> QED BY <2>1, <2>2 DEF AnswersInv
<1>6. LooksInv'
  <2> SUFFICES ASSUME ~lostUpdate, ~outOfOrder, ~twice, updates[n].stage = "sent"
               PROVE  /\ \A g \in UserFields : \A m, k \in UnderWayFor(g)' : m = k
                      /\ \A g \in LookFields :
                           /\ UnderWayFor(g)' = {} => FieldAtRest(g)'
                           /\ \A k \in UnderWayFor(g)' : IF updates'[k].stage = "sent" THEN FieldSent(g, k)' ELSE FieldServed(g, k)'
    BY <1>1 DEF LooksInv
  <2>1. AnswersComing' = AnswersComing /\ \A m \in AnswersComing : updates'[m] = updates[m]
    BY <1>1, DoneRecord DEF AnswersComing
  <2>2. \A g \in UserFields : UnderWayFor(g)' = UnderWayFor(g) \ {n}
    BY <1>1, DoneRecord DEF UnderWayFor
  <2>3. \A g \in UserFields : \A m, k \in UnderWayFor(g)' : m = k
    BY <2>2 DEF LooksInv
  <2>4. ASSUME NEW g \in LookFields
        PROVE  /\ UnderWayFor(g)' = {} => FieldAtRest(g)'
               /\ \A k \in UnderWayFor(g)' : IF updates'[k].stage = "sent" THEN FieldSent(g, k)' ELSE FieldServed(g, k)'
    <3>0. /\ g \in UserFields /\ UnderWayFor(g)' = UnderWayFor(g) \ {n}
          /\ \A k, m \in UnderWayFor(g) : k = m
      BY <2>2 DEF UserFields, LooksInv
    <3>1. /\ UnderWayFor(g) = {} => FieldAtRest(g)
          /\ \A k \in UnderWayFor(g) : IF updates[k].stage = "sent" THEN FieldSent(g, k) ELSE FieldServed(g, k)
      BY DEF LooksInv
    <3>2. CASE updates[n].field = g
      <4>1. n \in UnderWayFor(g) /\ UnderWayFor(g)' = {}
        BY <3>0, <3>2 DEF UnderWayFor
      <4>2. FieldSent(g, n) /\ applied'[g] = updates[n].previous
        BY <1>1, <3>1, <3>2, <4>1 DEF ProfileTypes
      <4>3. FieldAtRest(g)'
        BY <1>1, <2>1, <4>2 DEF FieldSent, FieldAtRest
      <4> QED BY <4>1, <4>3
    <3>3. CASE updates[n].field # g
      <4>1. applied'[g] = applied[g] /\ UnderWayFor(g)' = UnderWayFor(g)
        BY <1>1, <3>0, <3>3 DEF ProfileTypes, UnderWayFor
      <4>2. \A k \in UnderWayFor(g) : updates'[k] = updates[k]
        BY <1>1, <3>3, DoneRecord DEF UnderWayFor
      <4>3. FieldAtRest(g) => FieldAtRest(g)'
        BY <1>1, <2>1, <4>1 DEF FieldAtRest
      <4>4. \A k \in UnderWayFor(g) : FieldSent(g, k) => FieldSent(g, k)'
        BY <1>1, <2>1, <4>1, <4>2 DEF FieldSent
      <4>5. \A k \in UnderWayFor(g) : FieldServed(g, k) => FieldServed(g, k)'
        BY <1>1, <2>1, <4>1, <4>2 DEF FieldServed
      <4> QED BY <3>1, <4>1, <4>2, <4>3, <4>4, <4>5
    <3> QED BY <3>2, <3>3
  <2> QED BY <2>3, <2>4
<1> QED BY <1>3, <1>4, <1>5, <1>6

LEMMA ProfileInvStep == ProfileInv /\ [ProfileNext]_profileVars => ProfileInv'
<1> SUFFICES ASSUME ProfileInv, [ProfileNext]_profileVars PROVE ProfileInv'
  OBVIOUS
<1>1. CASE ToggleProfile \/ UNCHANGED profileVars
  <2>1. UNCHANGED <<userRow, user, applied, updates, lostUpdate, newest, outOfOrder, twice>>
    BY <1>1 DEF ToggleProfile, profileVars, histories
  <2>2. Written' = Written /\ AnswersComing' = AnswersComing /\ Writes' = Writes
    BY <2>1 DEF Written, AnswersComing, Writes
  <2>3. \A f \in UserFields : UnderWayFor(f)' = UnderWayFor(f)
    BY <2>1 DEF UnderWayFor
  <2>4. ProfileTypes' /\ WritesInv' /\ AnswersInv'
    BY <2>1, <2>2 DEF ProfileInv, ProfileTypes, WritesInv, AnswersInv
  <2>5. LooksInv'
    <3>1. \A f \in LookFields : FieldAtRest(f) => FieldAtRest(f)'
      BY <2>1, <2>2 DEF FieldAtRest
    <3>2. \A f \in LookFields, n \in DOMAIN updates : FieldSent(f, n) => FieldSent(f, n)'
      BY <2>1, <2>2 DEF FieldSent
    <3>3. \A f \in LookFields, n \in DOMAIN updates : FieldServed(f, n) => FieldServed(f, n)'
      BY <2>1, <2>2 DEF FieldServed
    <3>4. \A f \in LookFields : f \in UserFields /\ UnderWayFor(f) \subseteq DOMAIN updates
      BY DEF UserFields, UnderWayFor
    <3> QED BY <2>1, <2>3, <3>1, <3>2, <3>3, <3>4 DEF ProfileInv, LooksInv
  <2> QED BY <2>4, <2>5 DEF ProfileInv
<1> QED BY <1>1, ChangeKeepsProfile, ServeKeepsProfile, AnswerKeepsProfile, RefusalKeepsProfile DEF ProfileNext

LEMMA ProfileInvHolds == ProfileInv => ProfileHolds
<1> SUFFICES ASSUME ProfileInv, ~AnyPending, ~lostUpdate, ~outOfOrder
             PROVE  user = userRow /\ (~twice => \A f \in LookFields : applied[f] = user[f])
  BY DEF ProfileHolds, UserIsServer, LookIsUsers
<1> USE DEF ProfileInv
<1>1. \A n \in DOMAIN updates : updates[n].stage = "done"
  BY UpdateTypes DEF AnyPending, Pending, UpdateRecords
<1>2. user = userRow
  <2>1. CASE Writes = 0
    BY <2>1 DEF WritesInv
  <2>2. CASE Writes > 0
    <3>1. PICK n \in Written : updates[n].write = Writes /\ updates[n].reply = userRow
      BY <2>2 DEF WritesInv
    <3>2. Writes <= newest /\ newest <= Writes /\ newest > 0
      BY <1>1, <2>2, <3>1, WrittenRecord, WritesCount DEF AnswersInv, WritesInv, ProfileTypes
    <3>3. PICK m \in Written : updates[m].write = newest /\ user = updates[m].reply
      BY <3>2 DEF AnswersInv
    <3>4. m = n
      BY <3>1, <3>2, <3>3, WritesCount DEF WritesInv, ProfileTypes
    <3> QED BY <3>1, <3>3, <3>4
  <2> QED BY <2>1, <2>2, WritesCount
<1>3. \A f \in LookFields : UnderWayFor(f) = {}
  BY <1>1 DEF UnderWayFor
<1> QED BY <1>2, <1>3 DEF LooksInv, FieldAtRest

(* The user a page shows, and the look applied to it, are the server's when   *)
(* no update is under way: however many updates of the profile, the theme,    *)
(* the colour and the language overlap and fail, as long as answers come in   *)
(* the order of their writes, none is lost and no field is set twice at once. *)
THEOREM ProfileIsServer == Spec => []ProfileHolds
<1>1. Init => ProfileInv
  BY PartsInit, ProfileInvInit
<1>2. ProfileInv /\ [Next]_vars => ProfileInv'
  BY PartsStep, ProfileInvStep
<1>3. ProfileInv => ProfileHolds
  BY ProfileInvHolds
<1> QED BY <1>1, <1>2, <1>3, PTL DEF Spec

-----------------------------------------------------------------------------
(* The session of a browser.                                                  *)

CallTypes == {"none", "refresh", "me", "login", "logout", "work", "verify"}
CallStages == {"none", "key", "proved", "sent", "issued", "ok", "refused"}
\* A tab that was never opened does nothing.
NotOpened(p) ==
  /\ pages[p].shows = "closed"
  /\ \A th \in Threads : sessionCalls[p, th] = NoRequest /\ keygen[p, th] = 0

ThreadsInv(p) ==
  LET q == sessionCalls[p, "load"]
      u == sessionCalls[p, "user"]
  IN /\ q.type \in {"none", "refresh", "me"} /\ u.type \in {"none", "login", "work", "verify", "logout"}
     /\ \A th \in Threads :
          /\ sessionCalls[p, th].type = "none" <=> sessionCalls[p, th].stage = "none"
          /\ sessionCalls[p, th].stage = "issued" => sessionCalls[p, th].type = "refresh"
     /\ q.stage = "issued" => q.got # q.refresh

KeysInv(p) ==
  /\ keyStore.public # 0 => keyStore.private = keyStore.public
  /\ \A th \in Threads : keygen[p, th] # 0 => keyStore.public = 0
  /\ keygen[p, "load"] = 0 \/ keygen[p, "user"] = 0
  /\ \A th \in Threads : sessionCalls[p, th].stage \notin {"none", "key"} =>
       sessionCalls[p, th].public = keyStore.public /\ sessionCalls[p, th].public # 0

HalfRotated(p) == sessionCalls[p, "load"].stage = "issued" /\ sessionCalls[p, "load"].refresh \in live
\* The sessions that count: those that no cut rotation left.
InUse == live \ orphans
CountInv(p) ==
  /\ IsFiniteSet(InUse)
  /\ Cardinality(InUse) <= logins + 1
  /\ ~HalfRotated(p) => Cardinality(InUse) <= logins

SignedIn(p) ==
  /\ cookies.refresh \in live /\ pages[p].token = cookies.access
  /\ keyStore.public # 0
  /\ cookies.access \in DOMAIN boundTo
  /\ boundTo[cookies.access] = keyStore.public /\ boundTo[cookies.refresh] = keyStore.public

Granted(q) == q.got \in live /\ boundTo[q.got] = q.public
PageInv(p) ==
  LET q == sessionCalls[p, "load"]
      u == sessionCalls[p, "user"]
  IN /\ u.type # "none" => q.type = "none"
     /\ pages[p].shows = "loading" => q.type # "none"
     /\ q.type # "none" => pages[p].shows = "loading"
     /\ u.type = "login" => pages[p].shows = "login"
     /\ u.type \in {"work", "verify", "logout"} => pages[p].shows = "home"
     /\ q.type = "refresh" /\ q.stage \in {"issued", "ok"} => Granted(q)
     /\ q.type = "me" => SignedIn(p)
     /\ u.type = "login" /\ u.stage = "ok" => Granted(u)
     /\ u.type = "verify" /\ u.stage = "ok" => u.got \in DOMAIN boundTo /\ boundTo[u.got] = u.public
     /\ pages[p].shows = "home" /\ u.type # "logout" => SignedIn(p)

TabInv(p) == ThreadsInv(p) /\ KeysInv(p) /\ CountInv(p) /\ (~hasty => PageInv(p))

TabsInv ==
  /\ IsFiniteSet(OpenedTabs) /\ live \subseteq DOMAIN boundTo
  /\ \A p \in BrowserTabs : opens[p] = 0 => NotOpened(p)
  /\ OpenedTabs = {} => live = {} /\ keyStore.public = 0
  /\ \A p \in BrowserTabs : OpenedTabs \subseteq {p} => TabInv(p)

\* What a cut rotation leaves is held by nobody: a token in a cookie, a request or
\* an answer is not an orphan, and the one a rotation has just stored is alive and
\* known to that rotation alone.
NoOrphan(n) == n \in 0..issued /\ n \notin orphans
NewAlone(c) ==
  /\ sessionCalls[c].got \in live /\ sessionCalls[c].got # cookies.refresh
  /\ \A d \in Callers : /\ sessionCalls[d].refresh # sessionCalls[c].got
                        /\ d # c => sessionCalls[d].got # sessionCalls[c].got
OrphanInv ==
  /\ orphans \subseteq DOMAIN boundTo
  /\ NoOrphan(cookies.refresh)
  /\ \A c \in Callers : NoOrphan(sessionCalls[c].refresh) /\ NoOrphan(sessionCalls[c].got)
  /\ \A c \in Rotating(Callers) : NewAlone(c)

CallRecords == [type : CallTypes, stage : CallStages, private : Nat, public : Nat, ath : Nat,
                access : Nat, refresh : Nat, got : Nat]
SessionTypes ==
  /\ pages \in [BrowserTabs -> [shows : {"closed", "loading", "login", "home"}, token : Nat]]
  /\ sessionCalls \in [Callers -> CallRecords] /\ keygen \in [Callers -> Nat]
  /\ keyStore \in [private : Nat, public : Nat] /\ keyPairs \in Nat
  /\ cookies \in [access : Nat, refresh : Nat]
  /\ boundTo \in [1..issued -> Nat] /\ issued \in Nat
  /\ opens \in [BrowserTabs -> Nat] /\ logins \in Nat

\* A step of one tab replaces one of its two requests.
CallReplaced(p, th, q) ==
  /\ q \in CallRecords /\ sessionCalls'[p, th] = q /\ sessionCalls' \in [Callers -> CallRecords]
  /\ \A r \in BrowserTabs, t \in Threads : <<r, t>> # <<p, th>> => sessionCalls'[r, t] = sessionCalls[r, t]

LEMMA CallReplacing ==
  ASSUME SessionTypes, NEW p \in BrowserTabs, NEW th \in Threads, NEW q \in CallRecords,
         sessionCalls' = [sessionCalls EXCEPT ![<<p, th>>] = q]
  PROVE  CallReplaced(p, th, q)
<1>1. sessionCalls \in [Callers -> CallRecords]
  BY DEF SessionTypes
<1>2. sessionCalls' \in [Callers -> CallRecords]
  BY <1>1 DEF Callers
<1>3. <<p, th>> \in Callers /\ \A r \in BrowserTabs, t \in Threads : <<r, t>> \in Callers
  BY DEF Callers
<1>4. sessionCalls'[p, th] = q
  BY <1>1, <1>3
<1>5. ASSUME NEW r \in BrowserTabs, NEW t \in Threads, <<r, t>> # <<p, th>>
      PROVE  sessionCalls'[r, t] = sessionCalls[r, t]
  BY <1>1, <1>3, <1>5
<1> QED BY <1>2, <1>4, <1>5 DEF CallReplaced

LEMMA CallType ==
  ASSUME SessionTypes, NEW p \in BrowserTabs, NEW th \in Threads
  PROVE  sessionCalls[p, th] \in CallRecords
<1>1. <<p, th>> \in Callers
  BY DEF Callers
<1> QED BY <1>1 DEF SessionTypes

\* The request after an answer of the server, and the one that is no more.
Replied(p, th, q, stage, token) ==
  /\ CallReplaced(p, th, q)
  /\ q.stage = stage /\ q.got = token /\ q.type = sessionCalls[p, th].type
  /\ q.private = sessionCalls[p, th].private /\ q.public = sessionCalls[p, th].public
  /\ q.access = sessionCalls[p, th].access /\ q.refresh = sessionCalls[p, th].refresh

LEMMA Replying ==
  ASSUME SessionTypes, NEW p \in BrowserTabs, NEW th \in Threads,
         NEW stage \in CallStages, NEW token \in Nat, Reply(p, th, stage, token)
  PROVE  \E q \in CallRecords : Replied(p, th, q, stage, token)
<1>1. PICK c \in CallRecords : c = sessionCalls[p, th]
  BY CallType
<1> DEFINE q1 == [c EXCEPT !.stage = stage]
           q == [q1 EXCEPT !.got = token]
<1>2. /\ q1 \in CallRecords /\ q1.stage = stage /\ q1.type = c.type /\ q1.private = c.private
      /\ q1.public = c.public /\ q1.access = c.access /\ q1.refresh = c.refresh
  BY DEF CallRecords
<1>3. /\ q \in CallRecords /\ q.stage = stage /\ q.type = c.type /\ q.private = c.private
      /\ q.public = c.public /\ q.access = c.access /\ q.refresh = c.refresh /\ q.got = token
  <2> HIDE DEF q1
  <2> QED BY <1>2 DEF CallRecords
<1>4. sessionCalls' = [sessionCalls EXCEPT ![<<p, th>>] = q]
  BY <1>1 DEF Reply
<1> QED BY <1>1, <1>3, <1>4, CallReplacing DEF Replied

LEMMA NoRequestType == NoRequest \in CallRecords /\ NoRequest.type = "none" /\ NoRequest.stage = "none"
BY DEF NoRequest, CallRecords, CallTypes, CallStages, NoToken

LEMMA AskingCall ==
  ASSUME NEW type \in CallTypes
  PROVE  Asks(type) \in CallRecords /\ Asks(type).type = type /\ Asks(type).stage = "key"
BY DEF Asks, NoRequest, CallRecords, CallTypes, CallStages, NoToken

LEMMA Resting ==
  ASSUME SessionTypes, NEW p \in BrowserTabs, NEW th \in Threads, Rested(p, th)
  PROVE  CallReplaced(p, th, NoRequest)
BY NoRequestType, CallReplacing DEF Rested

\* A new token is not among those there are.
LEMMA Issuing ==
  ASSUME SessionTypes, NEW q \in CallRecords, Issue(q)
  PROVE  /\ issued' = issued + 1 /\ boundTo' \in [1..issued' -> Nat] /\ issued' \in Nat
         /\ boundTo'[issued + 1] = q.public /\ issued + 1 \in DOMAIN boundTo' /\ issued + 1 \notin DOMAIN boundTo
         /\ \A n \in DOMAIN boundTo : n \in DOMAIN boundTo' /\ boundTo'[n] = boundTo[n]
<1>1. PICK k \in Nat : k = issued
  BY DEF SessionTypes
<1>2. q.public \in Nat
  BY DEF CallRecords
<1>3. boundTo' \in [1..(k + 1) -> Nat] /\ boundTo \in [1..k -> Nat]
  BY <1>1, <1>2 DEF Issue, SessionTypes
<1>4. issued' = k + 1
  <2>1. DOMAIN boundTo' = 1..(k + 1) /\ k + 1 \in Int /\ 1 \in Int
    BY <1>3
  <2>2. Cardinality(1..(k + 1)) = k + 1
    BY <2>1, FS_Interval
  <2> QED BY <2>1, <2>2 DEF issued
<1>5. boundTo'[k + 1] = q.public /\ \A n \in 1..k : boundTo'[n] = boundTo[n]
  BY <1>1 DEF Issue
<1> QED BY <1>1, <1>3, <1>4, <1>5

-----------------------------------------------------------------------------
\* What follows is about the one tab that is open.

\* A rotation that is cut leaves the old session and an orphan, or the new one.
LEMMA CutKeepsCount ==
  ASSUME SessionTypes, OrphanInv, NEW p \in BrowserTabs, ThreadsInv(p), CountInv(p),
         NEW calls \in SUBSET ({p} \X Threads), <<p, "load">> \in calls,
         NEW revoked \in SUBSET OldSessions(calls), EndRotations(calls, revoked),
         logins' = logins, ~HalfRotated(p)'
  PROVE  CountInv(p)'
<1> DEFINE q == sessionCalls[p, "load"]
           old == q.refresh
           new == q.got
<1>1. ~HalfRotated(p)' /\ IsFiniteSet(InUse) /\ Cardinality(InUse) \in Nat /\ logins \in Nat
  BY FS_CardinalityType DEF HalfRotated, CountInv, SessionTypes
<1>2. <<p, "load">> \in Callers /\ sessionCalls[p, "user"].stage # "issued"
  BY DEF Callers, Threads, ThreadsInv
<1>3. Rotating(calls) = IF q.stage = "issued" THEN {<<p, "load">>} ELSE {}
  <2>1. \A c \in calls : \E th \in {"load", "user"} : c = <<p, th>>
    BY DEF Threads
  <2>2. \A c \in calls : c = <<p, "load">> \/ c = <<p, "user">>
    BY <2>1
  <2> QED BY <1>2, <2>2 DEF Rotating
<1>4. SUFFICES IsFiniteSet(InUse') /\ Cardinality(InUse') \in Nat /\ Cardinality(InUse') <= logins
  BY <1>1 DEF CountInv
<1>5. CASE ~HalfRotated(p)
  <2>1. live' = live /\ orphans' = orphans
    <3>1. OldSessions(calls) \cap live = {}
      BY <1>3, <1>5 DEF OldSessions, HalfRotated
    <3>2. {c \in Rotating(calls) : sessionCalls[c].refresh \in live \ revoked} = {}
      BY <1>3, <1>5 DEF HalfRotated
    <3> QED BY <3>1, <3>2 DEF EndRotations
  <2> QED BY <1>1, <1>5, <2>1 DEF CountInv, InUse
<1>6. CASE HalfRotated(p)
  <2>1. Rotating(calls) = {<<p, "load">>} /\ <<p, "load">> \in Rotating(Callers) /\ old \in live
    BY <1>2, <1>3, <1>6 DEF HalfRotated, Rotating
  <2>2. old \in InUse /\ new \in InUse
    BY <1>2, <2>1 DEF OrphanInv, NoOrphan, NewAlone, InUse
  <2>3. PICK gone \in InUse : InUse' = InUse \ {gone}
    <3>1. CASE old \in revoked
      <4>1. revoked = {old}
        BY <2>1, <3>1 DEF OldSessions
      <4>2. {c \in Rotating(calls) : sessionCalls[c].refresh \in live \ revoked} = {}
        BY <2>1, <4>1
      <4>3. live' = live \ {old} /\ orphans' = orphans
        BY <4>1, <4>2 DEF EndRotations
      <4> QED BY <2>2, <4>3 DEF InUse
    <3>2. CASE old \notin revoked
      <4>1. revoked = {}
        BY <2>1, <3>2 DEF OldSessions
      <4>2. {c \in Rotating(calls) : sessionCalls[c].refresh \in live \ revoked} = {<<p, "load">>}
        BY <2>1, <4>1
      <4>3. live' = live /\ orphans' = orphans \cup {new}
        BY <4>1, <4>2 DEF EndRotations
      <4> QED BY <2>2, <4>3 DEF InUse
    <3> QED BY <3>1, <3>2
  <2>4. IsFiniteSet(InUse \ {gone}) /\ Cardinality(InUse \ {gone}) = Cardinality(InUse) - 1
    BY <1>1, <2>3, FS_RemoveElement
  <2>5. Cardinality(InUse \ {gone}) \in Nat
    BY <2>4, FS_CardinalityType
  <2> HIDE DEF q, old, new
  <2> QED BY <1>1, <2>3, <2>4, <2>5 DEF CountInv
<1> QED BY <1>5, <1>6

\* A session that is revoked is in use or was none.
LEMMA RevokeKeepsCount ==
  ASSUME SessionTypes, NEW p \in BrowserTabs, CountInv(p), NEW old, old \notin orphans,
         live' = live \ {old}, UNCHANGED <<orphans, logins>>, HalfRotated(p) => HalfRotated(p)' \/ old \in live
  PROVE  CountInv(p)'
<1>1. IsFiniteSet(InUse) /\ Cardinality(InUse) \in Nat /\ logins \in Nat
  BY FS_CardinalityType DEF CountInv, SessionTypes
<1>2. InUse' = InUse \ {old}
  BY DEF InUse
<1>3. /\ IsFiniteSet(InUse')
      /\ Cardinality(InUse') = IF old \in InUse THEN Cardinality(InUse) - 1 ELSE Cardinality(InUse)
  BY <1>1, <1>2, FS_RemoveElement
<1>4. old \in InUse <=> old \in live
  BY DEF InUse
<1> QED BY <1>1, <1>3, <1>4 DEF CountInv

\* A session that is stored is in use.
LEMMA IssueKeepsCount ==
  ASSUME SessionTypes, OrphanInv, NEW p \in BrowserTabs, CountInv(p), NEW n, n \notin DOMAIN boundTo,
         live \subseteq DOMAIN boundTo, live' = live \cup {n}, orphans' = orphans,
         \/ logins' = logins + 1 /\ (HalfRotated(p) => HalfRotated(p)')
         \/ logins' = logins /\ ~HalfRotated(p) /\ HalfRotated(p)'
  PROVE  CountInv(p)'
<1>1. IsFiniteSet(InUse) /\ Cardinality(InUse) \in Nat /\ logins \in Nat
  BY FS_CardinalityType DEF CountInv, SessionTypes
<1>2. InUse' = InUse \cup {n} /\ n \notin InUse
  BY DEF InUse, OrphanInv
<1>3. IsFiniteSet(InUse') /\ Cardinality(InUse') = Cardinality(InUse) + 1
  BY <1>1, <1>2, FS_AddElement
<1> QED BY <1>1, <1>3 DEF CountInv

LEMMA OpenKeepsTab ==
  ASSUME SessionTypes, OrphanInv, NEW p \in BrowserTabs, TabInv(p), OpenPage(p)
  PROVE  TabInv(p)'
<1> DEFINE ask == Asks("refresh")
<1>1. /\ sessionCalls'[p, "load"] = ask /\ sessionCalls'[p, "user"] = NoRequest
      /\ keygen'[p, "load"] = 0 /\ keygen'[p, "user"] = 0 /\ pages'[p].shows = "loading"
      /\ UNCHANGED <<keyStore, boundTo, logins, hasty, cookies>>
  <2>1. <<p, "load">> \in Callers /\ <<p, "user">> \in Callers /\ <<p, "load">> # <<p, "user">>
    BY DEF Callers, Threads
  <2> QED BY <2>1 DEF OpenPage, SessionTypes, keyVars
<1>2. ask.type = "refresh" /\ ask.stage = "key" /\ NoRequest.type = "none" /\ NoRequest.stage = "none"
  BY AskingCall, NoRequestType DEF CallTypes
<1>3. ThreadsInv(p)'
  BY <1>1, <1>2 DEF ThreadsInv, Threads
<1>4. KeysInv(p)'
  BY <1>1, <1>2 DEF TabInv, KeysInv, Threads
<1>5. CountInv(p)'
  <2>1. PICK revoked \in SUBSET OldSessions({p} \X Threads) : EndRotations({p} \X Threads, revoked)
    BY DEF OpenPage
  <2>2. <<p, "load">> \in {p} \X Threads
    BY DEF Threads
  <2>3. ~HalfRotated(p)'
    BY <1>1, <1>2 DEF HalfRotated
  <2> QED BY <1>1, <2>1, <2>2, <2>3, CutKeepsCount DEF TabInv
<1>6. PageInv(p)'
  BY <1>1, <1>2 DEF PageInv
<1> QED BY <1>3, <1>4, <1>5, <1>6 DEF TabInv

LEMMA ActKeepsTab ==
  ASSUME SessionTypes, NEW p \in BrowserTabs, TabInv(p), LogIn(p) \/ Use(p)
  PROVE  TabInv(p)'
<1>1. PICK type \in {"login", "work", "verify", "logout"} :
        Act(p, type) /\ (type = "login" => pages[p].shows \in {"loading", "login"})
                     /\ (type # "login" => pages[p].shows = "home")
  BY DEF LogIn, Use
<1> DEFINE ask == Asks(type)
<1>2. ask \in CallRecords /\ ask.type = type /\ ask.stage = "key"
  BY AskingCall DEF CallTypes
<1>3. CallReplaced(p, "user", ask)
  BY <1>1, <1>2, CallReplacing DEF Act, Threads
<1> HIDE DEF ask
<1>4. /\ sessionCalls'[p, "load"] = sessionCalls[p, "load"] /\ sessionCalls'[p, "user"] = ask
      /\ UNCHANGED <<pages, keygen, keyStore, boundTo, cookies, live, orphans, logins>>
      /\ hasty' = (hasty \/ sessionCalls[p, "load"].type # "none")
      /\ sessionCalls[p, "user"].type = "none"
  BY <1>1, <1>3 DEF Act, CallReplaced, Threads, keyVars, serverVars
<1>5. ThreadsInv(p)'
  BY <1>2, <1>4 DEF TabInv, ThreadsInv, Threads
<1>6. KeysInv(p)'
  BY <1>2, <1>4 DEF TabInv, KeysInv, Threads
<1>7. CountInv(p)'
  BY <1>4 DEF TabInv, CountInv, InUse, HalfRotated
<1>8. ~hasty' => PageInv(p)'
  <2> SUFFICES ASSUME ~hasty' PROVE PageInv(p)'
    OBVIOUS
  <2>1. ~hasty /\ sessionCalls[p, "load"].type = "none" /\ PageInv(p)
    BY <1>4 DEF TabInv
  <2>2. SignedIn(p) => SignedIn(p)'
    BY <1>4 DEF SignedIn
  <2> QED BY <1>1, <1>2, <1>4, <2>1, <2>2 DEF PageInv
<1> QED BY <1>5, <1>6, <1>7, <1>8 DEF TabInv

\* A request goes on to its next stage and nothing else happens.
LEMMA StageKeepsTab ==
  ASSUME SessionTypes, NEW p \in BrowserTabs, NEW th \in Threads, TabInv(p),
         NEW q \in CallRecords, CallReplaced(p, th, q), q.type = sessionCalls[p, th].type,
         sessionCalls[p, th].stage \in {"key", "proved", "sent"}, q.stage \in {"proved", "sent", "refused"},
         q.public = keyStore.public, q.public # 0,
         UNCHANGED <<pages, keyVars, serverVars, hasty>>
  PROVE  TabInv(p)'
<1>1. /\ sessionCalls'[p, th] = q /\ \A t \in Threads : t # th => sessionCalls'[p, t] = sessionCalls[p, t]
      /\ UNCHANGED <<pages, keygen, keyStore, boundTo, cookies, live, orphans, logins, hasty>>
  BY DEF CallReplaced, keyVars, serverVars
<1>2. ThreadsInv(p)'
  BY <1>1 DEF TabInv, ThreadsInv, Threads
<1>3. KeysInv(p)'
  BY <1>1 DEF TabInv, KeysInv, Threads
<1>4. CountInv(p)'
  BY <1>1 DEF TabInv, CountInv, InUse, HalfRotated, Threads
<1>5. ~hasty' => PageInv(p)'
  <2>0. SUFFICES ASSUME ~hasty' PROVE PageInv(p)'
    OBVIOUS
  <2>1a. hasty' = hasty
    BY <1>1
  <2>1b. ~hasty
    BY ONLY <2>0, <2>1a
  <2>1. SignedIn(p) => SignedIn(p)'
    BY <1>1 DEF SignedIn
  <2> QED BY <1>1, <2>1b, <2>1 DEF TabInv, PageInv, Granted, Threads
<1> QED BY <1>2, <1>3, <1>4, <1>5 DEF TabInv

LEMMA ProvedRecord ==
  ASSUME SessionTypes, NEW p \in BrowserTabs, NEW th \in Threads, Prove(p, th)
  PROVE  \E q \in CallRecords :
           /\ sessionCalls' = [sessionCalls EXCEPT ![<<p, th>>] = q]
           /\ q.stage = "proved" /\ q.type = sessionCalls[p, th].type /\ q.public = keyStore.public
           /\ q.refresh = sessionCalls[p, th].refresh /\ q.got = sessionCalls[p, th].got
<1>1. PICK c \in CallRecords : c = sessionCalls[p, th]
  BY CallType
<1> DEFINE q1 == [c EXCEPT !.stage = "proved"]
           q2 == [q1 EXCEPT !.private = keyStore.private]
           q3 == [q2 EXCEPT !.public = keyStore.public]
           q == [q3 EXCEPT !.ath = pages[p].token]
<1>2. keyStore.private \in Nat /\ keyStore.public \in Nat \ {0} /\ pages[p].token \in Nat
  BY DEF SessionTypes, Prove
<1>3. q1 \in CallRecords /\ q1.stage = "proved" /\ q1.type = c.type /\ q1.refresh = c.refresh /\ q1.got = c.got
  BY DEF CallRecords, CallStages
<1>4. q2 \in CallRecords /\ q2.stage = "proved" /\ q2.type = c.type /\ q2.refresh = c.refresh /\ q2.got = c.got
  <2> HIDE DEF q1
  <2> QED BY <1>2, <1>3 DEF CallRecords
<1>5. /\ q3 \in CallRecords /\ q3.stage = "proved" /\ q3.type = c.type /\ q3.public = keyStore.public
      /\ q3.refresh = c.refresh /\ q3.got = c.got
  <2> HIDE DEF q2
  <2> QED BY <1>2, <1>4 DEF CallRecords
<1>6. /\ q \in CallRecords /\ q.stage = "proved" /\ q.type = c.type /\ q.public = keyStore.public
      /\ q.refresh = c.refresh /\ q.got = c.got
  <2> HIDE DEF q3
  <2> QED BY <1>2, <1>5 DEF CallRecords
<1>7. sessionCalls' = [sessionCalls EXCEPT ![<<p, th>>] = q]
  BY <1>1 DEF Prove
<1> HIDE DEF q
<1> QED BY <1>1, <1>6, <1>7

LEMMA SentRecord ==
  ASSUME SessionTypes, NEW p \in BrowserTabs, NEW th \in Threads, SendCall(p, th)
  PROVE  \E q \in CallRecords :
           /\ sessionCalls' = [sessionCalls EXCEPT ![<<p, th>>] = q]
           /\ q.stage = "sent" /\ q.type = sessionCalls[p, th].type /\ q.public = sessionCalls[p, th].public
           /\ q.refresh = cookies.refresh /\ q.got = sessionCalls[p, th].got
<1>1. PICK c \in CallRecords : c = sessionCalls[p, th]
  BY CallType
<1> DEFINE q1 == [c EXCEPT !.stage = "sent"]
           q2 == [q1 EXCEPT !.access = cookies.access]
           q == [q2 EXCEPT !.refresh = cookies.refresh]
<1>2. cookies.access \in Nat /\ cookies.refresh \in Nat
  BY DEF SessionTypes
<1>3. q1 \in CallRecords /\ q1.stage = "sent" /\ q1.type = c.type /\ q1.public = c.public /\ q1.got = c.got
  BY DEF CallRecords, CallStages
<1>4. q2 \in CallRecords /\ q2.stage = "sent" /\ q2.type = c.type /\ q2.public = c.public /\ q2.got = c.got
  <2> HIDE DEF q1
  <2> QED BY <1>2, <1>3 DEF CallRecords
<1>5. /\ q \in CallRecords /\ q.stage = "sent" /\ q.type = c.type /\ q.public = c.public
      /\ q.got = c.got /\ q.refresh = cookies.refresh
  <2> HIDE DEF q2
  <2> QED BY <1>2, <1>4 DEF CallRecords
<1>6. sessionCalls' = [sessionCalls EXCEPT ![<<p, th>>] = q]
  BY <1>1 DEF SendCall
<1> HIDE DEF q
<1> QED BY <1>1, <1>5, <1>6

LEMMA ProveKeepsTab ==
  ASSUME SessionTypes, NEW p \in BrowserTabs, NEW th \in Threads, TabInv(p), Prove(p, th)
  PROVE  TabInv(p)'
<1>1. PICK q \in CallRecords :
        /\ sessionCalls' = [sessionCalls EXCEPT ![<<p, th>>] = q]
        /\ q.stage = "proved" /\ q.type = sessionCalls[p, th].type /\ q.public = keyStore.public
  BY ProvedRecord
<1>2. CallReplaced(p, th, q)
  BY <1>1, CallReplacing
<1>3. sessionCalls[p, th].stage = "key" /\ keyStore.public # 0 /\ UNCHANGED <<pages, keyVars, serverVars, hasty>>
  BY DEF Prove
<1> QED BY <1>1, <1>2, <1>3, StageKeepsTab

LEMMA SendKeepsTab ==
  ASSUME SessionTypes, NEW p \in BrowserTabs, NEW th \in Threads, TabInv(p), SendCall(p, th)
  PROVE  TabInv(p)'
<1>1. PICK q \in CallRecords :
        /\ sessionCalls' = [sessionCalls EXCEPT ![<<p, th>>] = q]
        /\ q.stage = "sent" /\ q.type = sessionCalls[p, th].type /\ q.public = sessionCalls[p, th].public
  BY SentRecord
<1>2. CallReplaced(p, th, q)
  BY <1>1, CallReplacing
<1>3. sessionCalls[p, th].stage = "proved" /\ UNCHANGED <<pages, keyVars, serverVars, hasty>>
  BY DEF SendCall
<1>4. q.public = keyStore.public /\ q.public # 0
  BY <1>1, <1>3 DEF TabInv, KeysInv
<1> QED BY <1>1, <1>2, <1>3, <1>4, StageKeepsTab

LEMMA RefuseKeepsTab ==
  ASSUME SessionTypes, NEW p \in BrowserTabs, NEW th \in Threads, TabInv(p), ServeRefused(p, th)
  PROVE  TabInv(p)'
<1>1. sessionCalls[p, th].stage = "sent" /\ UNCHANGED <<pages, keyVars, serverVars, hasty>>
  BY DEF ServeRefused
<1>2. PICK q \in CallRecords : Replied(p, th, q, "refused", 0)
  <2>1. Reply(p, th, "refused", 0) /\ "refused" \in CallStages /\ 0 \in Nat
    BY DEF ServeRefused, NoToken, CallStages
  <2> QED BY <2>1, Replying
<1>3. q.public = keyStore.public /\ q.public # 0
  BY <1>1, <1>2 DEF TabInv, KeysInv, Replied
<1> QED BY <1>1, <1>2, <1>3, StageKeepsTab DEF Replied

\* Storing a key pair: nobody has used one before.
LEMMA KeyKeepsTab ==
  ASSUME SessionTypes, NEW p \in BrowserTabs, NEW th \in Threads, TabInv(p),
         GenerateKey(p, th) \/ StorePrivate(p, th) \/ StorePublic(p, th)
  PROVE  TabInv(p)'
<1>1. /\ UNCHANGED <<pages, sessionCalls, boundTo, cookies, live, orphans, logins, hasty>>
      /\ \A t \in Threads : t # th => keygen'[p, t] = keygen[p, t]
  <2>1. \A t \in Threads : t # th => <<p, t>> # <<p, th>> /\ <<p, t>> \in Callers
    BY DEF Callers
  <2> QED BY <2>1 DEF GenerateKey, StorePrivate, StorePublic, serverVars, SessionTypes
<1>2. <<p, th>> \in Callers /\ keygen[p, th] \in Nat /\ keyStore \in [private : Nat, public : Nat]
  BY DEF Callers, SessionTypes
<1>3. keyStore.public = 0
  BY <1>2 DEF TabInv, KeysInv, GenerateKey, StorePrivate, StorePublic, Threads
<1>4. \A t \in Threads : sessionCalls[p, t].stage \in {"none", "key"}
  BY <1>3 DEF TabInv, KeysInv
<1>5. KeysInv(p)'
  <2>1. CASE GenerateKey(p, th)
    <3>1. keyStore' = keyStore /\ \A t \in Threads : keygen[p, t] = 0
      BY <2>1 DEF GenerateKey
    <3> QED BY <1>1, <1>3, <1>4, <3>1 DEF KeysInv, Threads
  <2>2. CASE StorePrivate(p, th)
    <3>1. keyStore'.public = 0 /\ keygen' = keygen
      BY <1>2, <1>3, <2>2 DEF StorePrivate
    <3> QED BY <1>1, <1>4, <3>1 DEF TabInv, KeysInv
  <2>3. CASE StorePublic(p, th)
    <3>1. /\ keyStore'.private = keygen[p, th] /\ keyStore'.public = keygen[p, th]
          /\ keygen'[p, th] = 0 /\ keygen[p, th] # 0
      BY <1>2, <2>3 DEF StorePublic, SessionTypes
    <3>2. \A t \in Threads : keygen'[p, t] = 0
      BY <1>1, <3>1 DEF TabInv, KeysInv, Threads
    <3> QED BY <1>1, <1>4, <3>1, <3>2 DEF KeysInv, Threads
  <2> QED BY <2>1, <2>2, <2>3
<1>6. ThreadsInv(p)' /\ CountInv(p)'
  BY <1>1 DEF TabInv, ThreadsInv, CountInv, InUse, HalfRotated
<1>7. ~hasty' => PageInv(p)'
  <2>1. ~SignedIn(p)
    BY <1>3 DEF SignedIn
  <2> QED BY <1>1, <2>1 DEF TabInv, PageInv, Granted
<1> QED BY <1>5, <1>6, <1>7 DEF TabInv

\* Logging in adds a session, and a login.
LEMMA ServeLoginKeepsTab ==
  ASSUME SessionTypes, OrphanInv, live \subseteq DOMAIN boundTo,
         NEW p \in BrowserTabs, NEW th \in Threads, TabInv(p), ServeLogin(p, th)
  PROVE  TabInv(p)'
<1>1. PICK c \in CallRecords : c = sessionCalls[p, th]
  BY CallType
<1>2. PICK n \in Nat : n = issued + 1
  BY DEF SessionTypes
<1>3. /\ c.stage = "sent" /\ c.type = "login" /\ Issue(c) /\ live' = live \cup {n}
      /\ Reply(p, th, "ok", n) /\ logins' = logins + 1
      /\ UNCHANGED <<pages, keygen, keyStore, cookies, hasty>>
  BY <1>1, <1>2 DEF ServeLogin, keyVars
<1>4. th = "user" /\ "ok" \in CallStages
  BY <1>1, <1>3 DEF TabInv, ThreadsInv, Threads, CallStages
<1>5. PICK q \in CallRecords : Replied(p, th, q, "ok", n)
  BY <1>3, <1>4, Replying
<1>6. /\ sessionCalls'[p, "user"] = q /\ sessionCalls'[p, "load"] = sessionCalls[p, "load"]
      /\ q.type = "login" /\ q.stage = "ok" /\ q.got = n /\ q.public = c.public
  BY <1>1, <1>3, <1>4, <1>5 DEF Replied, CallReplaced, Threads
<1>7. /\ n \in DOMAIN boundTo' /\ n \notin DOMAIN boundTo /\ boundTo'[n] = c.public
      /\ \A m \in DOMAIN boundTo : m \in DOMAIN boundTo' /\ boundTo'[m] = boundTo[m]
  BY <1>2, <1>3, Issuing
<1>8. ThreadsInv(p)'
  BY <1>6 DEF TabInv, ThreadsInv, Threads
<1>9. KeysInv(p)'
  BY <1>1, <1>3, <1>4, <1>6 DEF TabInv, KeysInv, Threads
<1>10. CountInv(p)'
  <2>1. HalfRotated(p) => HalfRotated(p)'
    BY <1>3, <1>6 DEF HalfRotated
  <2>2. live' = live \cup {n} /\ orphans' = orphans /\ logins' = logins + 1 /\ n \notin DOMAIN boundTo /\ CountInv(p)
    BY <1>2, <1>3, <1>7 DEF ServeLogin, TabInv
  <2> QED BY <2>1, <2>2, IssueKeepsCount
<1>11. ~hasty' => PageInv(p)'
  <2>0. SUFFICES ASSUME ~hasty' PROVE PageInv(p)'
    OBVIOUS
  <2>1. hasty' = hasty
    BY <1>3
  <2>2. ~hasty
    BY ONLY <2>0, <2>1
  <2>3. PageInv(p) /\ sessionCalls[p, "load"].type = "none"
    BY <1>1, <1>3, <1>4, <2>2 DEF TabInv, PageInv
  <2>4. SignedIn(p) => SignedIn(p)'
    BY <1>3, <1>7 DEF SignedIn
  <2>5. Granted(q)'
    BY <1>3, <1>6, <1>7 DEF Granted
  <2>6. pages[p].shows = "login"
    BY <1>1, <1>3, <1>4, <2>3 DEF PageInv
  <2> QED BY <1>3, <1>6, <2>3, <2>4, <2>5, <2>6 DEF PageInv
<1> QED BY <1>8, <1>9, <1>10, <1>11 DEF TabInv

\* Rotation adds a session while the old one is still there.
LEMMA ServeRefreshKeepsTab ==
  ASSUME SessionTypes, OrphanInv, live \subseteq DOMAIN boundTo,
         NEW p \in BrowserTabs, NEW th \in Threads, TabInv(p), ServeRefresh(p, th)
  PROVE  TabInv(p)'
<1>1. PICK c \in CallRecords : c = sessionCalls[p, th]
  BY CallType
<1>2. PICK n \in Nat : n = issued + 1
  BY DEF SessionTypes
<1>3. /\ c.stage = "sent" /\ c.type = "refresh" /\ c.refresh \in live /\ Issue(c) /\ live' = live \cup {n}
      /\ Reply(p, th, "issued", n)
      /\ UNCHANGED <<pages, keygen, keyStore, cookies, logins, hasty>>
  BY <1>1, <1>2 DEF ServeRefresh, Accepts, keyVars
<1>4. th = "load" /\ "issued" \in CallStages
  BY <1>1, <1>3 DEF TabInv, ThreadsInv, Threads, CallStages
<1>5. PICK q \in CallRecords : Replied(p, th, q, "issued", n)
  BY <1>3, <1>4, Replying
<1>6. /\ sessionCalls'[p, "load"] = q /\ sessionCalls'[p, "user"] = sessionCalls[p, "user"]
      /\ q.type = "refresh" /\ q.stage = "issued" /\ q.got = n /\ q.public = c.public /\ q.refresh = c.refresh
  BY <1>1, <1>3, <1>4, <1>5 DEF Replied, CallReplaced, Threads
<1>7. /\ n \in DOMAIN boundTo' /\ n \notin DOMAIN boundTo /\ boundTo'[n] = c.public
      /\ \A m \in DOMAIN boundTo : m \in DOMAIN boundTo' /\ boundTo'[m] = boundTo[m]
  BY <1>2, <1>3, Issuing
<1>8. ThreadsInv(p)'
  <2>1. LET u == sessionCalls[p, "user"] IN
          u.type \in {"none", "login", "work", "verify", "logout"} /\ (u.type = "none" <=> u.stage = "none") /\ u.stage # "issued"
    BY DEF TabInv, ThreadsInv, Threads
  <2>2. q.got # q.refresh
    BY <1>3, <1>6, <1>7
  <2> QED BY <1>6, <2>1, <2>2 DEF ThreadsInv, Threads
<1>9. KeysInv(p)'
  BY <1>1, <1>3, <1>4, <1>6 DEF TabInv, KeysInv, Threads
<1>10. CountInv(p)'
  <2>1. ~HalfRotated(p) /\ HalfRotated(p)'
    BY <1>1, <1>3, <1>4, <1>6 DEF HalfRotated
  <2>2. live' = live \cup {n} /\ orphans' = orphans /\ logins' = logins /\ n \notin DOMAIN boundTo /\ CountInv(p)
    BY <1>2, <1>3, <1>7 DEF ServeRefresh, TabInv
  <2> QED BY <2>1, <2>2, IssueKeepsCount
<1>11. ~hasty' => PageInv(p)'
  <2>0. SUFFICES ASSUME ~hasty' PROVE PageInv(p)'
    OBVIOUS
  <2>1. hasty' = hasty
    BY <1>3
  <2>2. ~hasty
    BY ONLY <2>0, <2>1
  <2>3. /\ PageInv(p) /\ sessionCalls[p, "user"].type = "none" /\ pages[p].shows = "loading"
    BY <1>1, <1>3, <1>4, <2>2 DEF TabInv, PageInv
  <2>4. Granted(q)'
    BY <1>3, <1>6, <1>7 DEF Granted
  <2> QED BY <1>3, <1>6, <2>3, <2>4 DEF PageInv
<1> QED BY <1>8, <1>9, <1>10, <1>11 DEF TabInv

\* The end of a rotation, or of a session.
LEMMA RevokeKeepsTab ==
  ASSUME SessionTypes, OrphanInv, NEW p \in BrowserTabs, NEW th \in Threads, TabInv(p), RevokeOld(p, th)
  PROVE  TabInv(p)'
<1>1. PICK c \in CallRecords : c = sessionCalls[p, th]
  BY CallType
<1>2. /\ c.stage = "issued" /\ live' = live \ {c.refresh} /\ Reply(p, th, "ok", c.got)
      /\ UNCHANGED <<pages, keygen, keyStore, cookies, boundTo, logins, hasty>>
  BY <1>1 DEF RevokeOld, keyVars
<1>3. th = "load" /\ c.type = "refresh" /\ c.got # c.refresh /\ "ok" \in CallStages /\ c.got \in Nat
  BY <1>1, <1>2 DEF TabInv, ThreadsInv, Threads, CallStages, CallRecords
<1>4. PICK q \in CallRecords : Replied(p, th, q, "ok", c.got)
  BY <1>2, <1>3, Replying
<1>5. /\ sessionCalls'[p, "load"] = q /\ sessionCalls'[p, "user"] = sessionCalls[p, "user"]
      /\ q.type = "refresh" /\ q.stage = "ok" /\ q.got = c.got /\ q.public = c.public
  BY <1>1, <1>3, <1>4 DEF Replied, CallReplaced, Threads
<1>6. ThreadsInv(p)'
  <2>1. LET u == sessionCalls[p, "user"] IN
          u.type \in {"none", "login", "work", "verify", "logout"} /\ (u.type = "none" <=> u.stage = "none") /\ u.stage # "issued"
    BY DEF TabInv, ThreadsInv, Threads
  <2> QED BY <1>5, <2>1 DEF ThreadsInv, Threads
<1>7. KeysInv(p)'
  <2>1. KeysInv(p) /\ UNCHANGED <<keyStore, keygen>>
    BY <1>2 DEF TabInv
  <2>2. c.public = keyStore.public /\ c.public # 0
    BY <1>1, <1>2, <2>1 DEF KeysInv
  <2> QED BY <1>5, <2>1, <2>2 DEF KeysInv, Threads
<1>8. CountInv(p)'
  <2>1. HalfRotated(p) => c.refresh \in live
    BY <1>1, <1>2, <1>3 DEF HalfRotated
  <2>2. c.refresh \notin orphans
    BY <1>1 DEF OrphanInv, NoOrphan, Callers
  <2>3. live' = live \ {c.refresh} /\ UNCHANGED <<orphans, logins>> /\ CountInv(p)
    BY <1>2 DEF RevokeOld, TabInv
  <2> QED BY <2>1, <2>2, <2>3, RevokeKeepsCount
<1>9. ~hasty' => PageInv(p)'
  <2>0. SUFFICES ASSUME ~hasty' PROVE PageInv(p)'
    OBVIOUS
  <2>1. hasty' = hasty
    BY <1>2
  <2>2. ~hasty
    BY ONLY <2>0, <2>1
  <2>3. /\ PageInv(p) /\ sessionCalls[p, "user"].type = "none" /\ pages[p].shows = "loading" /\ Granted(c)
    BY <1>1, <1>2, <1>3, <2>2 DEF TabInv, PageInv
  <2>4. Granted(q)'
    BY <1>2, <1>3, <1>5, <2>3 DEF Granted
  <2> QED BY <1>2, <1>5, <2>3, <2>4 DEF PageInv
<1> QED BY <1>6, <1>7, <1>8, <1>9 DEF TabInv

LEMMA ServeLogoutKeepsTab ==
  ASSUME SessionTypes, OrphanInv, NEW p \in BrowserTabs, NEW th \in Threads, TabInv(p), ServeLogout(p, th)
  PROVE  TabInv(p)'
<1>1. PICK c \in CallRecords : c = sessionCalls[p, th]
  BY CallType
<1>2. /\ c.stage = "sent" /\ c.type = "logout" /\ live' = live \ {c.refresh} /\ Reply(p, th, "ok", 0)
      /\ UNCHANGED <<pages, keygen, keyStore, cookies, boundTo, logins, hasty>>
  BY <1>1 DEF ServeLogout, keyVars, NoToken
<1>3. th = "user" /\ "ok" \in CallStages /\ 0 \in Nat
  BY <1>1, <1>2 DEF TabInv, ThreadsInv, Threads, CallStages
<1>4. PICK q \in CallRecords : Replied(p, th, q, "ok", 0)
  BY <1>2, <1>3, Replying
<1>5. /\ sessionCalls'[p, "user"] = q /\ sessionCalls'[p, "load"] = sessionCalls[p, "load"]
      /\ q.type = "logout" /\ q.stage = "ok" /\ q.public = c.public
  BY <1>1, <1>2, <1>3, <1>4 DEF Replied, CallReplaced, Threads
<1>6. ThreadsInv(p)'
  BY <1>5 DEF TabInv, ThreadsInv, Threads
<1>7. KeysInv(p)'
  BY <1>1, <1>2, <1>3, <1>5 DEF TabInv, KeysInv, Threads
<1>8. CountInv(p)'
  <2>1. HalfRotated(p) => HalfRotated(p)' \/ c.refresh \in live
    BY <1>2, <1>5 DEF HalfRotated
  <2>2. c.refresh \notin orphans
    BY <1>1 DEF OrphanInv, NoOrphan, Callers
  <2>3. live' = live \ {c.refresh} /\ UNCHANGED <<orphans, logins>> /\ CountInv(p)
    BY <1>2 DEF ServeLogout, TabInv
  <2> QED BY <2>1, <2>2, <2>3, RevokeKeepsCount
<1>9. ~hasty' => PageInv(p)'
  <2>0. SUFFICES ASSUME ~hasty' PROVE PageInv(p)'
    OBVIOUS
  <2>1. hasty' = hasty
    BY <1>2
  <2>2. ~hasty
    BY ONLY <2>0, <2>1
  <2>3. PageInv(p) /\ sessionCalls[p, "load"].type = "none" /\ pages[p].shows = "home"
    BY <1>1, <1>2, <1>3, <2>2 DEF TabInv, PageInv
  <2> QED BY <1>2, <1>5, <2>3 DEF PageInv
<1> QED BY <1>6, <1>7, <1>8, <1>9 DEF TabInv

LEMMA ServeAdmittedKeepsTab ==
  ASSUME SessionTypes, live \subseteq DOMAIN boundTo,
         NEW p \in BrowserTabs, NEW th \in Threads, TabInv(p), ServeAdmitted(p, th)
  PROVE  TabInv(p)'
<1>1. PICK c \in CallRecords : c = sessionCalls[p, th]
  BY CallType
<1>2. PICK n \in Nat : n = issued + 1
  BY DEF SessionTypes
<1>3. PICK token \in Nat :
        /\ c.stage = "sent" /\ c.type \in {"me", "work", "verify"} /\ Reply(p, th, "ok", token)
        /\ IF c.type = "verify" THEN Issue(c) /\ token = n ELSE boundTo' = boundTo
        /\ UNCHANGED <<pages, keygen, keyStore, cookies, live, orphans, logins, hasty>>
  BY <1>1, <1>2 DEF ServeAdmitted, keyVars, NoToken
<1>4. PICK q \in CallRecords : Replied(p, th, q, "ok", token)
  BY <1>3, Replying DEF CallStages
<1>5. /\ sessionCalls'[p, th] = q /\ \A t \in Threads : t # th => sessionCalls'[p, t] = sessionCalls[p, t]
      /\ q.type = c.type /\ q.stage = "ok" /\ q.got = token /\ q.public = c.public
  BY <1>1, <1>4 DEF Replied, CallReplaced
<1>6. \A m \in DOMAIN boundTo : m \in DOMAIN boundTo' /\ boundTo'[m] = boundTo[m]
  BY <1>3, Issuing
<1>7. c.type = "verify" => token \in DOMAIN boundTo' /\ boundTo'[token] = c.public
  BY <1>2, <1>3, Issuing
<1>8. ThreadsInv(p)'
  BY <1>1, <1>3, <1>5 DEF TabInv, ThreadsInv, Threads
<1>9. KeysInv(p)'
  BY <1>1, <1>3, <1>5 DEF TabInv, KeysInv, Threads
<1>10. CountInv(p)'
  <2>1. CountInv(p) /\ UNCHANGED <<live, orphans, logins>>
    BY <1>3 DEF TabInv
  <2>2. HalfRotated(p)' = HalfRotated(p)
    <3>1. CASE th = "load"
      BY <1>1, <1>3, <1>5, <3>1 DEF HalfRotated
    <3>2. CASE th # "load"
      BY <1>3, <1>5, <3>2 DEF HalfRotated, Threads
    <3> QED BY <3>1, <3>2
  <2> QED BY <2>1, <2>2 DEF CountInv, InUse
<1>11. ~hasty' => PageInv(p)'
  <2>0. SUFFICES ASSUME ~hasty' PROVE PageInv(p)'
    OBVIOUS
  <2>1. hasty' = hasty
    BY <1>3
  <2>2. ~hasty
    BY ONLY <2>0, <2>1
  <2>3. PageInv(p)
    BY <2>2 DEF TabInv
  <2>4. SignedIn(p) => SignedIn(p)'
    BY <1>3, <1>6 DEF SignedIn
  <2>5. CASE th = "load"
    <3>1. c.type = "me" /\ sessionCalls[p, "user"].type = "none" /\ pages[p].shows = "loading" /\ SignedIn(p)
      BY <1>1, <1>3, <2>3, <2>5 DEF TabInv, ThreadsInv, PageInv
    <3>2. sessionCalls'[p, "load"] = q /\ sessionCalls'[p, "user"] = sessionCalls[p, "user"]
      BY <1>5, <2>5 DEF Threads
    <3> QED BY <1>3, <1>5, <2>4, <3>1, <3>2 DEF PageInv
  <2>6. CASE th = "user"
    <3>1. c.type \in {"work", "verify"} /\ sessionCalls[p, "load"].type = "none" /\ pages[p].shows = "home" /\ SignedIn(p)
      BY <1>1, <1>3, <2>3, <2>6 DEF TabInv, ThreadsInv, PageInv
    <3>2. sessionCalls'[p, "user"] = q /\ sessionCalls'[p, "load"] = sessionCalls[p, "load"]
      BY <1>5, <2>6 DEF Threads
    <3> QED BY <1>3, <1>5, <1>7, <2>4, <3>1, <3>2 DEF PageInv
  <2> QED BY <2>5, <2>6 DEF Threads
<1> QED BY <1>8, <1>9, <1>10, <1>11 DEF TabInv

\* A request that was refused, or that is lost.
LEMMA FailureKeepsTab ==
  ASSUME SessionTypes, OrphanInv, NEW p \in BrowserTabs, NEW th \in Threads, TabInv(p), Refused(p, th) \/ Lost(p, th)
  PROVE  TabInv(p)'
<1>1. PICK c \in CallRecords : c = sessionCalls[p, th]
  BY CallType
<1>2. /\ c.stage \in {"sent", "issued", "ok", "refused"} /\ Rested(p, th) /\ pages' = FailedPage(p, c.type)
      /\ UNCHANGED <<keygen, keyStore, cookies, boundTo, logins, hasty>>
  BY <1>1 DEF Refused, Lost, keyVars, serverVars
<1>3. /\ sessionCalls'[p, th] = NoRequest /\ \A t \in Threads : t # th => sessionCalls'[p, t] = sessionCalls[p, t]
      /\ NoRequest.type = "none" /\ NoRequest.stage = "none"
  BY <1>2, Resting, NoRequestType DEF CallReplaced
<1>4. /\ pages'[p].shows = IF c.type \in {"refresh", "me", "logout"} THEN "login" ELSE pages[p].shows
      /\ pages'[p].token = pages[p].token
  BY <1>2 DEF FailedPage, Show, SessionTypes
<1>5. ThreadsInv(p)'
  BY <1>3 DEF TabInv, ThreadsInv, Threads
<1>6. KeysInv(p)'
  BY <1>2, <1>3 DEF TabInv, KeysInv, Threads
<1>7. CountInv(p)' /\ (th = "user" => live' = live)
  <2>1. CASE Refused(p, th)
    <3>1. UNCHANGED <<live, orphans, logins>> /\ sessionCalls[p, th].stage = "refused"
      BY <2>1 DEF Refused, serverVars
    <3> QED BY <1>3, <3>1 DEF TabInv, CountInv, InUse, HalfRotated, Threads
  <2>2. CASE Lost(p, th)
    <3>1. PICK revoked \in SUBSET OldSessions({<<p, th>>}) : EndRotations({<<p, th>>}, revoked)
      BY <2>2 DEF Lost
    <3>2. CASE th = "load"
      <4>1. {<<p, th>>} \in SUBSET ({p} \X Threads) /\ <<p, "load">> \in {<<p, th>>}
        BY <3>2
      <4>2. ~HalfRotated(p)' /\ logins' = logins
        BY <1>2, <1>3, <3>2 DEF HalfRotated
      <4> QED BY <3>1, <3>2, <4>1, <4>2, CutKeepsCount DEF TabInv
    <3>3. CASE th = "user"
      <4>1. sessionCalls[<<p, th>>].stage # "issued"
        BY <3>3 DEF TabInv, ThreadsInv, Threads
      <4>2. Rotating({<<p, th>>}) = {}
        BY <4>1 DEF Rotating
      <4>3. OldSessions({<<p, th>>}) = {}
        BY <4>2 DEF OldSessions
      <4>4. live' = live /\ orphans' = orphans
        BY <3>1, <4>2, <4>3 DEF EndRotations
      <4>5. sessionCalls'[p, "load"] = sessionCalls[p, "load"]
        BY <1>3, <3>3 DEF Threads
      <4> QED BY <1>2, <4>4, <4>5 DEF TabInv, CountInv, InUse, HalfRotated
    <3> QED BY <3>2, <3>3 DEF Threads
  <2> QED BY <2>1, <2>2
<1>8. ~hasty' => PageInv(p)'
  <2>0. SUFFICES ASSUME ~hasty' PROVE PageInv(p)'
    OBVIOUS
  <2>1. hasty' = hasty
    BY <1>2
  <2>2. ~hasty
    BY ONLY <2>0, <2>1
  <2>3. PageInv(p)
    BY <2>2 DEF TabInv
  <2>4. th = "user" /\ SignedIn(p) => SignedIn(p)'
    BY <1>2, <1>4, <1>7 DEF SignedIn
  <2>5. CASE th = "load"
    <3>1. sessionCalls[p, "user"].type = "none" /\ pages'[p].shows = "login"
      BY <1>1, <1>2, <1>4, <2>3, <2>5 DEF TabInv, ThreadsInv, PageInv, Threads
    <3>2. sessionCalls'[p, "load"] = NoRequest /\ sessionCalls'[p, "user"] = sessionCalls[p, "user"]
      BY <1>3, <2>5 DEF Threads
    <3> QED BY <1>3, <3>1, <3>2 DEF PageInv
  <2>6. CASE th = "user"
    <3>1. /\ sessionCalls[p, "load"].type = "none" /\ c.type \in {"login", "work", "verify", "logout"}
          /\ c.type = "login" => pages[p].shows = "login"
          /\ c.type # "login" => pages[p].shows = "home"
      BY <1>1, <1>2, <2>3, <2>6 DEF TabInv, ThreadsInv, PageInv, Threads
    <3>2. sessionCalls'[p, "user"] = NoRequest /\ sessionCalls'[p, "load"] = sessionCalls[p, "load"]
      BY <1>3, <2>6 DEF Threads
    <3>3. c = sessionCalls[p, "user"]
      BY <1>1, <2>6
    <3> QED BY <1>3, <1>4, <2>3, <2>4, <2>6, <3>1, <3>2, <3>3 DEF PageInv
  <2> QED BY <2>5, <2>6 DEF Threads
<1> QED BY <1>5, <1>6, <1>7, <1>8 DEF TabInv

\* A rotation whose last statement fails is refused.
LEMMA RevokeFailsKeepsTab ==
  ASSUME SessionTypes, OrphanInv, NEW p \in BrowserTabs, NEW th \in Threads, TabInv(p), RevokeFails(p, th)
  PROVE  TabInv(p)'
<1>1. PICK c \in CallRecords : c = sessionCalls[p, th]
  BY CallType
<1>2. /\ c.stage = "issued" /\ Reply(p, th, "refused", 0) /\ EndRotations({<<p, th>>}, {})
      /\ UNCHANGED <<pages, keygen, keyStore, cookies, boundTo, logins, hasty>>
  BY <1>1 DEF RevokeFails, keyVars, NoToken
<1>3. th = "load" /\ c.type = "refresh" /\ "refused" \in CallStages
  BY <1>1, <1>2 DEF TabInv, ThreadsInv, Threads, CallStages
<1>4. PICK q \in CallRecords : Replied(p, th, q, "refused", 0)
  BY <1>2, <1>3, Replying
<1>5. /\ sessionCalls'[p, "load"] = q /\ sessionCalls'[p, "user"] = sessionCalls[p, "user"]
      /\ q.type = "refresh" /\ q.stage = "refused" /\ q.public = c.public
  BY <1>1, <1>3, <1>4 DEF Replied, CallReplaced, Threads
<1>6. ThreadsInv(p)'
  <2>1. LET u == sessionCalls[p, "user"] IN
          u.type \in {"none", "login", "work", "verify", "logout"} /\ (u.type = "none" <=> u.stage = "none") /\ u.stage # "issued"
    BY DEF TabInv, ThreadsInv, Threads
  <2> QED BY <1>5, <2>1 DEF ThreadsInv, Threads
<1>7. KeysInv(p)'
  <2>1. KeysInv(p) /\ UNCHANGED <<keyStore, keygen>>
    BY <1>2 DEF TabInv
  <2>2. c.public = keyStore.public /\ c.public # 0
    BY <1>1, <1>2, <2>1 DEF KeysInv
  <2> QED BY <1>5, <2>1, <2>2 DEF KeysInv, Threads
<1>8. CountInv(p)'
  <2>1. {<<p, th>>} \in SUBSET ({p} \X Threads) /\ <<p, "load">> \in {<<p, th>>}
    BY <1>3
  <2>2. ~HalfRotated(p)'
    BY <1>5 DEF HalfRotated
  <2> QED BY <1>2, <2>1, <2>2, CutKeepsCount DEF TabInv
<1>9. ~hasty' => PageInv(p)'
  <2>0. SUFFICES ASSUME ~hasty' PROVE PageInv(p)'
    OBVIOUS
  <2>1. hasty' = hasty
    BY <1>2
  <2>2. ~hasty
    BY ONLY <2>0, <2>1
  <2>3. PageInv(p) /\ sessionCalls[p, "user"].type = "none" /\ pages[p].shows = "loading"
    BY <1>1, <1>2, <1>3, <2>2 DEF TabInv, PageInv
  <2> QED BY <1>2, <1>5, <2>3 DEF PageInv
<1> QED BY <1>6, <1>7, <1>8, <1>9 DEF TabInv

LEMMA LoadKeepsTab ==
  ASSUME SessionTypes, live \subseteq DOMAIN boundTo, NEW p \in BrowserTabs, TabInv(p), LoadAnswered(p)
  PROVE  TabInv(p)'
<1>1. PICK c \in CallRecords : c = sessionCalls[p, "load"]
  BY CallType DEF Threads
<1>2. PICK q \in CallRecords :
        /\ CallReplaced(p, "load", q) /\ c.stage = "ok"
        /\ UNCHANGED <<keygen, keyStore, boundTo, live, orphans, logins, hasty>>
        /\ \/ c.type = "refresh" /\ q.type = "me" /\ q.stage = "key" /\ GiveToken(p, c.got, pages[p].shows, TRUE)
           \/ c.type = "me" /\ q = NoRequest /\ pages' = Show(p, "home") /\ UNCHANGED cookies
  <2>1. "load" \in Threads /\ "me" \in CallTypes
    BY DEF Threads, CallTypes
  <2>2. CASE c.type = "refresh"
    <3>1. sessionCalls' = [sessionCalls EXCEPT ![<<p, "load">>] = Asks("me")] /\ GiveToken(p, c.got, pages[p].shows, TRUE)
      BY <1>1, <2>2 DEF LoadAnswered
    <3>2. CallReplaced(p, "load", Asks("me"))
      BY <2>1, <3>1, AskingCall, CallReplacing
    <3> QED BY <1>1, <2>1, <2>2, <3>1, <3>2, AskingCall DEF LoadAnswered, keyVars
  <2>3. CASE c.type = "me"
    <3>1. Rested(p, "load") /\ pages' = Show(p, "home") /\ UNCHANGED cookies
      BY <1>1, <2>3 DEF LoadAnswered
    <3>2. CallReplaced(p, "load", NoRequest)
      BY <2>1, <3>1, Resting
    <3> QED BY <1>1, <2>3, <3>1, <3>2, NoRequestType DEF LoadAnswered, keyVars
  <2> QED BY <1>1, <2>2, <2>3 DEF LoadAnswered
<1>3. /\ sessionCalls'[p, "load"] = q /\ sessionCalls'[p, "user"] = sessionCalls[p, "user"]
      /\ q.type \in {"none", "me"} /\ q.stage \in {"none", "key"} /\ (q.type = "none" <=> q.stage = "none")
  BY <1>2, NoRequestType DEF CallReplaced, Threads
<1>4. ThreadsInv(p)'
  BY <1>3 DEF TabInv, ThreadsInv, Threads
<1>5. KeysInv(p)'
  BY <1>2, <1>3 DEF TabInv, KeysInv, Threads
<1>6. CountInv(p)'
  BY <1>1, <1>2, <1>3 DEF TabInv, CountInv, InUse, HalfRotated
<1>7. ~hasty' => PageInv(p)'
  <2>0. SUFFICES ASSUME ~hasty' PROVE PageInv(p)'
    OBVIOUS
  <2>1. hasty' = hasty
    BY <1>2
  <2>2. ~hasty
    BY ONLY <2>0, <2>1
  <2>3. PageInv(p) /\ sessionCalls[p, "user"].type = "none" /\ pages[p].shows = "loading"
    BY <1>1, <1>2, <2>2 DEF TabInv, PageInv
  <2>4. CASE c.type = "refresh"
    <3>1. Granted(c) /\ c.public = keyStore.public /\ c.public # 0
      BY <1>1, <1>2, <2>3, <2>4 DEF TabInv, KeysInv, PageInv, Threads
    <3>2. /\ pages'[p].shows = "loading" /\ pages'[p].token = c.got /\ q.type = "me" /\ q.stage = "key"
          /\ cookies'.access = c.got /\ cookies'.refresh = c.got
      <4>1. q.type = "me" /\ q.stage = "key" /\ GiveToken(p, c.got, pages[p].shows, TRUE)
        BY <1>2, <2>4
      <4>2. cookies' = [access |-> c.got, refresh |-> c.got]
        BY <4>1 DEF GiveToken
      <4>3. pages' = [pages EXCEPT ![p] = [shows |-> "loading", token |-> c.got]]
        BY <2>3, <4>1 DEF GiveToken
      <4>4. pages'[p] = [shows |-> "loading", token |-> c.got]
        BY <4>3 DEF SessionTypes
      <4> QED BY <4>1, <4>2, <4>4
    <3>3. SignedIn(p)'
      BY <1>2, <3>1, <3>2 DEF SignedIn, Granted
    <3> QED BY <1>3, <2>3, <3>2, <3>3 DEF PageInv
  <2>5. CASE c.type = "me"
    <3>1. SignedIn(p) /\ pages'[p].shows = "home" /\ pages'[p].token = pages[p].token /\ q.type = "none" /\ cookies' = cookies
      <4>1. SignedIn(p)
        BY <1>1, <2>3, <2>5 DEF PageInv
      <4>2. pages' = Show(p, "home") /\ q.type = "none" /\ cookies' = cookies
        BY <1>2, <2>5, NoRequestType
      <4> QED BY <4>1, <4>2 DEF Show, SessionTypes
    <3>2. SignedIn(p)'
      BY <1>2, <3>1 DEF SignedIn
    <3> QED BY <1>3, <2>3, <3>1, <3>2 DEF PageInv
  <2> QED BY <1>2, <2>4, <2>5
<1> QED BY <1>4, <1>5, <1>6, <1>7 DEF TabInv

LEMMA UserKeepsTab ==
  ASSUME SessionTypes, live \subseteq DOMAIN boundTo, NEW p \in BrowserTabs, TabInv(p), UserAnswered(p)
  PROVE  TabInv(p)'
<1>1. PICK c \in CallRecords : c = sessionCalls[p, "user"]
  BY CallType DEF Threads
<1>2. /\ c.stage = "ok" /\ Rested(p, "user") /\ UNCHANGED <<keygen, keyStore, boundTo, live, orphans, logins, hasty>>
      /\ \/ c.type = "login" /\ GiveToken(p, c.got, "home", TRUE)
         \/ c.type = "verify" /\ GiveToken(p, c.got, pages[p].shows, FALSE)
         \/ c.type = "logout" /\ pages' = Show(p, "login")
         \/ c.type = "work" /\ UNCHANGED <<cookies, pages>>
  BY <1>1 DEF UserAnswered, keyVars
<1>3. /\ sessionCalls'[p, "user"] = NoRequest /\ sessionCalls'[p, "load"] = sessionCalls[p, "load"]
      /\ NoRequest.type = "none" /\ NoRequest.stage = "none"
  BY <1>2, Resting, NoRequestType DEF CallReplaced, Threads
<1>4. ThreadsInv(p)'
  BY <1>3 DEF TabInv, ThreadsInv, Threads
<1>5. KeysInv(p)'
  BY <1>2, <1>3 DEF TabInv, KeysInv, Threads
<1>6. CountInv(p)'
  BY <1>2, <1>3 DEF TabInv, CountInv, InUse, HalfRotated
<1>7. ~hasty' => PageInv(p)'
  <2>0. SUFFICES ASSUME ~hasty' PROVE PageInv(p)'
    OBVIOUS
  <2>1. hasty' = hasty
    BY <1>2
  <2>2. ~hasty
    BY ONLY <2>0, <2>1
  <2>3. PageInv(p) /\ sessionCalls[p, "load"].type = "none" /\ c.public = keyStore.public /\ c.public # 0
    BY <1>1, <1>2, <2>2 DEF TabInv, PageInv, KeysInv, Threads
  <2>4. CASE c.type = "login"
    <3>1. Granted(c)
      BY <1>1, <1>2, <2>3, <2>4 DEF PageInv
    <3>2. /\ pages'[p].shows = "home" /\ pages'[p].token = c.got
          /\ cookies'.access = c.got /\ cookies'.refresh = c.got
      BY <1>2, <2>4 DEF GiveToken, SessionTypes
    <3>3. SignedIn(p)'
      BY <1>2, <2>3, <3>1, <3>2 DEF SignedIn, Granted
    <3> QED BY <1>3, <2>3, <3>2, <3>3 DEF PageInv
  <2>5. CASE c.type = "verify"
    <3>1. c.got \in DOMAIN boundTo /\ boundTo[c.got] = c.public /\ pages[p].shows = "home" /\ SignedIn(p)
      BY <1>1, <1>2, <2>3, <2>5 DEF PageInv
    <3>2. /\ pages'[p].shows = "home" /\ pages'[p].token = c.got
          /\ cookies'.access = c.got /\ cookies'.refresh = cookies.refresh
      BY <1>2, <2>5, <3>1 DEF GiveToken, SessionTypes
    <3>3. SignedIn(p)'
      BY <1>2, <2>3, <3>1, <3>2 DEF SignedIn
    <3> QED BY <1>3, <2>3, <3>2, <3>3 DEF PageInv
  <2>6. CASE c.type = "logout"
    <3>1. pages'[p].shows = "login"
      BY <1>2, <2>6 DEF Show, SessionTypes
    <3> QED BY <1>3, <2>3, <3>1 DEF PageInv
  <2>7. CASE c.type = "work"
    <3>1. pages[p].shows = "home" /\ SignedIn(p) /\ UNCHANGED <<cookies, pages>>
      BY <1>1, <1>2, <2>3, <2>7 DEF PageInv
    <3>2. SignedIn(p)'
      BY <1>2, <3>1 DEF SignedIn
    <3> QED BY <1>3, <2>3, <3>1, <3>2 DEF PageInv
  <2> QED BY <1>2, <2>4, <2>5, <2>6, <2>7
<1> QED BY <1>4, <1>5, <1>6, <1>7 DEF TabInv

-----------------------------------------------------------------------------
\* What a cut rotation leaves.

\* A request that goes on keeps what it holds, takes the cookie or drops it; one
\* whose rotation is cut drops it.
CallGoesOn(c, ended) ==
  /\ sessionCalls'[c].refresh \in {0, cookies.refresh, sessionCalls[c].refresh}
  /\ sessionCalls'[c].got \in {0, sessionCalls[c].got}
  /\ c \in ended => sessionCalls'[c].got = 0
  /\ sessionCalls'[c].stage = "issued" =>
       c \notin ended /\ sessionCalls[c].stage = "issued" /\ sessionCalls'[c].got = sessionCalls[c].got

LEMMA OrphansKept ==
  ASSUME SessionTypes, OrphanInv, live \subseteq DOMAIN boundTo, NEW ended \in SUBSET Callers, UNCHANGED boundTo,
         orphans' \subseteq orphans \cup {sessionCalls[c].got : c \in Rotating(ended)},
         \A n \in live : n \in live' \/ \E d \in Callers : n = sessionCalls[d].refresh,
         \/ cookies'.refresh \in {0, cookies.refresh}
         \/ \E d \in Callers : sessionCalls[d].stage # "issued" /\ cookies'.refresh = sessionCalls[d].got,
         \A c \in Callers : CallGoesOn(c, ended)
  PROVE  OrphanInv'
<1>1. issued' = issued /\ issued \in Nat /\ DOMAIN boundTo = 1..issued /\ DOMAIN boundTo' = 1..issued
  BY DEF SessionTypes, issued
<1>2. \A c \in Rotating(ended) : c \in Callers /\ c \in ended /\ NewAlone(c) /\ sessionCalls[c].got \in 1..issued
  BY <1>1 DEF OrphanInv, Rotating, NewAlone
<1>3. orphans' \subseteq 1..issued
  BY <1>1, <1>2 DEF OrphanInv
<1>4. 0 \in 0..issued /\ 0 \notin orphans'
  BY <1>1, <1>3
<1>5. \A n : NoOrphan(n) /\ (\A c \in Rotating(ended) : n # sessionCalls[c].got) => n \in 0..issued /\ n \notin orphans'
  BY DEF NoOrphan
<1>6. NoOrphan(cookies.refresh) /\ \A c \in Rotating(ended) : cookies.refresh # sessionCalls[c].got
  BY <1>2 DEF OrphanInv, NewAlone
<1>7. cookies.refresh \in 0..issued /\ cookies.refresh \notin orphans'
  BY <1>5, <1>6
<1>8. \A d \in Callers : sessionCalls[d].refresh \in 0..issued /\ sessionCalls[d].refresh \notin orphans'
  <2> TAKE d \in Callers
  <2>1. NoOrphan(sessionCalls[d].refresh) /\ \A c \in Rotating(ended) : sessionCalls[d].refresh # sessionCalls[c].got
    BY <1>2 DEF OrphanInv, NewAlone
  <2> QED BY <1>5, <2>1
<1>9. \A d \in Callers : d \notin Rotating(ended) => sessionCalls[d].got \in 0..issued /\ sessionCalls[d].got \notin orphans'
  <2> TAKE d \in Callers
  <2>1. d \notin Rotating(ended) =>
          NoOrphan(sessionCalls[d].got) /\ \A c \in Rotating(ended) : sessionCalls[d].got # sessionCalls[c].got
    BY <1>2 DEF OrphanInv, NewAlone
  <2> QED BY <1>5, <2>1
<1>10. NoOrphan(cookies.refresh)'
  <2>1. cookies'.refresh \in 0..issued /\ cookies'.refresh \notin orphans'
    BY <1>4, <1>7, <1>9 DEF Rotating
  <2> QED BY <1>1, <2>1 DEF NoOrphan
<1>11. ASSUME NEW c \in Callers
       PROVE  NoOrphan(sessionCalls[c].refresh)' /\ NoOrphan(sessionCalls[c].got)'
  <2>1. CallGoesOn(c, ended)
    OBVIOUS
  <2>2. sessionCalls'[c].refresh \in 0..issued /\ sessionCalls'[c].refresh \notin orphans'
    BY <1>4, <1>7, <1>8, <2>1 DEF CallGoesOn
  <2>3. sessionCalls'[c].got \in 0..issued /\ sessionCalls'[c].got \notin orphans'
    BY <1>2, <1>4, <1>9, <2>1 DEF CallGoesOn
  <2> QED BY <1>1, <2>2, <2>3 DEF NoOrphan
<1>12. ASSUME NEW c \in Rotating(Callers)'
       PROVE  NewAlone(c)'
  <2>1. c \in Callers /\ sessionCalls'[c].stage = "issued"
    BY DEF Rotating
  <2>2. c \in Rotating(Callers) /\ c \notin ended /\ sessionCalls'[c].got = sessionCalls[c].got
    BY <2>1 DEF CallGoesOn, Rotating
  <2>3. NewAlone(c) /\ sessionCalls[c].got \in 1..issued
    BY <1>1, <2>2 DEF OrphanInv, NewAlone
  <2>4. PICK n : n = sessionCalls[c].got /\ n \in live /\ n # 0
    BY <1>1, <2>3 DEF NewAlone
  <2>5. n \in live'
    BY <2>3, <2>4 DEF NewAlone
  <2>6. n # cookies'.refresh
    BY <2>2, <2>3, <2>4 DEF NewAlone, Rotating
  <2>7. ASSUME NEW d \in Callers
        PROVE  sessionCalls'[d].refresh # n /\ (d # c => sessionCalls'[d].got # n)
    BY <2>3, <2>4 DEF CallGoesOn, NewAlone
  <2> QED BY <2>2, <2>4, <2>5, <2>6, <2>7 DEF NewAlone
<1> QED BY <1>1, <1>3, <1>10, <1>11, <1>12 DEF OrphanInv

\* One request is replaced by one that goes on from it.
LEMMA OneGoesOn ==
  ASSUME SessionTypes, NEW p \in BrowserTabs, NEW th \in Threads, NEW q \in CallRecords, CallReplaced(p, th, q),
         q.refresh \in {0, cookies.refresh, sessionCalls[<<p, th>>].refresh}, q.got \in {0, sessionCalls[<<p, th>>].got},
         q.stage # "issued", NEW ended \in SUBSET {<<p, th>>}, ended = {} \/ q.got = 0
  PROVE  ended \in SUBSET Callers /\ \A c \in Callers : CallGoesOn(c, ended)
<1>1. <<p, th>> \in Callers
  BY DEF Callers
<1>2. ASSUME NEW c \in Callers
      PROVE  CallGoesOn(c, ended)
  <2>1. CASE c = <<p, th>>
    <3>1. sessionCalls'[c] = q
      BY <2>1 DEF CallReplaced
    <3> QED BY <2>1, <3>1 DEF CallGoesOn
  <2>2. CASE c # <<p, th>>
    <3>1. PICK r \in BrowserTabs, t \in Threads : c = <<r, t>>
      BY DEF Callers
    <3>2. sessionCalls'[c] = sessionCalls[c] /\ c \notin ended
      BY <2>2, <3>1 DEF CallReplaced
    <3> QED BY <3>2 DEF CallGoesOn
  <2> QED BY <2>1, <2>2
<1> QED BY <1>1, <1>2

\* A request that goes on, while no rotation is cut and no session ends.
LEMMA QuietKeepsOrphans ==
  ASSUME SessionTypes, OrphanInv, live \subseteq DOMAIN boundTo, NEW p \in BrowserTabs, NEW th \in Threads,
         NEW q \in CallRecords, CallReplaced(p, th, q),
         q.refresh \in {0, cookies.refresh, sessionCalls[<<p, th>>].refresh}, q.got \in {0, sessionCalls[<<p, th>>].got},
         q.stage # "issued", UNCHANGED <<boundTo, orphans>>,
         live' = live \/ live' = live \ {sessionCalls[<<p, th>>].refresh},
         \/ cookies'.refresh \in {0, cookies.refresh}
         \/ sessionCalls[<<p, th>>].stage # "issued" /\ cookies'.refresh = sessionCalls[<<p, th>>].got
  PROVE  OrphanInv'
<1>1. <<p, th>> \in Callers /\ \A c \in Callers : CallGoesOn(c, {})
  BY OneGoesOn DEF Callers
<1>2. \A n \in live : n \in live' \/ \E d \in Callers : n = sessionCalls[d].refresh
  BY <1>1
<1>3. \/ cookies'.refresh \in {0, cookies.refresh}
      \/ \E d \in Callers : sessionCalls[d].stage # "issued" /\ cookies'.refresh = sessionCalls[d].got
  BY <1>1
<1> QED BY <1>1, <1>2, <1>3, OrphansKept

\* A request ends with the rotation it is at, if any.
LEMMA CutKeepsOrphans ==
  ASSUME SessionTypes, OrphanInv, live \subseteq DOMAIN boundTo, NEW p \in BrowserTabs, NEW th \in Threads,
         NEW q \in CallRecords, CallReplaced(p, th, q),
         q.refresh \in {0, sessionCalls[<<p, th>>].refresh}, q.got = 0, q.stage # "issued",
         UNCHANGED <<boundTo, cookies>>,
         NEW revoked \in SUBSET OldSessions({<<p, th>>}), EndRotations({<<p, th>>}, revoked)
  PROVE  OrphanInv'
<1>1. <<p, th>> \in Callers /\ \A c \in Callers : CallGoesOn(c, {<<p, th>>})
  BY OneGoesOn DEF Callers
<1>2. \A n \in live : n \in live' \/ \E d \in Callers : n = sessionCalls[d].refresh
  BY <1>1 DEF EndRotations, OldSessions, Rotating
<1>3. orphans' \subseteq orphans \cup {sessionCalls[c].got : c \in Rotating({<<p, th>>})}
  BY DEF EndRotations
<1> QED BY <1>1, <1>2, <1>3, OrphansKept

\* A token that is issued was held by nobody.
LEMMA IssueKeepsOrphans ==
  ASSUME SessionTypes, OrphanInv, live \subseteq DOMAIN boundTo, NEW p \in BrowserTabs, NEW th \in Threads,
         Issue(sessionCalls[<<p, th>>]), NEW stage \in {"issued", "ok"}, Reply(p, th, stage, issued + 1),
         UNCHANGED <<cookies, orphans>>,
         live' = live \cup {issued + 1} \/ (live' = live /\ stage = "ok")
  PROVE  OrphanInv'
<1>1. PICK n \in Nat : n = issued + 1 /\ n > 0
  BY DEF SessionTypes
<1>2. /\ issued' = n /\ n \in DOMAIN boundTo' /\ n \notin DOMAIN boundTo /\ issued \in Nat /\ DOMAIN boundTo = 1..issued
      /\ DOMAIN boundTo \subseteq DOMAIN boundTo'
  BY <1>1, CallType, Issuing DEF SessionTypes
<1>3. PICK q \in CallRecords : Replied(p, th, q, stage, n)
  BY <1>1, Replying DEF CallStages
<1>4. /\ sessionCalls'[<<p, th>>] = q /\ q.refresh = sessionCalls[<<p, th>>].refresh /\ q.got = n /\ q.stage = stage
      /\ \A c \in Callers : c # <<p, th>> => sessionCalls'[c] = sessionCalls[c]
  <2>1. ASSUME NEW c \in Callers, c # <<p, th>>
        PROVE  sessionCalls'[c] = sessionCalls[c]
    <3>1. PICK r \in BrowserTabs, t \in Threads : c = <<r, t>>
      BY DEF Callers
    <3> QED BY <1>3, <2>1, <3>1 DEF Replied, CallReplaced
  <2> QED BY <1>3, <2>1 DEF Replied, CallReplaced
<1>5. \A m : NoOrphan(m) => m \in 0..issued' /\ m \notin orphans' /\ m # n
  BY <1>1, <1>2 DEF NoOrphan
<1>6. n \in 0..issued' /\ n \notin orphans'
  BY <1>1, <1>2 DEF OrphanInv
<1>7. orphans' \subseteq DOMAIN boundTo'
  BY <1>2 DEF OrphanInv
<1>8. NoOrphan(cookies.refresh)' /\ cookies'.refresh # n /\ cookies' = cookies
  BY <1>5 DEF OrphanInv, NoOrphan
<1>9. ASSUME NEW c \in Callers
      PROVE  /\ NoOrphan(sessionCalls[c].refresh)' /\ NoOrphan(sessionCalls[c].got)'
             /\ sessionCalls'[c].refresh = sessionCalls[c].refresh /\ sessionCalls[c].refresh # n /\ sessionCalls[c].got # n
             /\ sessionCalls'[c].got = IF c = <<p, th>> THEN n ELSE sessionCalls[c].got
  <2>1. NoOrphan(sessionCalls[c].refresh) /\ NoOrphan(sessionCalls[c].got)
    BY DEF OrphanInv
  <2>2. /\ sessionCalls'[c].refresh = sessionCalls[c].refresh
        /\ sessionCalls'[c].got = IF c = <<p, th>> THEN n ELSE sessionCalls[c].got
    BY <1>4
  <2>3. sessionCalls'[c].refresh \in 0..issued' /\ sessionCalls'[c].refresh \notin orphans'
    BY <1>5, <2>1, <2>2
  <2>4. sessionCalls'[c].got \in 0..issued' /\ sessionCalls'[c].got \notin orphans'
    BY <1>5, <1>6, <2>1, <2>2
  <2> QED BY <1>5, <2>1, <2>2, <2>3, <2>4 DEF NoOrphan
<1>10. ASSUME NEW c \in Rotating(Callers)'
       PROVE  NewAlone(c)'
  <2>1. c \in Callers /\ sessionCalls'[c].stage = "issued"
    BY DEF Rotating
  <2>2. CASE c = <<p, th>>
    <3>1. sessionCalls'[c].got = n /\ n \in live'
      BY <1>1, <1>4, <2>1, <2>2
    <3> QED BY <1>8, <1>9, <2>2, <3>1 DEF NewAlone
  <2>3. CASE c # <<p, th>>
    <3>1. NewAlone(c) /\ sessionCalls'[c].got = sessionCalls[c].got
      BY <1>4, <2>1, <2>3 DEF OrphanInv, Rotating
    <3> QED BY <1>8, <1>9, <2>1, <3>1 DEF NewAlone
  <2> QED BY <2>2, <2>3
<1> QED BY <1>7, <1>8, <1>9, <1>10 DEF OrphanInv

LEMMA OrphanInvInit == SessionInit => OrphanInv
<1> SUFFICES ASSUME SessionInit PROVE OrphanInv
  OBVIOUS
<1>1. issued = 0 /\ orphans = {} /\ cookies.refresh = 0 /\ \A c \in Callers : sessionCalls[c] = NoRequest
  BY FS_EmptySet DEF SessionInit, issued, NoToken
<1>2. NoRequest.refresh = 0 /\ NoRequest.got = 0 /\ NoRequest.stage = "none"
  BY DEF NoRequest, NoToken
<1> QED BY <1>1, <1>2 DEF OrphanInv, NoOrphan, Rotating

\* Every step of a session keeps what is known of the orphans.
LEMMA StartKeepsOrphans ==
  ASSUME SessionTypes, OrphanInv, live \subseteq DOMAIN boundTo, NEW p \in BrowserTabs, OpenPage(p) \/ LogIn(p) \/ Use(p)
  PROVE  OrphanInv'
<1>1. \A type \in CallTypes : /\ Asks(type) \in CallRecords /\ Asks(type).refresh = 0 /\ Asks(type).got = 0
                              /\ Asks(type).stage = "key"
  BY AskingCall DEF Asks, NoRequest, NoToken
<1>2. NoRequest.refresh = 0 /\ NoRequest.got = 0 /\ NoRequest.stage = "none"
  BY DEF NoRequest, NoToken
<1>3. CASE OpenPage(p)
  <2> DEFINE ended == {p} \X Threads
  <2>1. ended \in SUBSET Callers /\ <<p, "load">> \in Callers /\ <<p, "user">> \in Callers /\ ended = {<<p, "load">>, <<p, "user">>}
    BY DEF Callers, Threads
  <2>2. PICK revoked \in SUBSET OldSessions(ended) : EndRotations(ended, revoked)
    BY <1>3 DEF OpenPage
  <2>3. UNCHANGED <<cookies, boundTo>>
    BY <1>3 DEF OpenPage
  <2>4. /\ sessionCalls'[<<p, "load">>] = Asks("refresh") /\ sessionCalls'[<<p, "user">>] = NoRequest
        /\ \A c \in Callers : c \notin ended => sessionCalls'[c] = sessionCalls[c]
    <3>1. sessionCalls' = [sessionCalls EXCEPT ![<<p, "load">>] = Asks("refresh"), ![<<p, "user">>] = NoRequest]
      BY <1>3 DEF OpenPage
    <3> HIDE DEF OpenPage
    <3> QED BY <2>1, <3>1 DEF SessionTypes
  <2>5. ASSUME NEW c \in Callers
        PROVE  CallGoesOn(c, ended)
    <3>1. CASE c \in ended
      <4>1. sessionCalls'[c].refresh = 0 /\ sessionCalls'[c].got = 0 /\ sessionCalls'[c].stage # "issued"
        BY <1>1, <1>2, <2>1, <2>4, <3>1 DEF CallTypes
      <4> QED BY <4>1 DEF CallGoesOn
    <3>2. CASE c \notin ended
      BY <2>4, <3>2 DEF CallGoesOn
    <3> QED BY <3>1, <3>2
  <2>6. \A n \in live : n \in live' \/ \E d \in Callers : n = sessionCalls[d].refresh
    BY <2>1, <2>2 DEF EndRotations, OldSessions, Rotating
  <2>7. orphans' \subseteq orphans \cup {sessionCalls[c].got : c \in Rotating(ended)}
    BY <2>2 DEF EndRotations
  <2> HIDE DEF ended
  <2> QED BY <2>1, <2>3, <2>5, <2>6, <2>7, OrphansKept
<1>4. CASE LogIn(p) \/ Use(p)
  <2>1. PICK type \in CallTypes : Act(p, type)
    BY <1>4 DEF LogIn, Use, CallTypes
  <2>2. CallReplaced(p, "user", Asks(type)) /\ "user" \in Threads /\ UNCHANGED <<boundTo, orphans, live, cookies>>
    BY <1>1, <2>1, CallReplacing DEF Act, Threads, serverVars
  <2> QED BY <1>1, <2>2, QuietKeepsOrphans
<1> QED BY <1>3, <1>4

LEMMA ClientKeepsOrphans ==
  ASSUME SessionTypes, OrphanInv, live \subseteq DOMAIN boundTo, NEW p \in BrowserTabs, NEW th \in Threads,
         \/ GenerateKey(p, th) \/ StorePrivate(p, th) \/ StorePublic(p, th) \/ Prove(p, th) \/ SendCall(p, th)
         \/ Refused(p, th) \/ Lost(p, th) \/ RevokeFails(p, th)
         \/ th = "load" /\ LoadAnswered(p)
         \/ th = "user" /\ UserAnswered(p)
  PROVE  OrphanInv'
<1>1. PICK c \in CallRecords : c = sessionCalls[p, th]
  BY CallType
<1>11. c = sessionCalls[<<p, th>>]
  BY <1>1
<1>2. NoRequest \in CallRecords /\ NoRequest.refresh = 0 /\ NoRequest.got = 0 /\ NoRequest.stage = "none"
  BY NoRequestType DEF NoRequest, NoToken
<1>3. Asks("me") \in CallRecords /\ Asks("me").refresh = 0 /\ Asks("me").got = 0 /\ Asks("me").stage = "key"
  BY AskingCall DEF Asks, NoRequest, NoToken, CallTypes
<1>4. CASE GenerateKey(p, th) \/ StorePrivate(p, th) \/ StorePublic(p, th)
  <2>1. UNCHANGED <<sessionCalls, cookies, live, boundTo, orphans>> /\ issued' = issued
    BY <1>4 DEF GenerateKey, StorePrivate, StorePublic, serverVars, issued
  <2> QED BY <2>1 DEF OrphanInv, NoOrphan, NewAlone, Rotating
<1>5. CASE Prove(p, th) \/ SendCall(p, th)
  <2>1. UNCHANGED <<cookies, live, boundTo, orphans>>
    BY <1>5 DEF Prove, SendCall, serverVars
  <2>2. PICK q \in CallRecords :
          /\ sessionCalls' = [sessionCalls EXCEPT ![<<p, th>>] = q] /\ q.stage # "issued"
          /\ q.got = sessionCalls[p, th].got /\ q.refresh \in {cookies.refresh, sessionCalls[p, th].refresh}
    <3>1. CASE Prove(p, th)
      BY <3>1, ProvedRecord
    <3>2. CASE SendCall(p, th)
      BY <3>2, SentRecord
    <3> QED BY <1>5, <3>1, <3>2
  <2>3. CallReplaced(p, th, q)
    BY <2>2, CallReplacing
  <2> QED BY <2>1, <2>2, <2>3, QuietKeepsOrphans
<1>6. CASE Refused(p, th)
  <2>1. CallReplaced(p, th, NoRequest) /\ UNCHANGED <<cookies, live, boundTo, orphans>>
    BY <1>6, Resting DEF Refused, serverVars
  <2> QED BY <1>2, <2>1, QuietKeepsOrphans
<1>7. CASE Lost(p, th)
  <2>1. CallReplaced(p, th, NoRequest) /\ UNCHANGED <<cookies, boundTo>>
    BY <1>7, Resting DEF Lost
  <2>2. PICK revoked \in SUBSET OldSessions({<<p, th>>}) : EndRotations({<<p, th>>}, revoked)
    BY <1>7 DEF Lost
  <2> QED BY <1>2, <2>1, <2>2, CutKeepsOrphans
<1>8. CASE RevokeFails(p, th)
  <2>1. Reply(p, th, "refused", 0) /\ UNCHANGED <<cookies, boundTo>> /\ EndRotations({<<p, th>>}, {})
    BY <1>8 DEF RevokeFails, NoToken
  <2>2. PICK q \in CallRecords : Replied(p, th, q, "refused", 0)
    BY <2>1, Replying DEF CallStages
  <2> QED BY <2>1, <2>2, CutKeepsOrphans DEF Replied
<1>9. CASE th = "load" /\ LoadAnswered(p)
  <2>1. UNCHANGED <<live, boundTo, orphans>> /\ c.stage = "ok"
    BY <1>1, <1>9 DEF LoadAnswered
  <2>2. PICK q \in {NoRequest, Asks("me")} : sessionCalls' = [sessionCalls EXCEPT ![<<p, th>>] = q]
    BY <1>9 DEF LoadAnswered, Rested
  <2>3. CallReplaced(p, th, q)
    BY <1>2, <1>3, <2>2, CallReplacing
  <2>4. cookies' = cookies \/ cookies' = [access |-> c.got, refresh |-> c.got]
    BY <1>1, <1>9 DEF LoadAnswered, GiveToken
  <2>5. cookies'.refresh = cookies.refresh \/ (sessionCalls[<<p, th>>].stage # "issued" /\ cookies'.refresh = sessionCalls[<<p, th>>].got)
    BY <1>11, <2>1, <2>4
  <2> QED BY <1>2, <1>3, <2>1, <2>3, <2>5, QuietKeepsOrphans
<1>10. CASE th = "user" /\ UserAnswered(p)
  <2>1. UNCHANGED <<live, boundTo, orphans>> /\ c.stage = "ok" /\ CallReplaced(p, th, NoRequest)
    BY <1>1, <1>10, Resting DEF UserAnswered
  <2>2. \/ cookies' = cookies \/ cookies' = [access |-> c.got, refresh |-> c.got]
        \/ cookies' = [access |-> c.got, refresh |-> cookies.refresh] \/ cookies' = [access |-> 0, refresh |-> 0]
    BY <1>1, <1>10 DEF UserAnswered, GiveToken, NoToken
  <2>3. \/ cookies'.refresh \in {0, cookies.refresh}
        \/ sessionCalls[<<p, th>>].stage # "issued" /\ cookies'.refresh = sessionCalls[<<p, th>>].got
    BY <1>11, <2>1, <2>2
  <2> QED BY <1>2, <2>1, <2>3, QuietKeepsOrphans
<1> QED BY <1>4, <1>5, <1>6, <1>7, <1>8, <1>9, <1>10

LEMMA ServerKeepsOrphans ==
  ASSUME SessionTypes, OrphanInv, live \subseteq DOMAIN boundTo, NEW p \in BrowserTabs, NEW th \in Threads,
         \/ ServeRefused(p, th) \/ ServeLogin(p, th) \/ ServeRefresh(p, th) \/ RevokeOld(p, th)
         \/ ServeLogout(p, th) \/ ServeAdmitted(p, th)
  PROVE  OrphanInv'
<1>1. PICK c \in CallRecords : c = sessionCalls[p, th] /\ c.got \in Nat
  BY CallType DEF CallRecords
<1>2. ASSUME NEW stage \in {"ok", "refused"}, NEW token \in {0, c.got}, Reply(p, th, stage, token),
             UNCHANGED <<cookies, boundTo, orphans>>, live' = live \/ live' = live \ {c.refresh}
      PROVE  OrphanInv'
  <2>1. stage \in CallStages /\ token \in Nat
    <3>1. c.got \in Nat
      BY <1>1
    <3> QED BY <3>1 DEF CallStages
  <2>2. PICK q \in CallRecords : Replied(p, th, q, stage, token)
    BY <1>2, <2>1, Replying
  <2> QED BY <1>1, <1>2, <2>2, QuietKeepsOrphans DEF Replied
<1>3. CASE ServeRefused(p, th)
  BY <1>2, <1>3 DEF ServeRefused, NoToken, serverVars
<1>4. CASE ServeLogin(p, th) \/ ServeRefresh(p, th)
  BY <1>4, IssueKeepsOrphans DEF ServeLogin, ServeRefresh
<1>5. CASE RevokeOld(p, th) \/ ServeLogout(p, th)
  BY <1>1, <1>2, <1>5 DEF RevokeOld, ServeLogout, NoToken
<1>6. CASE ServeAdmitted(p, th)
  <2>1. CASE sessionCalls[p, th].type = "verify"
    BY <1>6, <2>1, IssueKeepsOrphans DEF ServeAdmitted
  <2>2. CASE sessionCalls[p, th].type # "verify"
    BY <1>2, <1>6, <2>2 DEF ServeAdmitted, NoToken
  <2> QED BY <2>1, <2>2
<1> QED BY <1>3, <1>4, <1>5, <1>6

-----------------------------------------------------------------------------
\* Types, and who acts.

SessionInv == SessionTypes /\ TabsInv /\ OrphanInv

LEMMA SessionInvInit == SessionInit => SessionInv
<1> SUFFICES ASSUME SessionInit PROVE SessionInv
  OBVIOUS
<1>1. /\ issued = 0 /\ OpenedTabs = {} /\ live = {} /\ InUse = {} /\ DOMAIN boundTo = {}
      /\ IsFiniteSet(InUse) /\ Cardinality(InUse) = 0
  BY FS_EmptySet DEF SessionInit, issued, OpenedTabs, InUse
<1>2. NoRequest \in CallRecords /\ NoRequest.type = "none" /\ NoRequest.stage = "none"
  BY NoRequestType
<1>3. SessionTypes
  <2>1. sessionCalls \in [Callers -> CallRecords] /\ boundTo \in [1..issued -> Nat]
    BY <1>1, <1>2 DEF SessionInit
  <2> QED BY <1>1, <2>1 DEF SessionInit, SessionTypes, NoToken
<1>4. \A p \in BrowserTabs : NotOpened(p)
  BY DEF NotOpened, SessionInit, Callers
<1>5. \A p \in BrowserTabs : TabInv(p)
  <2> TAKE p \in BrowserTabs
  <2>1. /\ \A th \in Threads : sessionCalls[p, th].type = "none" /\ sessionCalls[p, th].stage = "none" /\ keygen[p, th] = 0
        /\ pages[p].shows = "closed"
    BY <1>2, <1>4 DEF NotOpened
  <2>2. ThreadsInv(p) /\ PageInv(p)
    BY <2>1 DEF ThreadsInv, PageInv, Threads
  <2>3. keyStore.public = 0 /\ logins = 0
    BY DEF SessionInit
  <2>4. KeysInv(p)
    BY <2>1, <2>3 DEF KeysInv, Threads
  <2>5. CountInv(p)
    BY <1>1, <2>3 DEF CountInv
  <2> QED BY <2>2, <2>4, <2>5 DEF TabInv
<1> QED BY <1>1, <1>3, <1>4, <1>5, FS_EmptySet, OrphanInvInit DEF SessionInv, TabsInv, SessionInit

\* The request that one step changes keeps its type.
LEMMA OneRequestTypes ==
  ASSUME SessionInv, NEW p \in BrowserTabs, NEW th \in Threads, NEW q \in CallRecords, CallReplaced(p, th, q),
         UNCHANGED <<keyVars, boundTo, opens, logins>>,
         pages' \in [BrowserTabs -> [shows : {"closed", "loading", "login", "home"}, token : Nat]],
         cookies' \in [access : Nat, refresh : Nat]
  PROVE  SessionTypes'
<1>1. issued' = issued
  BY DEF issued
<1> QED BY <1>1 DEF SessionInv, SessionTypes, CallReplaced, keyVars

LEMMA ReplyTypes ==
  ASSUME SessionInv, NEW p \in BrowserTabs, NEW th \in Threads, NEW stage \in CallStages, NEW token \in Nat,
         Reply(p, th, stage, token), UNCHANGED <<pages, keyVars, boundTo, cookies, opens, logins>>
  PROVE  SessionTypes'
<1>1. SessionTypes
  BY DEF SessionInv
<1>2. PICK q \in CallRecords : Replied(p, th, q, stage, token)
  BY <1>1, Replying
<1> QED BY <1>1, <1>2, OneRequestTypes DEF Replied, SessionTypes

LEMMA IssueTypes ==
  ASSUME SessionInv, NEW p \in BrowserTabs, NEW th \in Threads, NEW stage \in CallStages, NEW token \in Nat,
         Reply(p, th, stage, token), Issue(sessionCalls[p, th]), logins' \in Nat,
         UNCHANGED <<pages, keyVars, cookies, opens>>
  PROVE  SessionTypes'
<1>1. SessionTypes
  BY DEF SessionInv
<1>2. PICK q \in CallRecords : Replied(p, th, q, stage, token)
  BY <1>1, Replying
<1>3. issued' \in Nat /\ boundTo' \in [1..issued' -> Nat]
  BY <1>1, CallType, Issuing
<1> QED BY <1>1, <1>2, <1>3 DEF Replied, CallReplaced, SessionTypes, keyVars

LEMMA GiveTypes ==
  ASSUME SessionTypes, NEW p \in BrowserTabs, NEW token \in Nat, NEW what \in {"closed", "loading", "login", "home"},
         NEW whole \in BOOLEAN, GiveToken(p, token, what, whole)
  PROVE  /\ pages' \in [BrowserTabs -> [shows : {"closed", "loading", "login", "home"}, token : Nat]]
         /\ cookies' \in [access : Nat, refresh : Nat]
BY DEF GiveToken, SessionTypes

LEMMA ShowTypes ==
  ASSUME SessionTypes, NEW p \in BrowserTabs, NEW what \in {"closed", "loading", "login", "home"}, pages' = Show(p, what)
  PROVE  pages' \in [BrowserTabs -> [shows : {"closed", "loading", "login", "home"}, token : Nat]]
<1>1. PICK row \in [shows : {"closed", "loading", "login", "home"}, token : Nat] : row = [pages[p] EXCEPT !.shows = what]
  BY DEF SessionTypes
<1>2. pages' = [pages EXCEPT ![p] = row]
  BY <1>1 DEF Show
<1> QED BY <1>2 DEF SessionTypes

LEMMA ProceedTypes ==
  ASSUME SessionInv, NEW p \in BrowserTabs, NEW th \in Threads, Proceed(p, th) \/ RevokeFails(p, th) \/ Lost(p, th)
  PROVE  SessionTypes'
<1>0. SessionTypes
  BY DEF SessionInv
<1>1. PICK c \in CallRecords : c = sessionCalls[p, th]
  BY <1>0, CallType
<1>2. CASE GenerateKey(p, th) \/ StorePrivate(p, th) \/ StorePublic(p, th)
  <2>1. UNCHANGED <<pages, sessionCalls, cookies, boundTo, opens, logins>> /\ issued' = issued
    BY <1>2 DEF GenerateKey, StorePrivate, StorePublic, serverVars, issued
  <2>2. <<p, th>> \in Callers /\ keygen[p, th] \in Nat
    BY <1>0 DEF Callers, SessionTypes
  <2>3. keyPairs' \in Nat /\ keygen' \in [Callers -> Nat] /\ keyStore' \in [private : Nat, public : Nat]
    <3>1. CASE GenerateKey(p, th)
      <4>1. PICK n \in Nat : n = keyPairs + 1
        BY <1>0 DEF SessionTypes
      <4>2. keyPairs' = n /\ keygen' = [keygen EXCEPT ![<<p, th>>] = n] /\ keyStore' = keyStore
        BY <3>1, <4>1 DEF GenerateKey
      <4> QED BY <1>0, <2>2, <4>2 DEF SessionTypes
    <3>2. CASE StorePrivate(p, th)
      BY <1>0, <2>2, <3>2 DEF StorePrivate, SessionTypes
    <3>3. CASE StorePublic(p, th)
      BY <1>0, <2>2, <3>3 DEF StorePublic, SessionTypes
    <3> QED BY <1>2, <3>1, <3>2, <3>3
  <2> QED BY <1>0, <2>1, <2>3 DEF SessionTypes
<1>3. CASE Prove(p, th) \/ SendCall(p, th)
  <2>1. UNCHANGED <<pages, keyVars, serverVars, opens>>
    BY <1>3 DEF Prove, SendCall
  <2>2. \E q \in CallRecords : sessionCalls' = [sessionCalls EXCEPT ![<<p, th>>] = q]
    <3>1. CASE Prove(p, th)
      BY <1>0, <3>1, ProvedRecord
    <3>2. CASE SendCall(p, th)
      BY <1>0, <3>2, SentRecord
    <3> QED BY <1>3, <3>1, <3>2
  <2>3. PICK q \in CallRecords : CallReplaced(p, th, q)
    BY <1>0, <2>2, CallReplacing
  <2> QED BY <1>0, <2>1, <2>3, OneRequestTypes DEF serverVars, SessionTypes
<1>4. CASE ServeRefused(p, th)
  BY <1>4, ReplyTypes DEF ServeRefused, CallStages, NoToken, serverVars
<1>5. CASE ServeLogin(p, th) \/ ServeRefresh(p, th)
  <2>1. issued + 1 \in Nat /\ logins \in Nat /\ logins + 1 \in Nat
    BY <1>0 DEF SessionTypes
  <2> QED BY <1>5, <2>1, IssueTypes DEF ServeLogin, ServeRefresh, CallStages
<1>6. CASE RevokeOld(p, th) \/ RevokeFails(p, th) \/ ServeLogout(p, th)
  <2>1. c.got \in Nat
    BY DEF CallRecords
  <2> QED BY <1>1, <1>6, <2>1, ReplyTypes DEF RevokeOld, RevokeFails, ServeLogout, CallStages, NoToken
<1>7. CASE ServeAdmitted(p, th)
  <2>1. issued + 1 \in Nat /\ logins \in Nat
    BY <1>0 DEF SessionTypes
  <2> QED BY <1>7, <2>1, ReplyTypes, IssueTypes DEF ServeAdmitted, CallStages, NoToken
<1>8. CASE Refused(p, th) \/ Lost(p, th)
  <2>1. CallReplaced(p, th, NoRequest) /\ UNCHANGED <<keyVars, cookies, boundTo, logins, opens>> /\ pages' = FailedPage(p, c.type)
    BY <1>0, <1>1, <1>8, Resting DEF Refused, Lost, serverVars
  <2>2. pages' \in [BrowserTabs -> [shows : {"closed", "loading", "login", "home"}, token : Nat]]
    <3>1. pages' = Show(p, "login") \/ pages' = pages
      BY <2>1 DEF FailedPage
    <3> QED BY <1>0, <3>1, ShowTypes DEF SessionTypes
  <2> QED BY <1>0, <2>1, <2>2, NoRequestType, OneRequestTypes DEF SessionTypes
<1>9. CASE th = "load" /\ LoadAnswered(p)
  <2>1. UNCHANGED <<keyVars, boundTo, opens, logins>> /\ c.got \in Nat /\ pages[p].shows \in {"closed", "loading", "login", "home"}
    BY <1>0, <1>9 DEF LoadAnswered, CallRecords, SessionTypes
  <2>2. \E q \in CallRecords : CallReplaced(p, th, q)
    <3>1. "me" \in CallTypes
      BY DEF CallTypes
    <3>2. sessionCalls' = [sessionCalls EXCEPT ![<<p, th>>] = Asks("me")] \/ Rested(p, th)
      BY <1>9 DEF LoadAnswered
    <3> QED BY <1>0, <3>1, <3>2, AskingCall, NoRequestType, CallReplacing, Resting
  <2>3. GiveToken(p, c.got, pages[p].shows, TRUE) \/ (pages' = Show(p, "home") /\ cookies' = cookies)
    BY <1>1, <1>9 DEF LoadAnswered
  <2>4. /\ pages' \in [BrowserTabs -> [shows : {"closed", "loading", "login", "home"}, token : Nat]]
        /\ cookies' \in [access : Nat, refresh : Nat]
    <3>1. CASE GiveToken(p, c.got, pages[p].shows, TRUE)
      BY <1>0, <2>1, <3>1, GiveTypes
    <3>2. CASE pages' = Show(p, "home") /\ cookies' = cookies
      BY <1>0, <3>2, ShowTypes DEF SessionTypes
    <3> QED BY <2>3, <3>1, <3>2
  <2> QED BY <2>1, <2>2, <2>4, OneRequestTypes
<1>10. CASE th = "user" /\ UserAnswered(p)
  <2>1. UNCHANGED <<keyVars, boundTo, opens, logins>> /\ c.got \in Nat /\ pages[p].shows \in {"closed", "loading", "login", "home"}
    BY <1>0, <1>10 DEF UserAnswered, CallRecords, SessionTypes
  <2>2. CallReplaced(p, th, NoRequest)
    BY <1>0, <1>10, Resting DEF UserAnswered
  <2>3. \/ GiveToken(p, c.got, "home", TRUE) \/ GiveToken(p, c.got, pages[p].shows, FALSE)
        \/ pages' = Show(p, "login") /\ cookies' = [access |-> NoToken, refresh |-> NoToken]
        \/ UNCHANGED <<pages, cookies>>
    BY <1>1, <1>10 DEF UserAnswered
  <2>4. /\ pages' \in [BrowserTabs -> [shows : {"closed", "loading", "login", "home"}, token : Nat]]
        /\ cookies' \in [access : Nat, refresh : Nat]
    <3>1. CASE GiveToken(p, c.got, "home", TRUE) \/ GiveToken(p, c.got, pages[p].shows, FALSE)
      BY <1>0, <2>1, <3>1, GiveTypes
    <3>2. CASE pages' = Show(p, "login") /\ cookies' = [access |-> NoToken, refresh |-> NoToken]
      BY <1>0, <3>2, ShowTypes DEF NoToken
    <3> QED BY <1>0, <2>3, <3>1, <3>2 DEF SessionTypes
  <2> QED BY <2>1, <2>2, <2>4, NoRequestType, OneRequestTypes
<1> QED BY <1>2, <1>3, <1>4, <1>5, <1>6, <1>7, <1>8, <1>9, <1>10 DEF Proceed

LEMMA StartTypes ==
  ASSUME SessionInv, NEW p \in BrowserTabs, OpenPage(p) \/ LogIn(p) \/ Use(p)
  PROVE  SessionTypes'
<1>0. SessionTypes
  BY DEF SessionInv
<1>1. CASE OpenPage(p)
  <2>1. /\ UNCHANGED <<keyStore, keyPairs, cookies, boundTo, logins>> /\ issued' = issued
        /\ <<p, "load">> \in Callers /\ <<p, "user">> \in Callers
    BY <1>1 DEF OpenPage, issued, Callers, Threads
  <2>2. Asks("refresh") \in CallRecords /\ NoRequest \in CallRecords
    BY AskingCall, NoRequestType DEF CallTypes
  <2>3. sessionCalls' \in [Callers -> CallRecords]
    BY <1>0, <1>1, <2>1, <2>2 DEF OpenPage, SessionTypes
  <2>4. keygen' \in [Callers -> Nat] /\ opens' \in [BrowserTabs -> Nat]
    <3> DEFINE first == [keygen EXCEPT ![<<p, "load">>] = 0]
    <3>1. first \in [Callers -> Nat]
      BY <1>0, <2>1 DEF SessionTypes
    <3>2. keygen' = [first EXCEPT ![<<p, "user">>] = 0]
      BY <1>1 DEF OpenPage
    <3>3. keygen' \in [Callers -> Nat]
      <4> HIDE DEF first
      <4> QED BY <2>1, <3>1, <3>2
    <3>4. opens[p] + 1 \in Nat /\ opens' = [opens EXCEPT ![p] = opens[p] + 1]
      BY <1>0, <1>1 DEF OpenPage, SessionTypes
    <3>5. opens' \in [BrowserTabs -> Nat]
      BY <1>0, <3>4 DEF SessionTypes
    <3> QED BY <3>3, <3>5
  <2>5. pages' \in [BrowserTabs -> [shows : {"closed", "loading", "login", "home"}, token : Nat]]
    BY <1>0, <1>1 DEF OpenPage, SessionTypes, NoToken
  <2> QED BY <1>0, <2>1, <2>3, <2>4, <2>5 DEF SessionTypes
<1>2. CASE LogIn(p) \/ Use(p)
  <2>1. PICK type \in CallTypes : Act(p, type)
    BY <1>2 DEF LogIn, Use, CallTypes
  <2>2. CallReplaced(p, "user", Asks(type)) /\ Asks(type) \in CallRecords
    BY <1>0, <2>1, AskingCall, CallReplacing DEF Act, Threads
  <2>3. UNCHANGED <<pages, keyVars, serverVars, opens>>
    BY <2>1 DEF Act
  <2>4. UNCHANGED <<pages, keyVars, boundTo, opens, logins, cookies>>
    BY <2>3 DEF serverVars
  <2>5. sessionCalls' \in [Callers -> CallRecords] /\ issued' = issued
    BY <2>2, <2>4 DEF CallReplaced, issued
  <2> QED BY <1>0, <2>4, <2>5 DEF SessionTypes, keyVars
<1> QED BY <1>1, <1>2

\* What a step of one tab leaves as it is.
Framed(p) ==
  \A r \in BrowserTabs \ {p} :
    /\ pages'[r] = pages[r] /\ opens'[r] = opens[r]
    /\ \A th \in Threads : sessionCalls'[r, th] = sessionCalls[r, th] /\ keygen'[r, th] = keygen[r, th]

LEMMA CallsFramed ==
  ASSUME SessionTypes, NEW p \in BrowserTabs, NEW th \in Threads, NEW q,
         sessionCalls' = [sessionCalls EXCEPT ![<<p, th>>] = q]
  PROVE  \A r \in BrowserTabs \ {p}, t \in Threads : sessionCalls'[r, t] = sessionCalls[r, t]
<1>1. \A r \in BrowserTabs \ {p}, t \in Threads : <<r, t>> \in Callers /\ <<r, t>> # <<p, th>>
  BY DEF Callers
<1> QED BY <1>1 DEF SessionTypes

\* Only an opened tab goes on, and it leaves the others alone.
LEMMA ProceedActs ==
  ASSUME SessionInv, NEW p \in BrowserTabs, NEW th \in Threads, Proceed(p, th) \/ RevokeFails(p, th) \/ Lost(p, th)
  PROVE  opens[p] # 0 /\ opens' = opens /\ Framed(p)
<1>0. SessionTypes
  BY DEF SessionInv
<1>1. opens' = opens
  BY DEF Proceed, Lost, RevokeFails, GenerateKey, StorePrivate, StorePublic, Prove, SendCall, ServeRefused, ServeLogin, ServeRefresh,
         RevokeOld, ServeLogout, ServeAdmitted, Refused, LoadAnswered, UserAnswered
<1>2. sessionCalls[p, th].stage # "none" \/ keygen[p, th] # 0
  BY DEF Proceed, Lost, RevokeFails, GenerateKey, StorePrivate, StorePublic, Prove, SendCall, ServeRefused, ServeLogin, ServeRefresh,
         RevokeOld, ServeLogout, ServeAdmitted, Refused, LoadAnswered, UserAnswered
<1>3. opens[p] # 0
  BY <1>2, NoRequestType DEF SessionInv, TabsInv, NotOpened
<1>4. \A r \in BrowserTabs \ {p}, t \in Threads : sessionCalls'[r, t] = sessionCalls[r, t]
  <2>1. sessionCalls' = sessionCalls \/ \E q : sessionCalls' = [sessionCalls EXCEPT ![<<p, th>>] = q]
    <3>1. CASE GenerateKey(p, th) \/ StorePrivate(p, th) \/ StorePublic(p, th)
      BY <3>1 DEF GenerateKey, StorePrivate, StorePublic
    <3>2. CASE Prove(p, th)
      BY <1>0, <3>2, ProvedRecord
    <3>3. CASE SendCall(p, th)
      BY <1>0, <3>3, SentRecord
    <3>4. ASSUME NEW stage, NEW token, Reply(p, th, stage, token)
          PROVE  \E q : sessionCalls' = [sessionCalls EXCEPT ![<<p, th>>] = q]
      BY <3>4 DEF Reply
    <3>5. CASE ServeRefused(p, th) \/ ServeLogin(p, th) \/ ServeRefresh(p, th) \/ RevokeOld(p, th)
            \/ RevokeFails(p, th) \/ ServeLogout(p, th) \/ ServeAdmitted(p, th)
      BY <3>4, <3>5 DEF ServeRefused, ServeLogin, ServeRefresh, RevokeOld, RevokeFails, ServeLogout, ServeAdmitted
    <3>6. CASE Refused(p, th) \/ Lost(p, th)
      BY <3>6 DEF Refused, Lost, Rested
    <3>7. CASE th = "load" /\ LoadAnswered(p)
      BY <3>7 DEF LoadAnswered, Rested
    <3>8. CASE th = "user" /\ UserAnswered(p)
      BY <3>8 DEF UserAnswered, Rested
    <3> QED BY <3>1, <3>2, <3>3, <3>5, <3>6, <3>7, <3>8 DEF Proceed
  <2>2. CASE sessionCalls' = sessionCalls
    BY <2>2
  <2>3. ASSUME NEW q, sessionCalls' = [sessionCalls EXCEPT ![<<p, th>>] = q]
        PROVE  \A r \in BrowserTabs \ {p}, t \in Threads : sessionCalls'[r, t] = sessionCalls[r, t]
    BY <1>0, <2>3, CallsFramed
  <2> QED BY <2>1, <2>2, <2>3
<1>5. \A r \in BrowserTabs \ {p}, t \in Threads : keygen'[r, t] = keygen[r, t]
  <2>1. keygen' = keygen \/ \E n : keygen' = [keygen EXCEPT ![<<p, th>>] = n]
    BY DEF Proceed, Lost, RevokeFails, GenerateKey, StorePrivate, StorePublic, Prove, SendCall, ServeRefused, ServeLogin, ServeRefresh,
           RevokeOld, ServeLogout, ServeAdmitted, Refused, LoadAnswered, UserAnswered, keyVars
  <2>2. \A r \in BrowserTabs \ {p}, t \in Threads : <<r, t>> \in Callers /\ <<r, t>> # <<p, th>>
    BY DEF Callers
  <2> QED BY <1>0, <2>1, <2>2 DEF SessionTypes
<1>6. \A r \in BrowserTabs \ {p} : pages'[r] = pages[r]
  <2>1. pages' = pages \/ (\E n : pages' = [pages EXCEPT ![p] = n]) \/ \E what : pages' = [pages EXCEPT ![p].shows = what]
    BY DEF Proceed, Lost, RevokeFails, GenerateKey, StorePrivate, StorePublic, Prove, SendCall, ServeRefused, ServeLogin, ServeRefresh,
           RevokeOld, ServeLogout, ServeAdmitted, Refused, LoadAnswered, UserAnswered, FailedPage, Show, GiveToken
  <2> QED BY <1>0, <2>1 DEF SessionTypes
<1> QED BY <1>1, <1>3, <1>4, <1>5, <1>6 DEF Framed

LEMMA StartActs ==
  ASSUME SessionInv, NEW p \in BrowserTabs, OpenPage(p) \/ LogIn(p) \/ Use(p)
  PROVE  Framed(p) /\ opens'[p] # 0 /\ (opens' = opens \/ OpenPage(p))
<1>0. SessionTypes
  BY DEF SessionInv
<1>1. CASE OpenPage(p)
  <2>1. \A r \in BrowserTabs \ {p}, t, th \in Threads : <<r, t>> \in Callers /\ <<r, t>> # <<p, th>>
    BY DEF Callers
  <2>2. \A r \in BrowserTabs \ {p}, t \in Threads : sessionCalls'[r, t] = sessionCalls[r, t] /\ keygen'[r, t] = keygen[r, t]
    <3> TAKE r \in BrowserTabs \ {p}, t \in Threads
    <3>1. <<r, t>> \in Callers /\ <<r, t>> # <<p, "load">> /\ <<r, t>> # <<p, "user">>
      BY <2>1 DEF Threads
    <3> QED BY <1>0, <1>1, <3>1 DEF OpenPage, SessionTypes
  <2>3. \A r \in BrowserTabs \ {p} : pages'[r] = pages[r] /\ opens'[r] = opens[r]
    BY <1>0, <1>1 DEF OpenPage, SessionTypes
  <2>4. opens'[p] # 0
    BY <1>0, <1>1 DEF OpenPage, SessionTypes
  <2> QED BY <1>1, <2>2, <2>3, <2>4 DEF Framed
<1>2. CASE LogIn(p) \/ Use(p)
  <2>1. PICK type \in CallTypes : Act(p, type) /\ pages[p].shows # "closed"
    BY <1>2 DEF LogIn, Use, CallTypes
  <2>2. opens[p] # 0
    BY <2>1 DEF SessionInv, TabsInv, NotOpened
  <2>3. UNCHANGED <<pages, keygen, opens>> /\ sessionCalls' = [sessionCalls EXCEPT ![<<p, "user">>] = Asks(type)]
    BY <2>1 DEF Act, keyVars
  <2>4. \A r \in BrowserTabs \ {p}, t \in Threads : sessionCalls'[r, t] = sessionCalls[r, t]
    BY <1>0, <2>3, CallsFramed DEF Threads
  <2> QED BY <2>2, <2>3, <2>4 DEF Framed
<1> QED BY <1>1, <1>2

\* Tokens are issued before they are alive.
LEMMA LiveAreIssued ==
  ASSUME SessionInv, SessionNext
  PROVE  live' \subseteq DOMAIN boundTo'
<1>0. SessionTypes /\ live \subseteq DOMAIN boundTo
  BY DEF SessionInv, TabsInv
<1>1. PICK p \in BrowserTabs : OpenPage(p) \/ LogIn(p) \/ Use(p) \/ \E th \in Threads : Proceed(p, th) \/ RevokeFails(p, th) \/ Lost(p, th)
  BY DEF SessionNext
<1>2. CASE OpenPage(p) \/ LogIn(p) \/ Use(p)
  BY <1>0, <1>2 DEF OpenPage, EndRotations, LogIn, Use, Act, serverVars
<1>3. ASSUME NEW th \in Threads, Proceed(p, th) \/ RevokeFails(p, th) \/ Lost(p, th)
      PROVE  live' \subseteq DOMAIN boundTo'
  <2>1. CASE Issue(sessionCalls[p, th]) /\ live' \subseteq live \cup {issued + 1}
    BY <1>0, <2>1, CallType, Issuing
  <2>2. CASE boundTo' = boundTo /\ live' \subseteq live
    BY <1>0, <2>2
  <2>3. \/ Issue(sessionCalls[p, th]) /\ live' \subseteq live \cup {issued + 1}
        \/ boundTo' = boundTo /\ live' \subseteq live
    BY <1>3 DEF Proceed, Lost, RevokeFails, GenerateKey, StorePrivate, StorePublic, Prove, SendCall, ServeRefused, ServeLogin, ServeRefresh,
           RevokeOld, ServeLogout, ServeAdmitted, Refused, LoadAnswered, UserAnswered, EndRotations, serverVars
  <2> QED BY <2>1, <2>2, <2>3
<1> QED BY <1>1, <1>2, <1>3

LEMMA OrphanInvStep ==
  ASSUME SessionInv, SessionNext
  PROVE  OrphanInv'
<1>1. SessionTypes /\ OrphanInv /\ live \subseteq DOMAIN boundTo
  BY DEF SessionInv, TabsInv
<1>2. PICK p \in BrowserTabs :
        OpenPage(p) \/ LogIn(p) \/ Use(p) \/ \E th \in Threads : Proceed(p, th) \/ RevokeFails(p, th) \/ Lost(p, th)
  BY DEF SessionNext
<1>3. CASE OpenPage(p) \/ LogIn(p) \/ Use(p)
  BY <1>1, <1>3, StartKeepsOrphans
<1>4. ASSUME NEW th \in Threads, Proceed(p, th) \/ RevokeFails(p, th) \/ Lost(p, th)
      PROVE  OrphanInv'
  BY <1>1, <1>4, ClientKeepsOrphans, ServerKeepsOrphans DEF Proceed
<1> QED BY <1>2, <1>3, <1>4

\* The step of the one tab that is open keeps what is known of it.
LEMMA OneTabStep ==
  ASSUME SessionInv, NEW p \in BrowserTabs, TabInv(p),
         OpenPage(p) \/ LogIn(p) \/ Use(p) \/ \E th \in Threads : Proceed(p, th) \/ RevokeFails(p, th) \/ Lost(p, th)
  PROVE  TabInv(p)'
<1>1. SessionTypes /\ OrphanInv /\ live \subseteq DOMAIN boundTo
  BY DEF SessionInv, TabsInv
<1>2. CASE OpenPage(p)
  BY <1>1, <1>2, OpenKeepsTab
<1>3. CASE LogIn(p) \/ Use(p)
  BY <1>1, <1>3, ActKeepsTab
<1>4. ASSUME NEW th \in Threads, Proceed(p, th) \/ RevokeFails(p, th) \/ Lost(p, th)
      PROVE  TabInv(p)'
  <2>1. CASE GenerateKey(p, th) \/ StorePrivate(p, th) \/ StorePublic(p, th)
    BY <1>1, <2>1, KeyKeepsTab
  <2>2. CASE Prove(p, th)
    BY <1>1, <2>2, ProveKeepsTab
  <2>3. CASE SendCall(p, th)
    BY <1>1, <2>3, SendKeepsTab
  <2>4. CASE ServeRefused(p, th)
    BY <1>1, <2>4, RefuseKeepsTab
  <2>5. CASE ServeLogin(p, th)
    BY <1>1, <2>5, ServeLoginKeepsTab
  <2>6. CASE ServeRefresh(p, th)
    BY <1>1, <2>6, ServeRefreshKeepsTab
  <2>7. CASE RevokeOld(p, th)
    BY <1>1, <2>7, RevokeKeepsTab
  <2>8. CASE ServeLogout(p, th)
    BY <1>1, <2>8, ServeLogoutKeepsTab
  <2>9. CASE ServeAdmitted(p, th)
    BY <1>1, <2>9, ServeAdmittedKeepsTab
  <2>10. CASE Refused(p, th) \/ Lost(p, th)
    BY <1>1, <2>10, FailureKeepsTab
  <2>11. CASE RevokeFails(p, th)
    BY <1>1, <2>11, RevokeFailsKeepsTab
  <2>12. CASE LoadAnswered(p)
    BY <1>1, <2>12, LoadKeepsTab
  <2>13. CASE UserAnswered(p)
    BY <1>1, <2>13, UserKeepsTab
  <2> QED BY <1>4, <2>1, <2>2, <2>3, <2>4, <2>5, <2>6, <2>7, <2>8, <2>9, <2>10, <2>11, <2>12, <2>13 DEF Proceed
<1> QED BY <1>2, <1>3, <1>4

LEMMA SessionInvStep ==
  ASSUME SessionInv, [SessionNext]_sessionVars
  PROVE  SessionInv'
<1>1. CASE UNCHANGED sessionVars
  <2>1. UNCHANGED <<pages, sessionCalls, keygen, keyStore, keyPairs, cookies, live, boundTo, opens, logins, orphans, hasty>>
    BY <1>1 DEF sessionVars
  <2>2. SessionTypes'
    BY <2>1 DEF SessionInv, SessionTypes, issued
  <2>3. \A p \in BrowserTabs : NotOpened(p)' = NotOpened(p)
    BY <2>1 DEF NotOpened
  <2>4. ASSUME NEW p \in BrowserTabs, TabInv(p)
        PROVE  TabInv(p)'
    <3>1. ThreadsInv(p)' /\ KeysInv(p)'
      BY <2>1, <2>4 DEF TabInv, ThreadsInv, KeysInv
    <3>2. CountInv(p)'
      BY <2>1, <2>4 DEF TabInv, CountInv, InUse, HalfRotated
    <3>3. PageInv(p) => PageInv(p)'
      BY <2>1 DEF PageInv, SignedIn, Granted
    <3>4. hasty' = hasty
      BY <2>1
    <3> QED BY <2>4, <3>1, <3>2, <3>3, <3>4 DEF TabInv
  <2>5. OpenedTabs' = OpenedTabs
    BY <2>1 DEF OpenedTabs
  <2>6. TabsInv'
    BY <2>1, <2>3, <2>4, <2>5 DEF SessionInv, TabsInv
  <2>7. issued' = issued
    BY <2>1 DEF issued
  <2>8. OrphanInv'
    BY <2>1, <2>7 DEF SessionInv, OrphanInv, NoOrphan, NewAlone, Rotating
  <2> QED BY <2>2, <2>6, <2>8 DEF SessionInv
<1>2. CASE SessionNext
  <2>0. SessionTypes /\ TabsInv
    BY DEF SessionInv
  <2>1. PICK p \in BrowserTabs :
          OpenPage(p) \/ LogIn(p) \/ Use(p) \/ \E th \in Threads : Proceed(p, th) \/ RevokeFails(p, th) \/ Lost(p, th)
    BY <1>2 DEF SessionNext
  <2>2. SessionTypes'
    BY <2>1, StartTypes, ProceedTypes
  <2>3. Framed(p) /\ opens'[p] # 0
    BY <2>1, StartActs, ProceedActs
  <2>4. OpenedTabs' = OpenedTabs \cup {p}
    <3>1. \A r \in BrowserTabs : opens[r] \in Nat /\ opens'[r] \in Nat
      BY <2>0, <2>2 DEF SessionTypes
    <3>2. opens[p] # 0 => p \in OpenedTabs
      BY <3>1 DEF OpenedTabs
    <3>3. \A r \in BrowserTabs : r # p => opens'[r] = opens[r]
      BY <2>3 DEF Framed
    <3>4. \A r \in BrowserTabs : r \in OpenedTabs' <=> opens'[r] > 0
      BY DEF OpenedTabs
    <3>5. \A r \in BrowserTabs : r \in OpenedTabs <=> opens[r] > 0
      BY DEF OpenedTabs
    <3>6. OpenedTabs' \subseteq BrowserTabs /\ OpenedTabs \subseteq BrowserTabs
      BY DEF OpenedTabs
    <3>7. opens'[p] > 0
      BY <2>3, <3>1
    <3> QED BY <3>3, <3>4, <3>5, <3>6, <3>7
  <2>5. IsFiniteSet(OpenedTabs') /\ OpenedTabs' # {}
    BY <2>0, <2>4, FS_AddElement DEF TabsInv
  <2>6. live' \subseteq DOMAIN boundTo'
    BY <1>2, LiveAreIssued
  <2>7. ASSUME NEW r \in BrowserTabs, opens'[r] = 0
        PROVE  NotOpened(r)'
    <3>1. /\ pages'[r] = pages[r] /\ opens'[r] = opens[r]
          /\ \A th \in Threads : sessionCalls'[r, th] = sessionCalls[r, th] /\ keygen'[r, th] = keygen[r, th]
      BY <2>3, <2>7 DEF Framed
    <3>2. NotOpened(r)
      BY <2>0, <2>7, <3>1 DEF TabsInv
    <3> QED BY <3>1, <3>2 DEF NotOpened
  <2>8. ASSUME NEW r \in BrowserTabs, OpenedTabs' \subseteq {r}
        PROVE  TabInv(r)'
    <3>1. r = p
      BY <2>4, <2>8
    <3>2. OpenedTabs \subseteq {r}
      BY <2>4, <2>8
    <3>3. TabInv(p)
      BY <2>0, <3>1, <3>2 DEF TabsInv
    <3>4. TabInv(p)'
      BY <2>1, <3>3, OneTabStep
    <3> QED BY <3>1, <3>4
  <2> QED BY <1>2, <2>2, <2>5, <2>6, <2>7, <2>8, OrphanInvStep DEF SessionInv, TabsInv
<1> QED BY <1>1, <1>2

LEMMA SoleTab ==
  ASSUME SessionInv, Sole
  PROVE  OpenedTabs = {} \/ \E p \in BrowserTabs : OpenedTabs = {p}
<1>1. IsFiniteSet(OpenedTabs) /\ OpenedTabs \subseteq BrowserTabs /\ Cardinality(OpenedTabs) \in Nat
  BY FS_CardinalityType DEF SessionInv, TabsInv, OpenedTabs
<1>2. CASE Cardinality(OpenedTabs) = 0
  BY <1>1, <1>2, FS_EmptySet
<1>3. CASE Cardinality(OpenedTabs) = 1
  <2>1. \E p : OpenedTabs = {p}
    BY <1>1, <1>3, FS_Singleton
  <2> QED BY <1>1, <2>1
<1> QED BY <1>1, <1>2, <1>3 DEF Sole

LEMMA SessionInvHolds ==
  ASSUME SessionInv
  PROVE  SessionHolds /\ SignedInWorks
<1>1. SessionPerLogin
  <2>1. cookies.refresh \notin orphans
    BY DEF SessionInv, OrphanInv, NoOrphan
  <2>2. ASSUME Sole, Rotating(Callers) = {}
        PROVE  Cardinality(InUse) <= logins
    <3>1. CASE OpenedTabs = {}
      <4>1. Cardinality(InUse) = 0 /\ logins \in Nat
        BY <3>1, FS_EmptySet DEF SessionInv, SessionTypes, TabsInv, InUse
      <4> QED BY <4>1
    <3>2. ASSUME NEW p \in BrowserTabs, OpenedTabs = {p}
          PROVE  Cardinality(InUse) <= logins
      <4>1. CountInv(p)
        BY <3>2 DEF SessionInv, TabsInv, TabInv
      <4>2. sessionCalls[p, "load"].stage # "issued"
        BY <2>2 DEF Rotating, Callers, Threads
      <4> QED BY <4>1, <4>2 DEF CountInv, HalfRotated
    <3> QED BY <2>2, <3>1, <3>2, SoleTab
  <2> QED BY <2>1, <2>2 DEF SessionPerLogin, InUse
<1>2. SoleKeyPairExists
  <2> SUFFICES ASSUME Sole, 0 \notin {keyStore.private, keyStore.public}
               PROVE  keyStore.private = keyStore.public
    BY DEF SoleKeyPairExists, KeyPairExists
  <2>1. CASE OpenedTabs = {}
    BY <2>1 DEF SessionInv, TabsInv
  <2>2. ASSUME NEW p \in BrowserTabs, OpenedTabs = {p}
        PROVE  keyStore.private = keyStore.public
    BY <2>2 DEF SessionInv, TabsInv, TabInv, KeysInv
  <2> QED BY <2>1, <2>2, SoleTab
<1>3. SignedInWorks
  <2> SUFFICES ASSUME Sole, ~hasty, NEW p \in OpenedTabs, pages[p].shows = "home", PageRests(p)
               PROVE  /\ cookies.refresh \in live /\ pages[p].token = cookies.access
                      /\ keyStore.private = keyStore.public
                      /\ boundTo[cookies.access] = keyStore.public /\ boundTo[cookies.refresh] = keyStore.public
    BY DEF SignedInWorks
  <2>1. p \in BrowserTabs /\ OpenedTabs = {p}
    BY SoleTab DEF OpenedTabs
  <2>2. TabInv(p)
    BY <2>1 DEF SessionInv, TabsInv
  <2>3. sessionCalls[p, "user"].type # "logout"
    BY DEF PageRests, Threads
  <2>4. SignedIn(p)
    BY <2>2, <2>3 DEF TabInv, PageInv
  <2>5. keyStore.private = keyStore.public
    BY <2>2, <2>4 DEF TabInv, KeysInv, SignedIn
  <2> QED BY <2>4, <2>5 DEF SignedIn
<1> QED BY <1>1, <1>2, <1>3 DEF SessionHolds

(* In a browser with one tab, however often its page is reloaded and whatever *)
(* requests, answers and revocations fail: apart from what a cut rotation     *)
(* left, there are no more sessions than there were logins, and the stored    *)
(* keys are of one pair; and with any number of tabs no cookie ever holds a   *)
(* session that a cut rotation left.                                          *)
THEOREM SessionKept == Spec => []SessionHolds
<1>1. Init => SessionInv
  BY PartsInit, SessionInvInit
<1>2. SessionInv /\ [Next]_vars => SessionInv'
  BY PartsStep, SessionInvStep
<1>3. SessionInv => SessionHolds
  BY SessionInvHolds
<1> QED BY <1>1, <1>2, <1>3, PTL DEF Spec

(* In a browser with one tab a page that shows the user signed in is: its     *)
(* session is alive and its next request will be admitted, for any number of  *)
(* reloads, lost answers, logins, verifications and logouts.                  *)
THEOREM HomePageIsSignedIn == Spec => []SignedInWorks
<1>1. Init => SessionInv
  BY PartsInit, SessionInvInit
<1>2. SessionInv /\ [Next]_vars => SessionInv'
  BY PartsStep, SessionInvStep
<1>3. SessionInv => SignedInWorks
  BY SessionInvHolds
<1> QED BY <1>1, <1>2, <1>3, PTL DEF Spec

-----------------------------------------------------------------------------
(* The forms of uploaded documents.                                           *)

Stored == Nat \cup {NoFile}
DocRecords == [type : {"upload", "delete", "submit"}, kind : PaperKinds, file : Stored,
               kept : [PaperKinds -> SUBSET Stored], reply : [PaperKinds -> SUBSET Stored], from : Nat,
               stage : {"sent", "saved", "done"}]
Dialogs == [busy : SUBSET PaperKinds, file : Stored, kind : PaperKinds, deleting : BOOLEAN, submitting : BOOLEAN]
DocTypes ==
  /\ which \in Forms
  /\ saved \in [PaperKinds -> SUBSET Stored] /\ store \in [PaperKinds -> SUBSET Stored] /\ shownFiles \in [PaperKinds -> SUBSET Stored]
  /\ dialog \in Dialogs /\ opening \in [times : Nat, open : BOOLEAN]
  /\ docRequests \in Seq(DocRecords) /\ promised \in [kept : SUBSET Stored, gone : SUBSET Stored]

\* A dialog says that it waits for a request only when one is under way; one
\* that is closed is at rest, and one that deletes says what.
UploadUnderWay(k) == \E n \in DocsInFlight : Mine(n) /\ docRequests[n].type = "upload" /\ docRequests[n].kind = k
DeletionUnderWay == \E n \in DocsInFlight : Mine(n) /\ docRequests[n].type = "delete" /\ docRequests[n].file = dialog.file
SubmitUnderWay == \E n \in DocsInFlight : Mine(n) /\ docRequests[n].type = "submit"
DialogInv ==
  /\ \A k \in dialog.busy : UploadUnderWay(k)
  /\ dialog.deleting => DeletionUnderWay /\ dialog.file # NoFile
  /\ dialog.submitting => SubmitUnderWay
  /\ ~opening.open => dialog.busy = {} /\ ~dialog.deleting /\ ~dialog.submitting /\ dialog.file = NoFile

\* A request of a room's form that was not left early: it is the only one, its
\* controls are disabled, and it carries the paths the form shows.
Carries(n) ==
  LET q == docRequests[n] IN
     \/ /\ q.type = "upload" /\ "contract" \in dialog.busy /\ dialog.file = NoFile
        /\ q.file = n /\ n \notin promised.gone
        /\ q.kept["contract"] = shownFiles["contract"]
     \/ /\ q.type = "delete" /\ dialog.deleting /\ q.file = dialog.file /\ q.file \notin promised.kept
        /\ q.kept["contract"] = shownFiles["contract"] \ {q.file}
Alone(n) ==
  /\ Mine(n) /\ \A m \in DocsInFlight : m = n
  /\ Carries(n)
  /\ docRequests[n].kind = "contract" /\ docRequests[n].kept["cccd"] = {}
  /\ docRequests[n].stage = "saved" => docRequests[n].reply = saved /\ saved = WithFile(docRequests[n])

RoomInv ==
  /\ store = shownFiles /\ shownFiles["cccd"] = {} /\ saved["cccd"] = {}
  /\ shownFiles["contract"] \subseteq 0..Len(docRequests) /\ promised.gone \subseteq 0..Len(docRequests)
  /\ promised.kept \subseteq shownFiles["contract"] /\ promised.kept \subseteq saved["contract"]
  /\ \A f \in promised.gone : f \notin shownFiles["contract"] /\ f \notin saved["contract"]
  /\ dialog.file # NoFile => dialog.kind = "contract" /\ dialog.file \in 0..Len(docRequests)
  /\ \A n \in DocsInFlight : Alone(n)

DocInv == DocTypes /\ DialogInv /\ (which = "room" /\ ~leftBusy => RoomInv)

\* How a step changes the list of requests.
DocAdded(q) ==
  /\ docRequests' \in Seq(DocRecords) /\ Len(docRequests') = Len(docRequests) + 1 /\ Len(docRequests) \in Nat
  /\ docRequests'[Len(docRequests) + 1] = q
  /\ Len(docRequests) + 1 \notin DocsInFlight /\ DocsInFlight \subseteq 1..Len(docRequests)
  /\ DocsInFlight' = DocsInFlight \cup {Len(docRequests) + 1}
  /\ \A n \in DocsInFlight : docRequests'[n] = docRequests[n]

LEMMA DocAdding ==
  ASSUME DocTypes, NEW q \in DocRecords, q.stage = "sent", docRequests' = Append(docRequests, q)
  PROVE  DocAdded(q)
<1>1. PICK k \in Nat : k = Len(docRequests)
  BY DEF DocTypes
<1>2. /\ docRequests' \in Seq(DocRecords) /\ Len(docRequests') = k + 1 /\ docRequests'[k + 1] = q
      /\ \A n \in 1..k : docRequests'[n] = docRequests[n]
  BY <1>1 DEF DocTypes
<1>3. DOMAIN docRequests = 1..k /\ DOMAIN docRequests' = 1..(k + 1)
  BY <1>1, <1>2 DEF DocTypes
<1>4. \A n : n \in DocsInFlight <=> n \in 1..k /\ docRequests[n].stage # "done"
  BY <1>3 DEF DocsInFlight
<1>5. \A n : n \in DocsInFlight' <=> n \in 1..(k + 1) /\ docRequests'[n].stage # "done"
  BY <1>3 DEF DocsInFlight
<1>6. DocsInFlight \subseteq 1..k /\ k + 1 \notin DocsInFlight
  BY <1>4
<1>7. k + 1 \in DocsInFlight'
  BY <1>2, <1>5
<1>8. \A n \in 1..k : n \in DocsInFlight' <=> n \in DocsInFlight
  BY <1>2, <1>4, <1>5
<1>9. DocsInFlight' = DocsInFlight \cup {k + 1}
  <2>1. \A n : n \in 1..(k + 1) <=> n \in 1..k \/ n = k + 1
    OBVIOUS
  <2> QED BY <1>5, <1>6, <1>7, <1>8, <2>1
<1>10. \A n \in DocsInFlight : docRequests'[n] = docRequests[n]
  BY <1>2, <1>6
<1> QED BY <1>1, <1>2, <1>6, <1>9, <1>10 DEF DocAdded

DocReplaced(n, q) ==
  /\ docRequests' \in Seq(DocRecords) /\ Len(docRequests') = Len(docRequests)
  /\ docRequests'[n] = q
  /\ DocsInFlight' = IF q.stage = "done" THEN DocsInFlight \ {n} ELSE DocsInFlight
  /\ \A m \in DocsInFlight : m # n => docRequests'[m] = docRequests[m]

LEMMA DocReplacing ==
  ASSUME DocTypes, NEW n \in DOMAIN docRequests, NEW q \in DocRecords, docRequests[n].stage # "done",
         docRequests' = [docRequests EXCEPT ![n] = q]
  PROVE  DocReplaced(n, q)
<1>1. /\ docRequests' \in Seq(DocRecords) /\ Len(docRequests') = Len(docRequests) /\ docRequests'[n] = q
      /\ DOMAIN docRequests' = DOMAIN docRequests
      /\ \A m \in DOMAIN docRequests : m # n => docRequests'[m] = docRequests[m]
  BY DEF DocTypes
<1>2. \A m : m \in DocsInFlight <=> m \in DOMAIN docRequests /\ docRequests[m].stage # "done"
  BY DEF DocsInFlight
<1>3. \A m : m \in DocsInFlight' <=> m \in DOMAIN docRequests /\ docRequests'[m].stage # "done"
  BY <1>1 DEF DocsInFlight
<1>4. DocsInFlight' = IF q.stage = "done" THEN DocsInFlight \ {n} ELSE DocsInFlight
  BY <1>1, <1>2, <1>3
<1> QED BY <1>1, <1>2, <1>4 DEF DocReplaced

LEMMA RequestType ==
  ASSUME DocTypes, NEW n \in DOMAIN docRequests
  PROVE  docRequests[n] \in DocRecords
BY DEF DocTypes

LEMMA NewRequest ==
  ASSUME DocTypes, NEW type \in {"upload", "delete", "submit"}, NEW kind \in PaperKinds, NEW file \in Stored,
         NEW kept \in [PaperKinds -> SUBSET Stored], SendFiles(type, kind, file, kept)
  PROVE  \E q \in DocRecords :
           /\ DocAdded(q) /\ q.type = type /\ q.kind = kind /\ q.file = file /\ q.kept = kept
           /\ q.from = opening.times /\ q.stage = "sent"
<1> DEFINE q == [type |-> type, kind |-> kind, file |-> file, kept |-> kept, reply |-> NoPapers,
                 from |-> opening.times, stage |-> "sent"]
<1>1. NoPapers \in [PaperKinds -> SUBSET Stored] /\ opening.times \in Nat
  BY DEF NoPapers, DocTypes
<1>2. q \in DocRecords /\ q.stage = "sent"
  BY <1>1 DEF DocRecords
<1>3. docRequests' = Append(docRequests, q)
  BY DEF SendFiles
<1>4. DocAdded(q)
  BY <1>2, <1>3, DocAdding
<1> QED BY <1>2, <1>4

LEMMA DocInvInit == DocInit => DocInv
<1> SUFFICES ASSUME DocInit PROVE DocInv
  OBVIOUS
<1>1. DocsInFlight = {} /\ docRequests = <<>> /\ Len(docRequests) = 0
  BY DEF DocInit, DocsInFlight
<1>2. saved \in [PaperKinds -> SUBSET Stored] /\ store = saved /\ shownFiles = saved
  BY DEF DocInit, Stored
<1>3. /\ Rest.busy = {} /\ Rest.deleting = FALSE /\ Rest.submitting = FALSE /\ Rest.file = NoFile
      /\ Rest \in Dialogs
  BY DEF Rest, PaperKinds, Dialogs, Stored
<1>4. DocTypes
  <2>1. docRequests \in Seq(DocRecords)
    BY <1>1
  <2>2. promised \in [kept : SUBSET Stored, gone : SUBSET Stored] /\ opening \in [times : Nat, open : BOOLEAN]
    BY DEF DocInit, Stored
  <2> QED BY <1>2, <1>3, <2>1, <2>2 DEF DocTypes, DocInit
<1>5. DialogInv
  BY <1>3 DEF DialogInv, DocInit
<1>6. which = "room" => RoomInv
  <2> SUFFICES ASSUME which = "room" PROVE RoomInv
    OBVIOUS
  <2>1. saved["contract"] = {0} /\ saved["cccd"] = {}
    BY DEF DocInit, FirstKind, PaperKinds
  <2>2. promised.kept = {0} /\ promised.gone = {} /\ dialog.file = NoFile
    BY <1>3 DEF DocInit
  <2>3. {0} \subseteq 0..Len(docRequests)
    BY <1>1
  <2> QED BY <1>1, <1>2, <2>1, <2>2, <2>3 DEF RoomInv
<1> QED BY <1>4, <1>5, <1>6 DEF DocInv

LEMMA UploadKeepsInv ==
  ASSUME DocInv, NEW kind \in PaperKinds, StartUpload(kind), which = "room" => kind = "contract"
  PROVE  DocInv'
<1>1. DocTypes /\ DialogInv
  BY DEF DocInv
<1>2. PICK k \in Nat : k = Len(docRequests)
  BY <1>1 DEF DocTypes
<1>3. PICK q \in DocRecords :
        /\ DocAdded(q) /\ q.type = "upload" /\ q.kind = kind /\ q.file = k + 1 /\ q.kept = shownFiles
        /\ q.from = opening.times /\ q.stage = "sent"
  <2>1. SendFiles("upload", kind, k + 1, shownFiles) /\ shownFiles \in [PaperKinds -> SUBSET Stored] /\ k + 1 \in Stored
    BY <1>1, <1>2 DEF StartUpload, DocTypes, Stored
  <2> QED BY <1>1, <2>1, NewRequest
<1>4. /\ UNCHANGED <<which, saved, store, shownFiles, opening, promised, leftBusy>>
      /\ dialog' = [dialog EXCEPT !.busy = {kind}]
      /\ opening.open /\ dialog.file = NoFile /\ kind \notin dialog.busy
  BY DEF StartUpload, AtForm
<1>5. /\ dialog' \in Dialogs /\ dialog'.busy = {kind} /\ dialog'.file = NoFile /\ dialog'.kind = dialog.kind
      /\ dialog'.deleting = dialog.deleting /\ dialog'.submitting = dialog.submitting
  BY <1>1, <1>4 DEF DocTypes, Dialogs
<1>6. DocTypes'
  BY <1>1, <1>3, <1>4, <1>5 DEF DocTypes, DocAdded
<1>7. Mine(k + 1)' /\ \A n \in DocsInFlight : Mine(n)' = Mine(n)
  BY <1>2, <1>3, <1>4 DEF Mine, DocAdded
<1>8. DialogInv'
  <2>1. UploadUnderWay(kind)'
    BY <1>2, <1>3, <1>7 DEF UploadUnderWay, DocAdded
  <2>2. ~dialog.deleting
    BY <1>1, <1>4 DEF DialogInv
  <2>3. SubmitUnderWay => SubmitUnderWay'
    BY <1>2, <1>3, <1>7 DEF SubmitUnderWay, DocAdded
  <2> QED BY <1>1, <1>4, <1>5, <2>1, <2>2, <2>3 DEF DialogInv
<1>9. ASSUME which = "room", ~leftBusy, RoomInv
      PROVE  RoomInv'
  <2>1. kind = "contract" /\ ~dialog.deleting
    BY <1>1, <1>4, <1>9 DEF DialogInv
  <2>2. DocsInFlight = {}
    BY <1>4, <1>9, <2>1 DEF RoomInv, Alone, Carries
  <2>3. DocsInFlight' = {k + 1}
    BY <1>2, <1>3, <2>2 DEF DocAdded
  <2>4. docRequests'[k + 1] = q /\ Len(docRequests') = k + 1
    BY <1>2, <1>3 DEF DocAdded
  <2>5. promised'.gone \subseteq 0..k /\ shownFiles'["contract"] \subseteq 0..k /\ 0..k \subseteq 0..(k + 1) /\ k + 1 \notin 0..k
    BY <1>2, <1>4, <1>9 DEF RoomInv
  <2>6. Alone(k + 1)'
    <3>1. Carries(k + 1)'
      BY <1>3, <1>4, <1>5, <2>1, <2>4, <2>5 DEF Carries
    <3>2. docRequests'[k + 1].kind = "contract" /\ docRequests'[k + 1].kept["cccd"] = {} /\ docRequests'[k + 1].stage # "saved"
      BY <1>3, <1>9, <2>1, <2>4 DEF RoomInv
    <3> QED BY <1>7, <2>3, <3>1, <3>2 DEF Alone
  <2> QED BY <1>4, <1>5, <1>9, <2>3, <2>4, <2>5, <2>6 DEF RoomInv
<1> QED BY <1>4, <1>6, <1>8, <1>9 DEF DocInv

LEMMA ConfirmKeepsInv ==
  ASSUME DocInv, ConfirmDelete
  PROVE  DocInv'
<1>1. DocTypes /\ DialogInv
  BY DEF DocInv
<1>2. PICK k \in Nat : k = Len(docRequests)
  BY <1>1 DEF DocTypes
<1>3. /\ UNCHANGED <<which, saved, store, shownFiles, opening, leftBusy>>
      /\ dialog' = [dialog EXCEPT !.deleting = TRUE]
      /\ promised' = [promised EXCEPT !.kept = @ \ {dialog.file}]
      /\ opening.open /\ dialog.file # NoFile /\ ~dialog.deleting
  BY DEF ConfirmDelete
<1>4. PICK kept \in [PaperKinds -> SUBSET Stored] : kept = [shownFiles EXCEPT ![dialog.kind] = @ \ {dialog.file}]
  BY <1>1 DEF DocTypes
<1>5. PICK q \in DocRecords :
        /\ DocAdded(q) /\ q.type = "delete" /\ q.kind = dialog.kind /\ q.file = dialog.file /\ q.kept = kept
        /\ q.from = opening.times /\ q.stage = "sent"
  <2>1. dialog.kind \in PaperKinds /\ dialog.file \in Stored
    BY <1>1 DEF DocTypes, Dialogs
  <2>2. PICK kind \in PaperKinds, file \in Stored : kind = dialog.kind /\ file = dialog.file
    BY <2>1
  <2>3. SendFiles("delete", kind, file, kept) /\ "delete" \in {"upload", "delete", "submit"}
    BY <1>4, <2>2 DEF ConfirmDelete
  <2>4. \E q \in DocRecords :
          /\ DocAdded(q) /\ q.type = "delete" /\ q.kind = kind /\ q.file = file /\ q.kept = kept
          /\ q.from = opening.times /\ q.stage = "sent"
    BY <1>1, <2>3, NewRequest
  <2> QED BY <2>2, <2>4
<1>6. /\ dialog' \in Dialogs /\ dialog'.busy = dialog.busy /\ dialog'.file = dialog.file /\ dialog'.kind = dialog.kind
      /\ dialog'.deleting /\ dialog'.submitting = dialog.submitting
  BY <1>1, <1>3 DEF DocTypes, Dialogs
<1>7. /\ promised' \in [kept : SUBSET Stored, gone : SUBSET Stored]
      /\ promised'.kept = promised.kept \ {dialog.file} /\ promised'.gone = promised.gone
  BY <1>1, <1>3 DEF DocTypes
<1>8. DocTypes'
  BY <1>1, <1>3, <1>5, <1>6, <1>7 DEF DocTypes, DocAdded
<1>9. Mine(k + 1)' /\ \A n \in DocsInFlight : Mine(n)' = Mine(n)
  BY <1>2, <1>3, <1>5 DEF Mine, DocAdded
<1>10. DialogInv'
  <2>1. \A r \in PaperKinds : UploadUnderWay(r) => UploadUnderWay(r)'
    BY <1>2, <1>5, <1>9 DEF UploadUnderWay, DocAdded
  <2>2. DeletionUnderWay'
    BY <1>2, <1>5, <1>6, <1>9 DEF DeletionUnderWay, DocAdded
  <2>3. SubmitUnderWay => SubmitUnderWay'
    BY <1>2, <1>5, <1>9 DEF SubmitUnderWay, DocAdded
  <2>4. dialog.busy \subseteq PaperKinds
    BY <1>1 DEF DocTypes, Dialogs
  <2> QED BY <1>1, <1>3, <1>6, <2>1, <2>2, <2>3, <2>4 DEF DialogInv
<1>11. ASSUME which = "room", ~leftBusy, RoomInv
       PROVE  RoomInv'
  <2>1. dialog.kind = "contract" /\ dialog.file \in 0..k
    BY <1>2, <1>3, <1>11 DEF RoomInv
  <2>2. DocsInFlight = {}
    BY <1>3, <1>11 DEF RoomInv, Alone, Carries
  <2>3. DocsInFlight' = {k + 1}
    BY <1>2, <1>5, <2>2 DEF DocAdded
  <2>4. docRequests'[k + 1] = q /\ Len(docRequests') = k + 1
    BY <1>2, <1>5 DEF DocAdded
  <2>5. promised'.gone \subseteq 0..(k + 1) /\ shownFiles'["contract"] \subseteq 0..(k + 1) /\ dialog'.file \in 0..(k + 1)
    BY <1>2, <1>3, <1>6, <1>7, <1>11, <2>1 DEF RoomInv
  <2>6. Alone(k + 1)'
    <3>1. q.kept["contract"] = shownFiles["contract"] \ {q.file} /\ q.kept["cccd"] = {}
      BY <1>1, <1>4, <1>5, <1>11, <2>1 DEF RoomInv, DocTypes, PaperKinds
    <3>2. Carries(k + 1)'
      BY <1>3, <1>5, <1>6, <1>7, <2>4, <3>1 DEF Carries
    <3>3. docRequests'[k + 1].kind = "contract" /\ docRequests'[k + 1].kept["cccd"] = {} /\ docRequests'[k + 1].stage # "saved"
      BY <1>5, <2>1, <2>4, <3>1
    <3> QED BY <1>9, <2>3, <3>2, <3>3 DEF Alone
  <2> QED BY <1>3, <1>6, <1>7, <1>11, <2>1, <2>3, <2>4, <2>5, <2>6 DEF RoomInv
<1> QED BY <1>3, <1>8, <1>10, <1>11 DEF DocInv

LEMMA SubmitKeepsInv ==
  ASSUME DocInv, SubmitTenant
  PROVE  DocInv'
<1>1. DocTypes /\ DialogInv /\ which = "tenant"
  BY DEF DocInv, SubmitTenant
<1>2. PICK k \in Nat : k = Len(docRequests)
  BY <1>1 DEF DocTypes
<1>3. PICK q \in DocRecords : DocAdded(q) /\ q.type = "submit" /\ q.from = opening.times /\ q.stage = "sent"
  <2>1. PICK kind \in PaperKinds, file \in Stored, kept \in [PaperKinds -> SUBSET Stored] :
          kind = "cccd" /\ file = NoFile /\ kept = shownFiles
    BY <1>1 DEF DocTypes, PaperKinds, Stored
  <2>2. SendFiles("submit", kind, file, kept) /\ "submit" \in {"upload", "delete", "submit"}
    BY <2>1 DEF SubmitTenant
  <2>3. \E q \in DocRecords :
          /\ DocAdded(q) /\ q.type = "submit" /\ q.kind = kind /\ q.file = file /\ q.kept = kept
          /\ q.from = opening.times /\ q.stage = "sent"
    BY <1>1, <2>2, NewRequest
  <2> QED BY <2>3
<1>4. /\ UNCHANGED <<which, saved, store, shownFiles, opening, promised, leftBusy>>
      /\ dialog' = [dialog EXCEPT !.submitting = TRUE]
      /\ opening.open /\ dialog.busy = {} /\ dialog.file = NoFile
  BY DEF SubmitTenant, AtForm
<1>5. /\ dialog' \in Dialogs /\ dialog'.busy = {} /\ dialog'.file = NoFile
      /\ dialog'.deleting = dialog.deleting /\ dialog'.submitting
  BY <1>1, <1>4 DEF DocTypes, Dialogs
<1>6. DocTypes'
  BY <1>1, <1>3, <1>4, <1>5 DEF DocTypes, DocAdded
<1>7. Mine(k + 1)'
  BY <1>2, <1>3, <1>4 DEF Mine, DocAdded
<1>8. SubmitUnderWay'
  BY <1>2, <1>3, <1>7 DEF SubmitUnderWay, DocAdded
<1>9. DialogInv'
  BY <1>1, <1>4, <1>5, <1>8 DEF DialogInv
<1> QED BY <1>1, <1>4, <1>6, <1>9 DEF DocInv

\* The dialog's steps that send nothing.
LEMMA DialogKeepsInv ==
  ASSUME DocInv, NEW kind \in PaperKinds, NEW file \in Files, which = "room" => kind = "contract",
         AskDelete(kind, file) \/ CancelDelete
  PROVE  DocInv'
<1>1. DocTypes /\ DialogInv
  BY DEF DocInv
<1>2. /\ UNCHANGED <<which, saved, store, shownFiles, opening, docRequests, promised, leftBusy>>
      /\ opening.open
  BY DEF AskDelete, CancelDelete, AtForm
<1>3. ~dialog.deleting
  BY <1>1 DEF AskDelete, CancelDelete, AtForm, DialogInv
<1>4. /\ dialog' \in Dialogs /\ dialog'.busy = dialog.busy /\ dialog'.deleting = dialog.deleting
      /\ dialog'.submitting = dialog.submitting
      /\ \/ dialog'.file = file /\ dialog'.kind = kind /\ AskDelete(kind, file)
         \/ dialog'.file = NoFile /\ dialog'.kind = dialog.kind /\ dialog.file # NoFile
  <2>1. CASE CancelDelete
    BY <1>1, <2>1 DEF CancelDelete, DocTypes, Dialogs, Stored
  <2>2. CASE AskDelete(kind, file)
    <3> DEFINE d == [dialog EXCEPT !.file = file]
    <3>1. file \in Stored
      BY DocumentAssumption DEF Files, Stored
    <3>2. d \in Dialogs /\ d.busy = dialog.busy /\ d.deleting = dialog.deleting /\ d.submitting = dialog.submitting /\ d.file = file
      BY <1>1, <3>1 DEF DocTypes, Dialogs
    <3>3. dialog' = [d EXCEPT !.kind = kind]
      BY <2>2 DEF AskDelete
    <3>4. /\ dialog' \in Dialogs /\ dialog'.busy = dialog.busy /\ dialog'.deleting = dialog.deleting
          /\ dialog'.submitting = dialog.submitting /\ dialog'.file = file /\ dialog'.kind = kind
      <4> HIDE DEF d
      <4> QED BY <3>2, <3>3 DEF Dialogs
    <3> QED BY <2>2, <3>4
  <2> QED BY <2>1, <2>2
<1>5. DocsInFlight' = DocsInFlight /\ \A n \in DocsInFlight : Mine(n)' = Mine(n)
  BY <1>2 DEF DocsInFlight, Mine
<1>6. DocTypes'
  BY <1>1, <1>2, <1>4 DEF DocTypes
<1>7. DialogInv'
  <2>1. \A k \in PaperKinds : UploadUnderWay(k)' = UploadUnderWay(k)
    BY <1>2, <1>5 DEF UploadUnderWay
  <2>2. SubmitUnderWay' = SubmitUnderWay
    BY <1>2, <1>5 DEF SubmitUnderWay
  <2>3. dialog.busy \subseteq PaperKinds
    BY <1>1 DEF DocTypes, Dialogs
  <2> QED BY <1>1, <1>2, <1>3, <1>4, <2>1, <2>2, <2>3 DEF DialogInv
<1>8. ASSUME which = "room", ~leftBusy, RoomInv
      PROVE  RoomInv'
  <2>1. DocsInFlight = {}
    <3>1. CASE CancelDelete
      BY <1>3, <1>8, <3>1 DEF RoomInv, Alone, Carries, CancelDelete
    <3>2. CASE AskDelete(kind, file)
      BY <1>3, <1>8, <3>2 DEF RoomInv, Alone, Carries, AskDelete
    <3> QED BY <3>1, <3>2
  <2>2. dialog'.file # NoFile => dialog'.kind = "contract" /\ dialog'.file \in 0..Len(docRequests)
    BY <1>4, <1>8 DEF RoomInv, AskDelete
  <2> QED BY <1>2, <1>5, <1>8, <2>1, <2>2 DEF RoomInv
<1> QED BY <1>2, <1>6, <1>7, <1>8 DEF DocInv

LEMMA LeavingRests ==
  ASSUME DocTypes, Leave
  PROVE  /\ dialog' \in Dialogs /\ dialog'.busy = {} /\ ~dialog'.deleting /\ ~dialog'.submitting /\ dialog'.file = NoFile
         /\ opening' \in [times : Nat, open : BOOLEAN] /\ opening'.times = opening.times /\ ~opening'.open
BY DEF Leave, Rest, Dialogs, PaperKinds, DocTypes, Stored

LEMMA OpeningKeepsInv ==
  ASSUME DocInv, CloseForm \/ ReopenForm
  PROVE  DocInv'
<1>1. DocTypes /\ DialogInv
  BY DEF DocInv
<1>2. UNCHANGED <<which, saved, store, docRequests, promised>> /\ DocsInFlight' = DocsInFlight
  BY DEF CloseForm, ReopenForm, DocsInFlight
<1>3. CASE CloseForm
  <2>1. /\ dialog' \in Dialogs /\ dialog'.busy = {} /\ ~dialog'.deleting /\ ~dialog'.submitting /\ dialog'.file = NoFile
        /\ opening' \in [times : Nat, open : BOOLEAN] /\ ~opening'.open
    BY <1>1, <1>3, LeavingRests DEF CloseForm
  <2>2. shownFiles' = shownFiles /\ (~leftBusy' => ~leftBusy /\ DocsInFlight = {})
    <3>1. leftBusy' = (leftBusy \/ DocsInFlight # {})
      BY <1>3 DEF CloseForm, Leave
    <3>2. shownFiles' = shownFiles
      BY <1>3 DEF CloseForm
    <3> QED BY <3>1, <3>2
  <2>3. DocTypes'
    BY <1>1, <1>2, <2>1, <2>2 DEF DocTypes
  <2>4. DialogInv'
    BY <2>1 DEF DialogInv
  <2>5. ASSUME which = "room", ~leftBusy, RoomInv, DocsInFlight = {}
        PROVE  RoomInv'
    BY <1>2, <2>1, <2>2, <2>5 DEF RoomInv
  <2> QED BY <1>2, <2>2, <2>3, <2>4, <2>5 DEF DocInv
<1>4. CASE ReopenForm
  <2>1. /\ dialog' = dialog /\ leftBusy' = leftBusy /\ shownFiles' = store /\ ~opening.open
        /\ opening' \in [times : Nat, open : BOOLEAN]
    BY <1>1, <1>4 DEF ReopenForm, DocTypes
  <2>2. DocTypes'
    BY <1>1, <1>2, <2>1 DEF DocTypes
  <2>3. DialogInv'
    BY <1>1, <2>1 DEF DialogInv
  <2>4. ASSUME which = "room", ~leftBusy, RoomInv
        PROVE  RoomInv'
    <3>1. DocsInFlight = {}
      BY <2>1, <2>4 DEF RoomInv, Alone, Mine
    <3> QED BY <1>2, <2>1, <2>4, <3>1 DEF RoomInv
  <2> QED BY <1>2, <2>1, <2>2, <2>3, <2>4 DEF DocInv
<1> QED BY <1>3, <1>4

LEMMA WrittenPapers ==
  ASSUME NEW q \in DocRecords
  PROVE  /\ WithFile(q) \in [PaperKinds -> SUBSET Stored]
         /\ WithFile(q)["contract"] \subseteq q.kept["contract"] \cup {q.file}
         /\ WithFile(q)["contract"] = IF q.type = "upload" /\ q.kind = "contract" THEN q.kept["contract"] \cup {q.file}
                                      ELSE q.kept["contract"]
         /\ q.kind = "contract" => WithFile(q)["cccd"] = q.kept["cccd"]
BY DEF WithFile, DocRecords, PaperKinds, Stored

\* The request with its stage, and what else changes of it, replaced.
LEMMA ServerKeepsInv ==
  ASSUME DocInv, NEW n \in DOMAIN docRequests, ServerSaves(n)
  PROVE  DocInv'
<1>1. DocTypes /\ DialogInv
  BY DEF DocInv
<1>2. PICK c \in DocRecords : c = docRequests[n]
  BY <1>1, RequestType
<1>3. PICK written \in [PaperKinds -> SUBSET Stored] : written = WithFile(c)
  BY WrittenPapers
<1>4. /\ UNCHANGED <<which, store, shownFiles, dialog, opening, promised, leftBusy>>
      /\ saved' = written /\ c.stage = "sent" /\ n \in DocsInFlight
  BY <1>2, <1>3 DEF ServerSaves, DocsInFlight
<1> DEFINE half == [c EXCEPT !.stage = "saved"]
           q == [half EXCEPT !.reply = written]
<1>5. /\ half \in DocRecords /\ half.stage = "saved" /\ half.type = c.type /\ half.kind = c.kind
      /\ half.file = c.file /\ half.kept = c.kept /\ half.from = c.from
  BY DEF DocRecords
<1>6. /\ q \in DocRecords /\ q.stage = "saved" /\ q.type = c.type /\ q.kind = c.kind
      /\ q.file = c.file /\ q.kept = c.kept /\ q.from = c.from /\ q.reply = written
  <2> HIDE DEF half
  <2> QED BY <1>5 DEF DocRecords
<1>7. docRequests' = [docRequests EXCEPT ![n] = q]
  BY <1>2, <1>3 DEF ServerSaves
<1> HIDE DEF q
<1>8. DocReplaced(n, q)
  BY <1>1, <1>2, <1>4, <1>6, <1>7, DocReplacing
<1>9. DocsInFlight' = DocsInFlight /\ docRequests'[n] = q
  BY <1>6, <1>8 DEF DocReplaced
<1>10. \A m \in DocsInFlight :
         /\ Mine(m)' = Mine(m) /\ docRequests'[m].type = docRequests[m].type /\ docRequests'[m].kind = docRequests[m].kind
         /\ docRequests'[m].file = docRequests[m].file /\ docRequests'[m].kept = docRequests[m].kept
  BY <1>2, <1>4, <1>6, <1>8 DEF DocReplaced, Mine
<1>11. DocTypes'
  BY <1>1, <1>4, <1>8 DEF DocTypes, DocReplaced
<1>12. DialogInv'
  <2>1. \A k \in PaperKinds : UploadUnderWay(k) => UploadUnderWay(k)'
    BY <1>9, <1>10 DEF UploadUnderWay
  <2>2. DeletionUnderWay => DeletionUnderWay'
    BY <1>4, <1>9, <1>10 DEF DeletionUnderWay
  <2>3. SubmitUnderWay => SubmitUnderWay'
    BY <1>9, <1>10 DEF SubmitUnderWay
  <2>4. dialog.busy \subseteq PaperKinds
    BY <1>1 DEF DocTypes, Dialogs
  <2> QED BY <1>1, <1>4, <2>1, <2>2, <2>3, <2>4 DEF DialogInv
<1>13. ASSUME which = "room", ~leftBusy, RoomInv
       PROVE  RoomInv'
  <2>1. Alone(n) /\ DocsInFlight = {n}
    BY <1>4, <1>13 DEF RoomInv, Alone
  <2>2. c.kind = "contract" /\ c.kept["cccd"] = {} /\ Carries(n)
    BY <1>2, <2>1 DEF Alone
  <2>3. /\ written["cccd"] = {}
        /\ written["contract"] = IF c.type = "upload" THEN c.kept["contract"] \cup {c.file} ELSE c.kept["contract"]
    BY <1>3, <2>2, WrittenPapers
  <2>4. WithFile(q) = written
    BY <1>3, <1>6 DEF WithFile
  <2>5. Alone(n)'
    <3>1. Carries(n)'
      BY <1>2, <1>4, <1>6, <1>9, <2>2 DEF Carries
    <3> QED BY <1>4, <1>6, <1>9, <1>10, <2>1, <2>2, <2>4, <3>1 DEF Alone
  <2>6. promised.kept \subseteq written["contract"] /\ \A f \in promised.gone : f \notin written["contract"]
    BY <1>2, <1>13, <2>2, <2>3 DEF Carries, RoomInv
  <2> QED BY <1>4, <1>8, <1>9, <1>13, <2>1, <2>3, <2>5, <2>6 DEF RoomInv, DocReplaced
<1> QED BY <1>4, <1>11, <1>12, <1>13 DEF DocInv

\* A request that ends, and the dialog after it.
LEMMA Finishing ==
  ASSUME DocTypes, NEW q \in DocRecords
  PROVE  /\ Finished(q) \in Dialogs /\ Finished(q).file = dialog.file /\ Finished(q).kind = dialog.kind
         /\ Finished(q).busy = IF q.type = "upload" THEN {} ELSE dialog.busy
         /\ Finished(q).deleting = (q.type # "delete" /\ dialog.deleting)
         /\ Finished(q).submitting = (q.type # "submit" /\ dialog.submitting)
<1>1. CASE q.type = "upload"
  BY <1>1 DEF Finished, DocTypes, Dialogs
<1>2. CASE q.type = "delete"
  BY <1>2 DEF Finished, DocTypes, Dialogs
<1>3. CASE q.type = "submit"
  BY <1>3 DEF Finished, DocTypes, Dialogs
<1> QED BY <1>1, <1>2, <1>3 DEF DocRecords

LEMMA Ending ==
  ASSUME DocTypes, NEW n \in DOMAIN docRequests, docRequests[n].stage # "done", Done(n)
  PROVE  /\ docRequests' \in Seq(DocRecords) /\ Len(docRequests') = Len(docRequests)
         /\ DocsInFlight' = DocsInFlight \ {n} /\ n \in DocsInFlight
         /\ \A m \in DocsInFlight' : docRequests'[m] = docRequests[m]
<1>1. PICK c \in DocRecords : c = docRequests[n]
  BY RequestType
<1>2. PICK q \in DocRecords : q = [c EXCEPT !.stage = "done"] /\ q.stage = "done"
  <2>1. [c EXCEPT !.stage = "done"] \in DocRecords /\ [c EXCEPT !.stage = "done"].stage = "done"
    BY DEF DocRecords
  <2> QED BY <2>1
<1>3. docRequests' = [docRequests EXCEPT ![n] = q]
  BY <1>1, <1>2 DEF Done
<1>4. DocReplaced(n, q)
  BY <1>2, <1>3, DocReplacing
<1> QED BY <1>2, <1>4 DEF DocReplaced, DocsInFlight

\* The other requests of the form are still under way.
LEMMA WaitsForOthers ==
  ASSUME DocTypes, DialogInv, opening' = opening, NEW n \in DocsInFlight,
         DocsInFlight' = DocsInFlight \ {n}, \A m \in DocsInFlight' : docRequests'[m] = docRequests[m],
         dialog' \in Dialogs,
         dialog'.busy \subseteq IF Mine(n) /\ docRequests[n].type = "upload" THEN {} ELSE dialog.busy,
         dialog'.deleting => dialog.deleting /\ dialog'.file = dialog.file /\ ~(Mine(n) /\ docRequests[n].type = "delete"),
         dialog'.submitting => dialog.submitting /\ ~(Mine(n) /\ docRequests[n].type = "submit"),
         dialog'.file \in {dialog.file, NoFile}
  PROVE  DialogInv'
<1>1. \A m \in DocsInFlight' : Mine(m)' = Mine(m) /\ m \in DocsInFlight /\ m # n
  BY DEF Mine
<1>2. ASSUME NEW k \in dialog'.busy
      PROVE  UploadUnderWay(k)'
  <2>1. k \in dialog.busy /\ ~(Mine(n) /\ docRequests[n].type = "upload")
    OBVIOUS
  <2>2. PICK m \in DocsInFlight : Mine(m) /\ docRequests[m].type = "upload" /\ docRequests[m].kind = k
    BY <2>1 DEF DialogInv, UploadUnderWay
  <2>3. m \in DocsInFlight'
    BY <2>1, <2>2
  <2> QED BY <1>1, <2>2, <2>3 DEF UploadUnderWay
<1>3. ASSUME dialog'.deleting
      PROVE  DeletionUnderWay' /\ dialog'.file # NoFile
  <2>1. PICK m \in DocsInFlight : Mine(m) /\ docRequests[m].type = "delete" /\ docRequests[m].file = dialog.file
    BY <1>3 DEF DialogInv, DeletionUnderWay
  <2>2. m \in DocsInFlight'
    BY <1>3, <2>1
  <2> QED BY <1>1, <1>3, <2>1, <2>2 DEF DeletionUnderWay, DialogInv
<1>4. ASSUME dialog'.submitting
      PROVE  SubmitUnderWay'
  <2>1. PICK m \in DocsInFlight : Mine(m) /\ docRequests[m].type = "submit"
    BY <1>4 DEF DialogInv, SubmitUnderWay
  <2>2. m \in DocsInFlight'
    BY <1>4, <2>1
  <2> QED BY <1>1, <2>1, <2>2 DEF SubmitUnderWay
<1>5. ~opening.open => dialog'.busy = {} /\ ~dialog'.deleting /\ ~dialog'.submitting /\ dialog'.file = NoFile
  BY DEF DialogInv
<1> QED BY <1>2, <1>3, <1>4, <1>5 DEF DialogInv

LEMMA FailureKeepsInv ==
  ASSUME DocInv, NEW n \in DOMAIN docRequests, RequestFails(n)
  PROVE  DocInv'
<1>1. DocTypes /\ DialogInv
  BY DEF DocInv
<1>2. PICK c \in DocRecords : c = docRequests[n]
  BY <1>1, RequestType
<1>3. /\ UNCHANGED <<which, saved, store, shownFiles, opening, promised, leftBusy>>
      /\ c.stage \in {"sent", "saved"} /\ Done(n)
      /\ dialog' = IF Mine(n) THEN Finished(c) ELSE dialog
  BY <1>2 DEF RequestFails
<1>4. /\ docRequests' \in Seq(DocRecords) /\ Len(docRequests') = Len(docRequests)
      /\ DocsInFlight' = DocsInFlight \ {n} /\ n \in DocsInFlight
      /\ \A m \in DocsInFlight' : docRequests'[m] = docRequests[m]
  BY <1>1, <1>2, <1>3, Ending
<1>5. /\ dialog' \in Dialogs /\ dialog'.file = dialog.file /\ dialog'.kind = dialog.kind
      /\ dialog'.busy \subseteq IF Mine(n) /\ c.type = "upload" THEN {} ELSE dialog.busy
      /\ dialog'.deleting => dialog.deleting /\ ~(Mine(n) /\ c.type = "delete")
      /\ dialog'.submitting => dialog.submitting /\ ~(Mine(n) /\ c.type = "submit")
  <2>1. CASE Mine(n)
    BY <1>1, <1>3, <2>1, Finishing
  <2>2. CASE ~Mine(n)
    BY <1>1, <1>3, <2>2 DEF DocTypes
  <2> QED BY <2>1, <2>2
<1>6. DocTypes'
  BY <1>1, <1>3, <1>4, <1>5 DEF DocTypes
<1>7. DialogInv'
  BY <1>1, <1>2, <1>3, <1>4, <1>5, WaitsForOthers
<1>8. ASSUME which = "room", ~leftBusy, RoomInv
      PROVE  RoomInv'
  <2>1. DocsInFlight' = {}
    BY <1>4, <1>8 DEF RoomInv, Alone
  <2> QED BY <1>3, <1>4, <1>5, <1>8, <2>1 DEF RoomInv
<1> QED BY <1>3, <1>6, <1>7, <1>8 DEF DocInv

LEMMA AnswerKeepsInv ==
  ASSUME DocInv, NEW n \in DOMAIN docRequests, DocAnswered(n)
  PROVE  DocInv'
<1>1. DocTypes /\ DialogInv
  BY DEF DocInv
<1>2. PICK c \in DocRecords : c = docRequests[n]
  BY <1>1, RequestType
<1>3. UNCHANGED <<which, saved>> /\ c.stage = "saved" /\ Done(n) /\ store' = c.reply
  BY <1>2 DEF DocAnswered
<1>4. /\ docRequests' \in Seq(DocRecords) /\ Len(docRequests') = Len(docRequests)
      /\ DocsInFlight' = DocsInFlight \ {n} /\ n \in DocsInFlight
      /\ \A m \in DocsInFlight' : docRequests'[m] = docRequests[m]
  BY <1>1, <1>2, <1>3, Ending
<1>5. /\ promised' \in [kept : SUBSET Stored, gone : SUBSET Stored]
      /\ promised'.kept = IF c.type = "upload" THEN promised.kept \cup {c.file} ELSE promised.kept
      /\ promised'.gone = IF c.type = "delete" THEN promised.gone \cup {c.file} ELSE promised.gone
  <2>1. CASE c.type = "upload"
    <3>1. promised' = [promised EXCEPT !.kept = @ \cup {c.file}]
      BY <1>2, <2>1 DEF DocAnswered
    <3> QED BY <1>1, <2>1, <3>1 DEF DocTypes, DocRecords
  <2>2. CASE c.type = "delete"
    <3>1. promised' = [promised EXCEPT !.gone = @ \cup {c.file}]
      BY <1>2, <2>2 DEF DocAnswered
    <3> QED BY <1>1, <2>2, <3>1 DEF DocTypes, DocRecords
  <2>3. CASE c.type = "submit"
    <3>1. promised' = promised
      BY <1>2, <2>3 DEF DocAnswered
    <3> QED BY <1>1, <2>3, <3>1 DEF DocTypes
  <2> QED BY <2>1, <2>2, <2>3 DEF DocRecords
<1>6. c.reply \in [PaperKinds -> SUBSET Stored]
  BY DEF DocRecords
<1>7. ASSUME which = "room", ~leftBusy, RoomInv
      PROVE  /\ DocsInFlight' = {} /\ Mine(n) /\ c.type \in {"upload", "delete"} /\ c.reply = saved
             /\ promised'.kept \subseteq saved["contract"] /\ saved["contract"] \subseteq 0..Len(docRequests)
             /\ promised'.gone \subseteq 0..Len(docRequests) /\ \A f \in promised'.gone : f \notin saved["contract"]
  <2>1. Alone(n) /\ Carries(n) /\ Mine(n) /\ DocsInFlight = {n}
    BY <1>4, <1>7 DEF RoomInv, Alone
  <2>2. c.kind = "contract" /\ c.reply = saved /\ saved = WithFile(c)
    BY <1>2, <1>3, <2>1 DEF Alone
  <2>3. saved["contract"] = IF c.type = "upload" THEN c.kept["contract"] \cup {c.file} ELSE c.kept["contract"]
    BY <2>2, WrittenPapers
  <2>4. PICK k \in Nat : k = Len(docRequests) /\ n \in 0..k
    BY <1>1 DEF DocTypes
  <2>5. CASE c.type = "upload"
    <3>1. saved["contract"] = shownFiles["contract"] \cup {n} /\ c.file = n /\ n \notin promised.gone
      BY <1>2, <2>1, <2>3, <2>5 DEF Carries
    <3> QED BY <1>4, <1>5, <1>7, <2>1, <2>2, <2>4, <2>5, <3>1 DEF RoomInv
  <2>6. CASE c.type = "delete"
    <3>1. saved["contract"] = shownFiles["contract"] \ {c.file} /\ c.file \notin promised.kept /\ c.file \in 0..k
      BY <1>1, <1>2, <1>7, <2>1, <2>3, <2>4, <2>6 DEF Carries, RoomInv, DialogInv
    <3> QED BY <1>4, <1>5, <1>7, <2>1, <2>2, <2>4, <2>6, <3>1 DEF RoomInv
  <2>7. c.type # "submit"
    BY <1>2, <2>1 DEF Carries
  <2> QED BY <2>5, <2>6, <2>7 DEF DocRecords
<1>8. CASE c.type = "submit" /\ Mine(n)
  <2>1. opening' = [opening EXCEPT !.open = FALSE] /\ dialog' = Rest /\ shownFiles' = shownFiles
        /\ leftBusy' = (leftBusy \/ DocsInFlight # {n})
    BY <1>2, <1>8 DEF DocAnswered
  <2>2. /\ dialog' \in Dialogs /\ dialog'.busy = {} /\ ~dialog'.deleting /\ ~dialog'.submitting /\ dialog'.file = NoFile
        /\ opening' \in [times : Nat, open : BOOLEAN]
    BY <1>1, <2>1 DEF Rest, Dialogs, PaperKinds, DocTypes, Stored
  <2>3. DocTypes'
    BY <1>1, <1>3, <1>4, <1>5, <1>6, <2>1, <2>2 DEF DocTypes
  <2>4. DialogInv'
    BY <2>2 DEF DialogInv
  <2>5. ~(which = "room" /\ ~leftBusy)
    BY <1>7, <1>8 DEF DocInv
  <2>6. ~(which' = "room" /\ ~leftBusy')
    BY <1>3, <2>1, <2>5
  <2> QED BY <2>3, <2>4, <2>6 DEF DocInv
<1>9. CASE ~(c.type = "submit" /\ Mine(n))
  <2>1. /\ UNCHANGED <<opening, leftBusy>> /\ shownFiles' = IF Mine(n) THEN c.reply ELSE shownFiles
        /\ dialog' = IF ~Mine(n) THEN dialog ELSE IF c.type = "delete" THEN [Finished(c) EXCEPT !.file = NoFile] ELSE Finished(c)
    BY <1>2, <1>9 DEF DocAnswered
  <2>2. /\ dialog' \in Dialogs /\ dialog'.kind = dialog.kind
        /\ dialog'.file = (IF Mine(n) /\ c.type = "delete" THEN NoFile ELSE dialog.file)
        /\ dialog'.busy \subseteq IF Mine(n) /\ c.type = "upload" THEN {} ELSE dialog.busy
        /\ dialog'.deleting => dialog.deleting /\ ~(Mine(n) /\ c.type = "delete")
        /\ dialog'.submitting => dialog.submitting /\ ~(Mine(n) /\ c.type = "submit")
    <3>1. CASE ~Mine(n)
      BY <1>1, <2>1, <3>1 DEF DocTypes
    <3>2. CASE Mine(n)
      <4>1. PICK d \in Dialogs : d = Finished(c)
        BY <1>1, Finishing
      <4>2. /\ d.file = dialog.file /\ d.kind = dialog.kind /\ d.busy = (IF c.type = "upload" THEN {} ELSE dialog.busy)
            /\ d.deleting = (c.type # "delete" /\ dialog.deleting) /\ d.submitting = (c.type # "submit" /\ dialog.submitting)
        BY <1>1, <4>1, Finishing
      <4>3. dialog' = IF c.type = "delete" THEN [d EXCEPT !.file = NoFile] ELSE d
        BY <2>1, <3>2, <4>1
      <4> QED BY <3>2, <4>2, <4>3 DEF Dialogs, Stored
    <3> QED BY <3>1, <3>2
  <2>3. shownFiles' \in [PaperKinds -> SUBSET Stored]
    BY <1>1, <1>6, <2>1 DEF DocTypes
  <2>4. DocTypes'
    BY <1>1, <1>3, <1>4, <1>5, <1>6, <2>1, <2>2, <2>3 DEF DocTypes
  <2>5. DialogInv'
    <3>1. dialog'.deleting => dialog.deleting /\ dialog'.file = dialog.file /\ ~(Mine(n) /\ c.type = "delete")
      BY <2>2
    <3> QED BY <1>1, <1>2, <1>4, <2>1, <2>2, <3>1, WaitsForOthers
  <2>6. ASSUME which = "room", ~leftBusy, RoomInv
        PROVE  RoomInv'
    <3>1. shownFiles' = saved /\ store' = saved /\ saved' = saved /\ DocsInFlight' = {}
      BY <1>3, <1>7, <2>1, <2>6
    <3>2. dialog'.file # NoFile => dialog'.kind = "contract" /\ dialog'.file \in 0..Len(docRequests)
      BY <2>2, <2>6 DEF RoomInv
    <3> QED BY <1>4, <1>7, <2>6, <3>1, <3>2 DEF RoomInv
  <2> QED BY <1>3, <2>1, <2>4, <2>5, <2>6 DEF DocInv
<1> QED BY <1>8, <1>9

LEMMA DocInvStep ==
  ASSUME DocInv, [DocNext]_docVars
  PROVE  DocInv'
<1>1. CASE UNCHANGED docVars
  <2>1. UNCHANGED <<which, saved, store, shownFiles, dialog, opening, docRequests, promised, leftBusy>>
    BY <1>1 DEF docVars
  <2>2. DocsInFlight' = DocsInFlight /\ \A n \in DocsInFlight : Mine(n)' = Mine(n) /\ Carries(n)' = Carries(n)
    BY <2>1 DEF DocsInFlight, Mine, Carries
  <2>3. DocTypes'
    BY <2>1 DEF DocInv, DocTypes
  <2>4. DialogInv'
    BY <2>1, <2>2 DEF DocInv, DialogInv, UploadUnderWay, DeletionUnderWay, SubmitUnderWay
  <2>5. RoomInv => RoomInv'
    BY <2>1, <2>2 DEF RoomInv, Alone
  <2> QED BY <2>1, <2>3, <2>4, <2>5 DEF DocInv
<1>2. ASSUME NEW n \in DOMAIN docRequests, ServerSaves(n) \/ RequestFails(n) \/ DocAnswered(n)
      PROVE  DocInv'
  BY <1>2, ServerKeepsInv, FailureKeepsInv, AnswerKeepsInv
<1>3. CASE HandleUpload
  <2>1. CASE RequestOf("upload")
    BY <1>2, <2>1 DEF RequestOf
  <2>2. ASSUME NEW k \in KindsOf(which), StartUpload(k)
        PROVE  DocInv'
    <3>1. k \in PaperKinds /\ (which = "room" => k = "contract")
      BY <2>2 DEF KindsOf, PaperKinds, DocInv, DocTypes, Forms
    <3> QED BY <2>2, <3>1, UploadKeepsInv
  <2> QED BY <1>3, <2>1, <2>2 DEF HandleUpload
<1>4. CASE HandleDelete
  <2>1. CASE RequestOf("delete")
    BY <1>2, <2>1 DEF RequestOf
  <2>2. ASSUME NEW k \in KindsOf(which), NEW f \in Files, AskDelete(k, f)
        PROVE  DocInv'
    <3>1. k \in PaperKinds /\ (which = "room" => k = "contract")
      BY <2>2 DEF KindsOf, PaperKinds, DocInv, DocTypes, Forms
    <3> QED BY <2>2, <3>1, DialogKeepsInv
  <2>3. CASE CancelDelete
    <3>1. "contract" \in PaperKinds /\ 0 \in Files
      BY DocumentAssumption DEF PaperKinds, Files
    <3> QED BY <2>3, <3>1, DialogKeepsInv
  <2>4. CASE ConfirmDelete
    BY <2>4, ConfirmKeepsInv
  <2> QED BY <1>4, <2>1, <2>2, <2>3, <2>4 DEF HandleDelete
<1>5. CASE SubmitCards
  BY <1>2, <1>5, SubmitKeepsInv DEF SubmitCards, RequestOf
<1>6. CASE CloseForm \/ ReopenForm
  BY <1>6, OpeningKeepsInv
<1> QED BY <1>1, <1>2, <1>3, <1>4, <1>5, <1>6
        DEF DocNext, UploadHousePapers, DeleteHousePaper, UploadCards, DeleteCard, UploadContract, DeleteContract

LEMMA DocInvHolds ==
  ASSUME DocInv
  PROVE  DocumentsHold
<1>1. RoomDocumentsKept
  <2> SUFFICES ASSUME which = "room", ~leftBusy PROVE DocumentsKept
    BY DEF RoomDocumentsKept
  <2>1. RoomInv
    BY DEF DocInv
  <2>2. UNION {saved[k] : k \in PaperKinds} = saved["contract"]
    BY <2>1 DEF RoomInv, PaperKinds
  <2> QED BY <2>1, <2>2 DEF RoomInv, DocumentsKept
<1>2. BusyHasRequest
  BY DEF DocInv, DialogInv, BusyHasRequest, UploadUnderWay, DeletionUnderWay, SubmitUnderWay
<1> QED BY <1>1, <1>2 DEF DocumentsHold

(* However often a document form is opened, and whichever answers are lost: a *)
(* room's contract form keeps what it has told the user unless it is closed   *)
(* with a request under way, and no form's controls stay disabled for a       *)
(* request that has ended.                                                    *)
THEOREM DocumentFormsKeepWord == Spec => []DocumentsHold
<1>1. Init => DocInv
  BY PartsInit, DocInvInit
<1>2. DocInv /\ [Next]_vars => DocInv'
  BY PartsStep, DocInvStep
<1>3. DocInv => DocumentsHold
  BY DocInvHolds
<1> QED BY <1>1, <1>2, <1>3, PTL DEF Spec

-----------------------------------------------------------------------------
(* The types of these parts.  What their invariants leave open is here: the   *)
(* flags, and all that the bounds of the model count.                         *)

-----------------------------------------------------------------------------
(* The form of a new house.                                                   *)

\* Nothing is made before the form is sent.
SetupTyped ==
  /\ setupOpen \in BOOLEAN /\ awaited \in 0..MaxTries /\ houseEntry \in 0..HouseRow
  /\ tries = 0 => made.houses = 0 /\ \A r \in Planned : made.rooms[r] = 0

LEMMA SetupTypedInit == SetupInit => SetupTyped
<1> SUFFICES ASSUME SetupInit PROVE SetupTyped
  OBVIOUS
<1>1. 0 \in 0..MaxTries /\ 0 \in 0..HouseRow
  BY SetupAssumption DEF HouseRow
<1>2. made.houses = 0 /\ \A r \in Planned : made.rooms[r] = 0
  BY DEF SetupInit
<1>3. setupOpen \in BOOLEAN
  BY DEF SetupInit
<1> QED BY <1>1, <1>2, <1>3 DEF SetupInit, SetupTyped

LEMMA SetupTypedStep ==
  ASSUME SetupInv, SetupTyped, [SetupNext]_setupVars
  PROVE  SetupTyped'
<1>0. /\ MaxTries \in Nat /\ tries \in 0..MaxTries /\ HouseRow = MaxTries + 1 /\ Submissions = 1..MaxTries
      /\ setupOpen \in BOOLEAN /\ awaited \in 0..MaxTries /\ houseEntry \in 0..HouseRow
  BY SetupAssumption DEF HouseRow, Submissions, SetupInv, SetupTyped
<1>a. HouseRow \in 0..HouseRow /\ 0 \in 0..HouseRow /\ 0 \in 0..MaxTries /\ \A s \in Submissions : s \in 0..MaxTries /\ s \in 0..HouseRow
  BY <1>0
<1>1. CASE SubmitSetup
  <2>1. tries + 1 \in 0..MaxTries /\ tries + 1 \in 0..HouseRow /\ tries + 1 # 0
    BY <1>0, <1>1 DEF SubmitSetup
  <2> QED BY <1>0, <1>1, <2>1 DEF SubmitSetup, SetupTyped
<1>2. ASSUME NEW s \in Submissions, HouseServed(s) \/ HouseCreated(s) \/ HouseFails(s) \/ SetupEnds(s)
      PROVE  SetupTyped'
  <2>1. houseCall[s] # "none" /\ tries' = tries
    BY <1>2 DEF HouseServed, HouseCreated, HouseFails, SetupEnds
  <2>2. tries' # 0
    BY <1>0, <2>1 DEF SetupInv
  <2>3. awaited' \in {awaited, 0} /\ houseEntry' \in {houseEntry, HouseRow, 0} /\ setupOpen' \in {setupOpen, FALSE}
    BY <1>2 DEF HouseServed, HouseCreated, HouseFails, SetupEnds, FormCloses
  <2>4. awaited' \in 0..MaxTries /\ houseEntry' \in 0..HouseRow' /\ setupOpen' \in BOOLEAN
    BY <1>0, <1>a, <2>3 DEF HouseRow
  <2> QED BY <2>2, <2>4 DEF SetupTyped
<1>3. ASSUME NEW s \in Submissions, NEW r \in Planned, RoomServed(s, r) \/ RoomAnswered(s, r)
      PROVE  SetupTyped'
  <2>1. roomCall[s][r] # "none" /\ UNCHANGED <<setupOpen, awaited, houseEntry, tries>>
    BY <1>3 DEF RoomServed, RoomAnswered, RoomCreated, RoomFails
  <2>2. CASE RoomAnswered(s, r)
    BY <2>1, <2>2 DEF RoomAnswered, RoomCreated, RoomFails, SetupTyped
  <2>3. CASE RoomServed(s, r)
    <3>1. made.houses # 0
      BY <2>1 DEF SetupInv
    <3>2. tries # 0
      BY <3>1 DEF SetupTyped
    <3> QED BY <1>0, <2>1, <3>2 DEF SetupTyped
  <2> QED BY <1>3, <2>2, <2>3
<1>4. CASE CloseSetup \/ ReopenSetup \/ HousesRefetched \/ UNCHANGED setupVars
  <2>1. UNCHANGED <<made, tries>>
    BY <1>4 DEF CloseSetup, ReopenSetup, HousesRefetched, setupVars
  <2>2. setupOpen' \in {setupOpen, TRUE, FALSE} /\ awaited' \in {awaited, 0} /\ houseEntry' \in {houseEntry, HouseRow, 0}
    BY <1>4 DEF CloseSetup, ReopenSetup, HousesRefetched, FormCloses, setupVars
  <2>3. awaited' \in 0..MaxTries /\ houseEntry' \in 0..HouseRow' /\ setupOpen' \in BOOLEAN
    BY <1>0, <1>a, <2>2 DEF HouseRow
  <2> QED BY <2>1, <2>3 DEF SetupTyped
<1> QED BY <1>1, <1>2, <1>3, <1>4 DEF SetupNext, SetupAnswered

LEMMA SetupTypesHold ==
  ASSUME SetupInv, SetupTyped
  PROVE  SetupTypeOK
<1>1. MaxTries \in Nat /\ tries \in 0..MaxTries
  BY SetupAssumption DEF SetupInv
<1>2. CASE tries = 0
  <2>1. made \in [houses : {0}, rooms : [Planned -> {0}]]
    BY <1>2 DEF SetupTyped, SetupInv
  <2>2. made \in [houses : 0..MaxTries, rooms : [Planned -> 0..MaxTries]]
    BY <1>1, <2>1
  <2> QED BY <2>2 DEF SetupTypeOK, SetupTyped, SetupInv
<1>3. CASE tries # 0
  <2>1. 0..1 \subseteq 0..MaxTries
    BY <1>1, <1>3
  <2>2. made \in [houses : 0..MaxTries, rooms : [Planned -> 0..MaxTries]]
    BY <2>1 DEF SetupInv
  <2> QED BY <2>2 DEF SetupTypeOK, SetupTyped, SetupInv
<1> QED BY <1>2, <1>3

-----------------------------------------------------------------------------
(* The loads of the dashboard.                                                *)

LoadTyped ==
  /\ {trend, allRooms} \subseteq Inputs /\ isLoadingData \in BOOLEAN
  /\ Len(loads) <= MaxLoads /\ owner \in [Views -> 0..MaxLoads]

LEMMA LoadTypedInit == LoadInit => LoadTyped
<1> SUFFICES ASSUME LoadInit PROVE LoadTyped
  OBVIOUS
<1>1. 0 \in 0..MaxLoads
  BY LoadsAssumption
<1>2. isLoadingData \in BOOLEAN /\ Len(loads) = 0
  BY DEF LoadInit
<1>3. owner \in [Views -> 0..MaxLoads]
  BY <1>1 DEF LoadInit
<1> QED BY <1>1, <1>2, <1>3 DEF LoadInit, LoadTyped, Inputs

LEMMA LoadTypedStep ==
  ASSUME LoadInv, LoadTyped, [LoadNext]_loadVars
  PROVE  LoadTyped'
<1>0. MaxLoads \in Nat /\ loads \in Seq(LoadRecords) /\ Len(loads) \in Nat
  BY LoadsAssumption DEF LoadInv
<1>1. ASSUME NEW list \in Inputs, HousesGiven(list)
      PROVE  LoadTyped'
  <2>1. /\ Len(loads) + 1 \in 0..MaxLoads /\ trend' = trend
        /\ allRooms' \in Inputs /\ isLoadingData' \in BOOLEAN
    BY <1>0, <1>1 DEF HousesGiven, LoadTyped, Inputs
  <2>2. owner["trend"] \in 0..MaxLoads
    BY DEF LoadTyped, Views
  <2>3. owner' \in [Views -> 0..MaxLoads]
    BY <1>1, <2>1, <2>2 DEF HousesGiven, Views
  <2>4. Len(loads') = Len(loads) + 1
    BY <1>0, <1>1 DEF HousesGiven
  <2> QED BY <1>0, <2>1, <2>3, <2>4 DEF LoadTyped
<1>2. ASSUME NEW n \in DOMAIN loads, TrendAnswered(n) \/ RoomsAnswered(n)
      PROVE  LoadTyped'
  <2>1. loads[n].of \in Inputs
    <3>1. loads[n] \in LoadRecords
      BY <1>0
    <3> QED BY <3>1 DEF LoadRecords
  <2>2. Len(loads') = Len(loads)
    BY <1>0, <1>2 DEF TrendAnswered, RoomsAnswered
  <2>3. owner' = owner /\ trend' \in {trend, loads[n].of} /\ allRooms' \in {allRooms, loads[n].of}
    BY <1>2 DEF TrendAnswered, RoomsAnswered
  <2>4. isLoadingData' \in BOOLEAN
    BY <1>2 DEF TrendAnswered, RoomsAnswered, LoadTyped
  <2> QED BY <2>1, <2>2, <2>3, <2>4 DEF LoadTyped
<1>3. CASE UNCHANGED loadVars
  BY <1>3 DEF loadVars, LoadTyped
<1> QED BY <1>1, <1>2, <1>3 DEF LoadNext, LoadEnds

LEMMA LoadTypesHold ==
  ASSUME LoadInv, LoadTyped
  PROVE  LoadTypeOK
BY DEF LoadInv, LoadTyped, LoadTypeOK, LoadRecords

-----------------------------------------------------------------------------
(* The settings cards.                                                        *)

CardTyped ==
  /\ card \in Cards /\ status \in Versions
  /\ initialLoading \in BOOLEAN /\ isEditing \in BOOLEAN /\ confirming \in BOOLEAN
  /\ overlapped \in BOOLEAN /\ unheard \in BOOLEAN
  /\ submitting \in {"no", "key", "sent", "served", "status"} /\ deleting \in {"no", "sent", "served", "status"}

LEMMA CardTypedInit == CardInit \/ CardUnmounted => CardTyped
<1> SUFFICES ASSUME CardInit \/ CardUnmounted PROVE CardTyped
  OBVIOUS
<1>1. 0 \in Versions
  BY CardAssumption DEF Versions
<1>2. card \in Cards /\ initialLoading \in BOOLEAN /\ CardAtRest
  BY DEF CardInit, CardUnmounted, Cards
<1> QED BY <1>1, <1>2 DEF CardAtRest, CardTyped

LEMMA CardTypedStep ==
  ASSUME CardInv, CardTyped, [CardNext]_cardVars
  PROVE  CardTyped'
<1>1. card' = card
  BY DEF CardNext, StartSave, HandleCardSave, SaveGoesOn, SaveAnswered, SaveFails, EditCard, CancelEditing,
         ToggleConfirmation, StartDeletion, HandleCardDelete, DeletionGoesOn, CardDeleted, CardNotDeleted,
         RefreshStatus, StatusRead, StatusGiven, StatusFails, StatusEnds, cardVars
<1>2. status' \in Versions
  <2>1. ASSUME NEW a \in Askers PROVE statusCalls[a].version \in Versions
    <3>1. statusCalls[a] \in StatusRecords
      BY DEF CardInv, CardTypes
    <3> QED BY <3>1 DEF StatusRecords
  <2>2. status' = status \/ \E a \in Askers : status' = statusCalls[a].version
    BY DEF CardNext, StartSave, HandleCardSave, SaveGoesOn, SaveAnswered, SaveFails, EditCard, CancelEditing,
           ToggleConfirmation, StartDeletion, HandleCardDelete, DeletionGoesOn, CardDeleted, CardNotDeleted,
           RefreshStatus, StatusRead, StatusGiven, StatusFails, StatusEnds, cardVars
  <2> QED BY <2>1, <2>2 DEF CardTyped
<1>3. isEditing' \in BOOLEAN /\ confirming' \in BOOLEAN /\ initialLoading' \in BOOLEAN
  BY DEF CardTyped, CardNext, StartSave, HandleCardSave, SaveGoesOn, SaveAnswered, SaveFails, EditCard, CancelEditing,
         ToggleConfirmation, StartDeletion, HandleCardDelete, DeletionGoesOn, CardDeleted, CardNotDeleted,
         RefreshStatus, StatusRead, StatusGiven, StatusFails, StatusEnds, cardVars
<1>4. overlapped' \in BOOLEAN /\ unheard' \in BOOLEAN
  BY DEF CardTyped, CardNext, StartSave, HandleCardSave, SaveGoesOn, SaveAnswered, SaveFails, EditCard, CancelEditing,
         ToggleConfirmation, StartDeletion, HandleCardDelete, DeletionGoesOn, CardDeleted, CardNotDeleted, CardOrder,
         RefreshStatus, StatusRead, StatusGiven, StatusFails, StatusEnds, cardVars
<1>5. /\ submitting' \in {"no", "key", "sent", "served", "status"}
      /\ deleting' \in {"no", "sent", "served", "status"}
  BY DEF CardTyped, CardNext, StartSave, HandleCardSave, SaveGoesOn, SaveAnswered, SaveFails, EditCard, CancelEditing,
         ToggleConfirmation, StartDeletion, HandleCardDelete, DeletionGoesOn, CardDeleted, CardNotDeleted,
         RefreshStatus, StatusRead, StatusGiven, StatusFails, StatusEnds, cardVars
<1> QED BY <1>1, <1>2, <1>3, <1>4, <1>5 DEF CardTyped

LEMMA CardTypesHold ==
  ASSUME CardInv, CardTyped
  PROVE  CardTypeOK
BY DEF CardInv, CardTypes, CardTyped, CardTypeOK, StatusRecords, Versions

-----------------------------------------------------------------------------
(* The price sheet.                                                           *)

SheetTyped ==
  /\ sheet \in {"open", "asking", "closed"}
  /\ sheetDirty \in BOOLEAN /\ savingRooms \in BOOLEAN /\ closedItself \in BOOLEAN /\ lostRow \in BOOLEAN
  /\ sent \in 0..MaxSheetCalls

LEMMA SheetTypedInit == SheetInit => SheetTyped
<1> SUFFICES ASSUME SheetInit PROVE SheetTyped
  OBVIOUS
<1>1. 0 \in 0..MaxSheetCalls
  BY SheetAssumption
<1> QED BY <1>1 DEF SheetInit, SheetTyped

LEMMA SheetTypedStep ==
  ASSUME SheetTyped, [SheetNext]_sheetVars
  PROVE  SheetTyped'
<1>1. sheet' \in {"open", "asking", "closed"}
  BY DEF SheetTyped, SheetNext, ServeRow, RowUpdated, RowRefused, TypeRow, DeleteRoom, DuplicateRoom, BeginOne, SaveRows,
         SaveEnds, Closing, LeaveSheet, AnswerLeave, sheetVars
<1>2. sheetDirty' \in BOOLEAN
  BY DEF SheetTyped, SheetNext, ServeRow, RowUpdated, RowRefused, TypeRow, DeleteRoom, DuplicateRoom, BeginOne, SaveRows,
         SaveEnds, Closing, LeaveSheet, AnswerLeave, sheetVars
<1>3. savingRooms' \in BOOLEAN
  BY DEF SheetTyped, SheetNext, ServeRow, RowUpdated, RowRefused, TypeRow, DeleteRoom, DuplicateRoom, BeginOne, SaveRows,
         SaveEnds, Closing, LeaveSheet, AnswerLeave, sheetVars
<1>4. closedItself' \in BOOLEAN
  BY DEF SheetTyped, SheetNext, ServeRow, RowUpdated, RowRefused, TypeRow, DeleteRoom, DuplicateRoom, BeginOne, SaveRows,
         SaveEnds, Closing, LeaveSheet, AnswerLeave, sheetVars
<1>5. lostRow' \in BOOLEAN
  BY DEF SheetTyped, SheetNext, ServeRow, RowUpdated, RowRefused, TypeRow, DeleteRoom, DuplicateRoom, BeginOne, SaveRows,
         SaveEnds, Closing, LeaveSheet, AnswerLeave, sheetVars
<1>6. sent' \in 0..MaxSheetCalls
  <2>0. MaxSheetCalls \in Nat /\ sent \in 0..MaxSheetCalls
    BY SheetAssumption DEF SheetTyped
  <2>1. CASE SaveRows
    <3> DEFINE changed == {r \in SheetRooms : typedRows[r] # roomList[r]}
    <3>1. Cardinality(changed) \in Nat
      BY SheetAssumption, FS_Subset, FS_CardinalityType
    <3>2. sent' = sent + Cardinality(changed) /\ sent + Cardinality(changed) <= MaxSheetCalls
      BY <2>1 DEF SaveRows
    <3> HIDE DEF changed
    <3> QED BY <2>0, <3>1, <3>2
  <2>2. CASE sent < MaxSheetCalls /\ sent' = sent + 1
    BY <2>0, <2>2
  <2>3. SaveRows \/ (sent < MaxSheetCalls /\ sent' = sent + 1) \/ sent' = sent
    BY DEF SheetNext, ServeRow, RowUpdated, RowRefused, TypeRow, DeleteRoom, DuplicateRoom, BeginOne,
           SaveEnds, Closing, LeaveSheet, AnswerLeave, sheetVars
  <2> QED BY <2>0, <2>1, <2>2, <2>3
<1> QED BY <1>1, <1>2, <1>3, <1>4, <1>5, <1>6 DEF SheetTyped

LEMMA SheetTypesHold ==
  ASSUME SheetInv, SheetTyped
  PROVE  SheetTypeOK
<1>1. \A r \in SheetRooms : batch[r].stage \in {"idle", "sent", "served", "saved", "failed"}
  <2> TAKE r \in SheetRooms
  <2>1. batch[r] \in BatchRows
    BY DEF SheetInv, SheetTypes
  <2> QED BY <2>1 DEF BatchRows
<1> QED BY <1>1 DEF SheetInv, SheetTypes, SheetTyped, SheetTypeOK

-----------------------------------------------------------------------------
(* The profile.                                                               *)

ProfileTyped ==
  /\ savingLook \subseteq DOMAIN updates
  /\ profileOpen \in BOOLEAN /\ lostUpdate \in BOOLEAN /\ outOfOrder \in BOOLEAN /\ twice \in BOOLEAN
  /\ Len(updates) <= MaxUpdates

LEMMA ProfileTypedInit == ProfileInit => ProfileTyped
<1> SUFFICES ASSUME ProfileInit PROVE ProfileTyped
  OBVIOUS
<1>1. Len(updates) = 0 /\ 0 <= MaxUpdates
  BY ProfileAssumption DEF ProfileInit
<1> QED BY <1>1 DEF ProfileInit, ProfileTyped

LEMMA ProfileTypedStep ==
  ASSUME ProfileInv, ProfileTyped, [ProfileNext]_profileVars
  PROVE  ProfileTyped'
<1>0. ProfileTypes
  BY DEF ProfileInv
<1>1. savingLook' \subseteq DOMAIN updates'
  <2>1. updates \in Seq(UpdateRecords)
    BY <1>0, UpdateTypes
  <2>2. ASSUME NEW f \in UserFields, NEW x \in Looks, ChangeProfile(f, x)
        PROVE  savingLook' \subseteq DOMAIN updates'
    <3>1. PICK q : updates' = Append(updates, q) /\ savingLook' = savingLook \cup {Len(updates) + 1}
      BY <2>2 DEF ChangeProfile
    <3>2. DOMAIN updates' = 1..(Len(updates) + 1) /\ DOMAIN updates = 1..Len(updates) /\ Len(updates) \in Nat
      BY <2>1, <3>1
    <3> QED BY <3>1, <3>2 DEF ProfileTyped
  <2>3. ASSUME NEW n \in DOMAIN updates, ServeUpdate(n) \/ ProfileUpdated(n) \/ ProfileRefused(n)
        PROVE  savingLook' \subseteq DOMAIN updates'
    <3>1. savingLook' \in {savingLook, savingLook \ {n}} /\ \E q : updates' = [updates EXCEPT ![n] = q]
      BY <2>3 DEF ServeUpdate, ProfileUpdated, ProfileRefused, UpdateDone
    <3> QED BY <3>1 DEF ProfileTyped
  <2>4. CASE ToggleProfile \/ UNCHANGED profileVars
    BY <2>4 DEF ToggleProfile, profileVars, ProfileTyped
  <2> QED BY <2>2, <2>3, <2>4 DEF ProfileNext
<1>2. profileOpen' \in BOOLEAN
  BY DEF ProfileTyped, ProfileNext, ChangeProfile, ServeUpdate, ProfileUpdated, ProfileRefused, UpdateDone, ToggleProfile,
         profileVars
<1>3. lostUpdate' \in BOOLEAN
  BY DEF ProfileTyped, ProfileNext, ChangeProfile, ServeUpdate, ProfileUpdated, ProfileRefused, UpdateDone, ToggleProfile,
         profileVars
<1>4. outOfOrder' \in BOOLEAN
  BY DEF ProfileTyped, ProfileNext, ChangeProfile, ServeUpdate, ProfileUpdated, ProfileRefused, UpdateDone, ToggleProfile,
         profileVars, histories
<1>5. twice' \in BOOLEAN
  BY DEF ProfileTyped, ProfileNext, ChangeProfile, ServeUpdate, ProfileUpdated, ProfileRefused, UpdateDone, ToggleProfile,
         profileVars
<1>6. Len(updates') <= MaxUpdates
  <2>1. updates \in Seq(UpdateRecords) /\ Len(updates) \in Nat /\ MaxUpdates \in Nat /\ Len(updates) <= MaxUpdates
    BY <1>0, UpdateTypes, ProfileAssumption DEF ProfileTyped
  <2>2. ASSUME NEW f \in UserFields, NEW x \in Looks, ChangeProfile(f, x)
        PROVE  Len(updates') <= MaxUpdates
    <3>1. Len(updates) < MaxUpdates /\ \E q : updates' = Append(updates, q)
      BY <2>2 DEF ChangeProfile
    <3>2. Len(updates') = Len(updates) + 1
      BY <2>1, <3>1
    <3> QED BY <2>1, <3>1, <3>2
  <2>3. ASSUME NEW n \in DOMAIN updates, ServeUpdate(n) \/ ProfileUpdated(n) \/ ProfileRefused(n)
        PROVE  Len(updates') <= MaxUpdates
    <3>1. \E q : updates' = [updates EXCEPT ![n] = q]
      BY <2>3 DEF ServeUpdate, ProfileUpdated, ProfileRefused, UpdateDone
    <3>2. Len(updates') = Len(updates)
      BY <2>1, <3>1
    <3> QED BY <2>1, <3>2
  <2>4. CASE updates' = updates
    BY <2>1, <2>4
  <2>5. \/ \E f \in UserFields, x \in Looks : ChangeProfile(f, x)
        \/ \E n \in DOMAIN updates : ServeUpdate(n) \/ ProfileUpdated(n) \/ ProfileRefused(n)
        \/ updates' = updates
    BY DEF ProfileNext, ToggleProfile, profileVars
  <2> QED BY <2>2, <2>3, <2>4, <2>5
<1> QED BY <1>1, <1>2, <1>3, <1>4, <1>5, <1>6 DEF ProfileTyped

LEMMA ProfileTypesHold ==
  ASSUME ProfileInv, ProfileTyped
  PROVE  ProfileTypeOK
<1>0. ProfileTypes /\ WritesInv
  BY DEF ProfileInv
<1>1. /\ updates \in Seq(UpdateRecords) /\ Len(updates) \in Nat /\ DOMAIN updates = 1..Len(updates)
      /\ Len(updates) <= MaxUpdates /\ MaxUpdates \in Nat
  BY <1>0, UpdateTypes, ProfileAssumption DEF ProfileTyped
<1>2. Writes \in Nat /\ Writes <= MaxUpdates
  <2>1. IsFiniteSet(1..Len(updates)) /\ Cardinality(1..Len(updates)) = Len(updates)
    <3>1. PICK k \in Nat : k = Len(updates)
      BY <1>1
    <3>2. k \in Int /\ 1 \in Int
      OBVIOUS
    <3>3. IsFiniteSet(1..k) /\ Cardinality(1..k) = IF 1 > k THEN 0 ELSE k - 1 + 1
      BY <3>2, FS_Interval
    <3> QED BY <3>1, <3>3
  <2>2. Written \subseteq 1..Len(updates)
    BY <1>1 DEF Written
  <2>3. Cardinality(Written) <= Len(updates)
    BY <2>1, <2>2, FS_Subset
  <2> QED BY <1>0, <1>1, <2>3, WritesCount, WritesCounted
<1> DEFINE R == [field : UserFields, value : Looks, previous : Looks, reply : Users, write : 0..MaxUpdates,
                 stage : {"sent", "served", "done"}]
<1>3. ASSUME NEW n \in DOMAIN updates PROVE updates[n] \in R
  <2>1. updates[n] \in UpdateRecords
    BY <1>0, UpdateTypes
  <2>2. updates[n].write \in Nat
    BY <2>1 DEF UpdateRecords
  <2>3. updates[n].write <= MaxUpdates
    <3>1. CASE n \in Written
      BY <1>0, <1>1, <1>2, <2>2, <3>1 DEF WritesInv
    <3>2. CASE n \notin Written
      BY <1>1, <2>2, <3>2 DEF Written
    <3> QED BY <3>1, <3>2
  <2>4. updates[n].write \in 0..MaxUpdates
    BY <1>1, <2>2, <2>3
  <2> QED BY <2>1, <2>4 DEF UpdateRecords
<1> HIDE DEF R
<1>4. updates \in Seq(R)
  BY <1>1, <1>3
<1>5. newest \in 0..MaxUpdates
  BY <1>0, <1>1, <1>2 DEF ProfileTypes, WritesInv
<1>6. updates \in Seq([field : UserFields, value : Looks, previous : Looks, reply : Users, write : 0..MaxUpdates,
                       stage : {"sent", "served", "done"}])
  BY <1>4 DEF R
<1> QED BY <1>0, <1>5, <1>6 DEF ProfileTypes, ProfileTyped, ProfileTypeOK

-----------------------------------------------------------------------------
(* The forms of uploaded documents.                                           *)

\* Requests that upload or delete are of a file.
PaperFiles == Files \cup {NoFile}
BoundRequests ==
  {q \in [type : {"upload", "delete", "submit"}, kind : PaperKinds, file : PaperFiles, kept : Papers, reply : Papers,
          from : 1..MaxOpenings, stage : {"sent", "saved", "done"}] : q.type # "submit" => q.file \in Files}
BoundDialogs == [busy : SUBSET PaperKinds, file : PaperFiles, kind : PaperKinds, deleting : BOOLEAN, submitting : BOOLEAN]

DocTyped ==
  /\ which \in Forms
  /\ saved \in Papers /\ store \in Papers /\ shownFiles \in Papers
  /\ dialog \in BoundDialogs /\ opening \in [times : 1..MaxOpenings, open : BOOLEAN]
  /\ docRequests \in Seq(BoundRequests)
  /\ promised \in [kept : SUBSET Files, gone : SUBSET Files] /\ leftBusy \in BOOLEAN

LEMMA DocTypesHold ==
  ASSUME DocTyped
  PROVE  DocTypeOK
<1>1. ASSUME NEW R, NEW S, S \subseteq R, docRequests \in Seq(S)
      PROVE  docRequests \in Seq(R)
  BY <1>1
<1>2. BoundRequests \subseteq [type : {"upload", "delete", "submit"}, kind : PaperKinds, file : Files \cup {NoFile},
                               kept : Papers, reply : Papers, from : 1..MaxOpenings, stage : {"sent", "saved", "done"}]
  BY DEF BoundRequests, PaperFiles
<1>3. docRequests \in Seq([type : {"upload", "delete", "submit"}, kind : PaperKinds, file : Files \cup {NoFile},
                           kept : Papers, reply : Papers, from : 1..MaxOpenings, stage : {"sent", "saved", "done"}])
  BY <1>1, <1>2 DEF DocTyped
<1> QED BY <1>3 DEF DocTyped, DocTypeOK, BoundDialogs, PaperFiles

LEMMA RestTyped == Rest \in BoundDialogs
BY DEF Rest, BoundDialogs, PaperFiles, PaperKinds

LEMMA DocTypedInit == DocInit => DocTyped
<1> SUFFICES ASSUME DocInit PROVE DocTyped
  OBVIOUS
<1>1. 0 \in Files /\ 1 \in 1..MaxOpenings
  BY DocumentAssumption DEF Files
<1>2. saved \in Papers /\ store \in Papers /\ shownFiles \in Papers
  BY <1>1 DEF DocInit, Papers
<1>3. opening \in [times : 1..MaxOpenings, open : BOOLEAN]
  BY <1>1 DEF DocInit
<1>4. promised \in [kept : SUBSET Files, gone : SUBSET Files]
  BY <1>1 DEF DocInit
<1>5. docRequests \in Seq(BoundRequests)
  BY DEF DocInit
<1> QED BY <1>2, <1>3, <1>4, <1>5, RestTyped DEF DocInit, DocTyped

LEMMA BoundRequest ==
  ASSUME DocTyped, NEW n \in DOMAIN docRequests
  PROVE  /\ docRequests[n] \in BoundRequests /\ docRequests[n].type \in {"upload", "delete", "submit"}
         /\ docRequests[n].kept \in Papers /\ docRequests[n].reply \in Papers /\ docRequests[n].kind \in PaperKinds
         /\ docRequests[n].type # "submit" => docRequests[n].file \in Files
<1>1. docRequests[n] \in BoundRequests
  BY DEF DocTyped
<1> QED BY <1>1 DEF BoundRequests

\* What a request that is sent must be, and what the answers make of it.
LEMMA SendingTyped ==
  ASSUME DocTyped, NEW type \in {"upload", "delete", "submit"}, NEW kind \in PaperKinds, NEW file \in PaperFiles,
         NEW kept \in Papers, SendFiles(type, kind, file, kept), type # "submit" => file \in Files
  PROVE  docRequests' \in Seq(BoundRequests)
<1> DEFINE q == [type |-> type, kind |-> kind, file |-> file, kept |-> kept, reply |-> NoPapers,
                 from |-> opening.times, stage |-> "sent"]
<1>1. NoPapers \in Papers /\ opening.times \in 1..MaxOpenings
  BY DEF NoPapers, Papers, DocTyped
<1>2. q \in BoundRequests
  BY <1>1 DEF BoundRequests
<1>3. docRequests' = Append(docRequests, q)
  BY DEF SendFiles
<1> HIDE DEF q
<1> QED BY <1>2, <1>3 DEF DocTyped

LEMMA DoneTyped ==
  ASSUME DocTyped, NEW n \in DOMAIN docRequests, Done(n)
  PROVE  docRequests' \in Seq(BoundRequests)
<1>1. docRequests[n] \in BoundRequests
  BY BoundRequest
<1>2. [docRequests[n] EXCEPT !.stage = "done"] \in BoundRequests
  BY <1>1 DEF BoundRequests
<1>3. docRequests' = [docRequests EXCEPT ![n] = [docRequests[n] EXCEPT !.stage = "done"]]
  BY DEF Done
<1>4. ASSUME NEW q \in BoundRequests, docRequests' = [docRequests EXCEPT ![n] = q]
      PROVE  docRequests' \in Seq(BoundRequests)
  BY <1>4 DEF DocTyped
<1> QED BY <1>2, <1>3, <1>4

LEMMA WrittenTyped ==
  ASSUME DocTyped, NEW n \in DOMAIN docRequests
  PROVE  WithFile(docRequests[n]) \in Papers
<1>1. PICK q \in BoundRequests : q = docRequests[n]
  BY BoundRequest
<1>2. q.kept \in Papers /\ (q.type = "upload" => q.file \in Files)
  BY DEF BoundRequests
<1>3. WithFile(q) \in Papers
  BY <1>2 DEF WithFile, Papers
<1> QED BY <1>1, <1>3

LEMMA FinishedTyped ==
  ASSUME DocTyped, NEW n \in DOMAIN docRequests
  PROVE  /\ Finished(docRequests[n]) \in BoundDialogs
         /\ [Finished(docRequests[n]) EXCEPT !.file = NoFile] \in BoundDialogs
<1>1. PICK q : q = docRequests[n] /\ q.type \in {"upload", "delete", "submit"}
  BY BoundRequest
<1>2. Finished(q) \in BoundDialogs
  BY <1>1 DEF Finished, DocTyped, BoundDialogs
<1>3. \A d \in BoundDialogs : [d EXCEPT !.file = NoFile] \in BoundDialogs
  BY DEF BoundDialogs, PaperFiles
<1> QED BY <1>1, <1>2, <1>3

\* The handlers up to their request.
LEMMA HandlerTyped ==
  ASSUME DocTyped,
         \/ \E kind \in PaperKinds : StartUpload(kind) \/ \E file \in Files : AskDelete(kind, file)
         \/ CancelDelete \/ ConfirmDelete \/ SubmitTenant
  PROVE  DocTyped'
<1>0. dialog \in BoundDialogs /\ shownFiles \in Papers /\ "cccd" \in PaperKinds
  BY DEF DocTyped, PaperKinds
<1>1. ASSUME NEW kind \in PaperKinds, StartUpload(kind)
      PROVE  DocTyped'
  <2>1. UNCHANGED <<which, saved, store, shownFiles, opening, promised, leftBusy>>
    BY <1>1 DEF StartUpload
  <2>2. dialog' \in BoundDialogs
    BY <1>0, <1>1 DEF StartUpload, BoundDialogs
  <2>3. PICK k \in Files : SendFiles("upload", kind, k, shownFiles)
    <3>1. Len(docRequests) \in Nat /\ Len(docRequests) < MaxDocRequests
      BY <1>1 DEF StartUpload, SendFiles, DocTyped
    <3>2. Len(docRequests) + 1 \in Files
      BY <3>1, DocumentAssumption DEF Files
    <3> QED BY <1>1, <3>2 DEF StartUpload
  <2>4. docRequests' \in Seq(BoundRequests)
    BY <1>0, <2>3, SendingTyped DEF PaperFiles
  <2> QED BY <2>1, <2>2, <2>4 DEF DocTyped
<1>2. ASSUME NEW kind \in PaperKinds, NEW file \in Files, AskDelete(kind, file)
      PROVE  DocTyped'
  <2>1. UNCHANGED <<which, saved, store, shownFiles, opening, docRequests, promised, leftBusy>>
    BY <1>2 DEF AskDelete
  <2>2. dialog' \in BoundDialogs
    BY <1>0, <1>2 DEF AskDelete, BoundDialogs, PaperFiles
  <2> QED BY <2>1, <2>2 DEF DocTyped
<1>3. CASE CancelDelete
  <2>1. UNCHANGED <<which, saved, store, shownFiles, opening, docRequests, promised, leftBusy>>
    BY <1>3 DEF CancelDelete
  <2>2. dialog' \in BoundDialogs
    BY <1>0, <1>3 DEF CancelDelete, BoundDialogs, PaperFiles
  <2> QED BY <2>1, <2>2 DEF DocTyped
<1>4. CASE ConfirmDelete
  <2>1. UNCHANGED <<which, saved, store, shownFiles, opening, leftBusy>>
    BY <1>4 DEF ConfirmDelete
  <2>2. dialog' \in BoundDialogs
    BY <1>0, <1>4 DEF ConfirmDelete, BoundDialogs
  <2>3. dialog.file \in Files /\ dialog.kind \in PaperKinds
    BY <1>0, <1>4 DEF ConfirmDelete, BoundDialogs, PaperFiles
  <2>4. PICK kept \in Papers : SendFiles("delete", dialog.kind, dialog.file, kept)
    <3>1. [shownFiles EXCEPT ![dialog.kind] = @ \ {dialog.file}] \in Papers
      BY <1>0, <2>3 DEF Papers
    <3> QED BY <1>4, <3>1 DEF ConfirmDelete
  <2>5. docRequests' \in Seq(BoundRequests)
    BY <2>3, <2>4, SendingTyped DEF PaperFiles
  <2>6. promised' \in [kept : SUBSET Files, gone : SUBSET Files]
    BY <1>4 DEF ConfirmDelete, DocTyped
  <2> QED BY <2>1, <2>2, <2>5, <2>6 DEF DocTyped
<1>5. CASE SubmitTenant
  <2>1. UNCHANGED <<which, saved, store, shownFiles, opening, promised, leftBusy>>
    BY <1>5 DEF SubmitTenant
  <2>2. dialog' \in BoundDialogs
    BY <1>0, <1>5 DEF SubmitTenant, BoundDialogs
  <2>3. SendFiles("submit", "cccd", NoFile, shownFiles)
    BY <1>5 DEF SubmitTenant
  <2>4. docRequests' \in Seq(BoundRequests)
    BY <1>0, <2>3, SendingTyped DEF PaperFiles
  <2> QED BY <2>1, <2>2, <2>4 DEF DocTyped
<1> QED BY <1>1, <1>2, <1>3, <1>4, <1>5

\* The ends of a request.
LEMMA EndTyped ==
  ASSUME DocTyped, NEW n \in DOMAIN docRequests, RequestFails(n) \/ DocAnswered(n) \/ ServerSaves(n)
  PROVE  DocTyped'
<1>0. /\ docRequests[n] \in BoundRequests /\ docRequests[n].type \in {"upload", "delete", "submit"}
      /\ docRequests[n].reply \in Papers /\ (docRequests[n].type # "submit" => docRequests[n].file \in Files)
  BY BoundRequest
<1>1. CASE RequestFails(n)
  <2>1. UNCHANGED <<which, saved, store, shownFiles, opening, promised, leftBusy>> /\ Done(n)
    BY <1>1 DEF RequestFails
  <2>2. dialog' \in {dialog, Finished(docRequests[n])}
    BY <1>1 DEF RequestFails
  <2>3. dialog' \in BoundDialogs
    BY <2>2, FinishedTyped DEF DocTyped
  <2>4. docRequests' \in Seq(BoundRequests)
    BY <2>1, DoneTyped
  <2> QED BY <2>1, <2>3, <2>4 DEF DocTyped
<1>2. CASE DocAnswered(n)
  <2>1. UNCHANGED <<which, saved>> /\ Done(n) /\ store' = docRequests[n].reply
    BY <1>2 DEF DocAnswered
  <2>2. docRequests' \in Seq(BoundRequests)
    BY <2>1, DoneTyped
  <2>3. promised' \in [kept : SUBSET Files, gone : SUBSET Files]
    <3>1. CASE docRequests[n].type = "upload"
      <4>1. promised' = [promised EXCEPT !.kept = @ \cup {docRequests[n].file}]
        BY <1>2, <3>1 DEF DocAnswered
      <4> QED BY <1>0, <3>1, <4>1 DEF DocTyped
    <3>2. CASE docRequests[n].type = "delete"
      <4>1. promised' = [promised EXCEPT !.gone = @ \cup {docRequests[n].file}]
        BY <1>2, <3>2 DEF DocAnswered
      <4> QED BY <1>0, <3>2, <4>1 DEF DocTyped
    <3>3. CASE docRequests[n].type = "submit"
      <4>1. promised' = promised
        BY <1>2, <3>3 DEF DocAnswered
      <4> QED BY <4>1 DEF DocTyped
    <3> QED BY <1>0, <3>1, <3>2, <3>3
  <2>4. shownFiles' \in {shownFiles, docRequests[n].reply}
    BY <1>2 DEF DocAnswered
  <2>5. dialog' \in {dialog, Rest, Finished(docRequests[n]), [Finished(docRequests[n]) EXCEPT !.file = NoFile]}
    BY <1>2 DEF DocAnswered
  <2>6. dialog' \in BoundDialogs
    BY <2>5, RestTyped, FinishedTyped DEF DocTyped
  <2>7. opening' \in {opening, [opening EXCEPT !.open = FALSE]}
    BY <1>2 DEF DocAnswered
  <2>8. opening' \in [times : 1..MaxOpenings, open : BOOLEAN]
    BY <2>7 DEF DocTyped
  <2>9. leftBusy' \in BOOLEAN
    BY <1>2 DEF DocAnswered, DocTyped
  <2>10. store' \in Papers /\ shownFiles' \in Papers
    BY <1>0, <2>1, <2>4 DEF DocTyped
  <2> QED BY <2>1, <2>2, <2>3, <2>6, <2>8, <2>9, <2>10 DEF DocTyped
<1>3. CASE ServerSaves(n)
  <2>1. PICK w \in Papers : w = WithFile(docRequests[n])
    BY WrittenTyped
  <2>2. UNCHANGED <<which, store, shownFiles, dialog, opening, promised, leftBusy>> /\ saved' = w
    BY <1>3, <2>1 DEF ServerSaves
  <2> DEFINE q == [docRequests[n] EXCEPT !.stage = "saved", !.reply = w]
  <2>3. q \in BoundRequests
    BY <1>0 DEF BoundRequests
  <2>4. docRequests' = [docRequests EXCEPT ![n] = q]
    BY <1>3, <2>1 DEF ServerSaves
  <2> HIDE DEF q
  <2>5. docRequests' \in Seq(BoundRequests)
    BY <2>3, <2>4 DEF DocTyped
  <2> QED BY <2>2, <2>5 DEF DocTyped
<1> QED BY <1>1, <1>2, <1>3

LEMMA DocTypedStep ==
  ASSUME DocTyped, [DocNext]_docVars
  PROVE  DocTyped'
<1>1. CASE UNCHANGED docVars
  BY <1>1 DEF docVars, DocTyped
<1>2. CASE CloseForm
  <2>1. UNCHANGED <<which, saved, store, shownFiles, docRequests, promised>> /\ dialog' = Rest
    BY <1>2 DEF CloseForm, Leave
  <2>2. opening' \in [times : 1..MaxOpenings, open : BOOLEAN]
    BY <1>2 DEF CloseForm, Leave, DocTyped
  <2>3. leftBusy' \in BOOLEAN
    BY <1>2 DEF CloseForm, Leave, DocTyped
  <2> QED BY <2>1, <2>2, <2>3, RestTyped DEF DocTyped
<1>3. CASE ReopenForm
  <2>1. UNCHANGED <<which, saved, store, dialog, docRequests, promised, leftBusy>> /\ shownFiles' = store
    BY <1>3 DEF ReopenForm
  <2>2. opening.times \in 1..MaxOpenings /\ opening.times < MaxOpenings /\ MaxOpenings \in Nat
    BY <1>3, DocumentAssumption DEF ReopenForm, DocTyped
  <2>3. opening.times + 1 \in 1..MaxOpenings
    BY <2>2
  <2>4. opening' \in [times : 1..MaxOpenings, open : BOOLEAN]
    BY <1>3, <2>3 DEF ReopenForm
  <2> QED BY <2>1, <2>4 DEF DocTyped
<1>4. CASE \/ \E kind \in PaperKinds : StartUpload(kind) \/ \E file \in Files : AskDelete(kind, file)
           \/ CancelDelete \/ ConfirmDelete \/ SubmitTenant
  BY <1>4, HandlerTyped
<1>5. CASE \E n \in DOMAIN docRequests : RequestFails(n) \/ DocAnswered(n) \/ ServerSaves(n)
  BY <1>5, EndTyped
<1>6. KindsOf(which) \subseteq PaperKinds
  BY DEF KindsOf, PaperKinds, DocTyped, Forms
<1> QED BY <1>1, <1>2, <1>3, <1>4, <1>5, <1>6
        DEF DocNext, UploadHousePapers, DeleteHousePaper, UploadCards, DeleteCard, SubmitCards, UploadContract, DeleteContract,
            HandleUpload, HandleDelete, RequestOf

-----------------------------------------------------------------------------
(* The session: no token is used that was not issued, and the requests that   *)
(* still wait for one were counted when they were sent.                       *)

Owing(q) == q.type \in {"refresh", "login", "verify"} /\ q.stage # "refused" /\ q.got = NoToken
Owed == {c \in Callers : Owing(sessionCalls[c])}

\* A request knows tokens that were issued, and has none before it is served.
Known(q, k) ==
  /\ q.access <= k /\ q.refresh <= k /\ q.got <= k
  /\ q.stage \in {"none", "key", "proved", "sent"} => q.got = NoToken

TokensCounted == issued + Cardinality(Owed) <= MaxIssued
CallsKnown == \A c \in Callers : Known(sessionCalls[c], issued)
PagesKnown ==
  /\ \A p \in BrowserTabs : pages[p].token <= issued
  /\ cookies.access <= issued /\ cookies.refresh <= issued /\ logins <= issued
KeysKnown ==
  /\ \A c \in Callers : keygen[c] <= keyPairs
  /\ keyStore.private <= keyPairs /\ keyStore.public <= keyPairs
RunBounded == (\A p \in BrowserTabs : opens[p] <= MaxOpens) /\ lostCalls \in 0..MaxLost /\ hasty \in BOOLEAN

SessionTyped == TokensCounted /\ CallsKnown /\ PagesKnown /\ KeysKnown /\ RunBounded

LEMMA OwedFinite == IsFiniteSet(Callers) /\ IsFiniteSet(Owed) /\ Cardinality(Owed) \in Nat /\ MaxIssued \in Nat
<1>1. IsFiniteSet({"load"} \cup {"user"})
  BY FS_Singleton, FS_AddElement
<1>2. IsFiniteSet(Threads) /\ IsFiniteSet(BrowserTabs) /\ MaxIssued \in Nat
  <2>1. Threads = {"load"} \cup {"user"}
    BY DEF Threads
  <2> QED BY <1>1, <2>1, SessionAssumption
<1>3. IsFiniteSet(Callers)
  BY <1>2, FS_Product DEF Callers
<1>4. Owed \in SUBSET Callers
  BY DEF Owed
<1> HIDE DEF Owed
<1>5. IsFiniteSet(Owed)
  BY <1>3, <1>4, FS_Subset
<1> QED BY <1>2, <1>3, <1>5, FS_CardinalityType

LEMMA SessionTypesHold ==
  ASSUME SessionInv, SessionTyped
  PROVE  SessionTypeOK
<1>1. SessionTypes /\ live \cup orphans \subseteq DOMAIN boundTo
  BY DEF SessionInv, TabsInv, OrphanInv
<1>2. issued \in Nat /\ issued <= MaxIssued
  <2>1. issued \in Nat
    BY <1>1 DEF SessionTypes
  <2> QED BY <2>1, OwedFinite DEF SessionTyped, TokensCounted
<1>3. \A n \in Nat : n <= issued => n \in Tokens
  BY <1>2, OwedFinite DEF Tokens
<1>4. \A p \in BrowserTabs : pages[p].shows \in {"closed", "loading", "login", "home"} /\ pages[p].token \in Tokens
  BY <1>1, <1>3 DEF SessionTypes, SessionTyped, PagesKnown
<1>5. \A c \in Callers :
        /\ sessionCalls[c].type \in {"none", "refresh", "me", "login", "logout", "work", "verify"}
        /\ sessionCalls[c].stage \in {"none", "key", "proved", "sent", "issued", "ok", "refused"}
        /\ {sessionCalls[c].access, sessionCalls[c].refresh, sessionCalls[c].got} \subseteq Tokens
  <2> TAKE c \in Callers
  <2>1. sessionCalls[c] \in CallRecords /\ Known(sessionCalls[c], issued)
    BY <1>1 DEF SessionTypes, SessionTyped, CallsKnown
  <2>2. /\ sessionCalls[c].type \in CallTypes /\ sessionCalls[c].stage \in CallStages
        /\ sessionCalls[c].access \in Nat /\ sessionCalls[c].refresh \in Nat /\ sessionCalls[c].got \in Nat
    BY <2>1 DEF CallRecords
  <2> QED BY <1>3, <2>1, <2>2 DEF Known, CallTypes, CallStages
<1>6. keygen \in [Callers -> 0..keyPairs] /\ keyStore \in [private : 0..keyPairs, public : 0..keyPairs]
  <2>1. \A c \in Callers : keygen[c] \in 0..keyPairs
    BY <1>1 DEF SessionTypes, SessionTyped, KeysKnown
  <2> QED BY <1>1, <2>1 DEF SessionTypes, SessionTyped, KeysKnown
<1>7. cookies \in [access : Tokens, refresh : Tokens] /\ logins \in Tokens
  BY <1>1, <1>3 DEF SessionTypes, SessionTyped, PagesKnown
<1>8. opens \in [BrowserTabs -> 0..MaxOpens]
  <2>1. \A p \in BrowserTabs : opens[p] \in 0..MaxOpens
    BY <1>1, SessionAssumption DEF SessionTypes, SessionTyped, RunBounded
  <2> QED BY <1>1, <2>1 DEF SessionTypes
<1>9. lostCalls \in 0..MaxLost /\ hasty \in BOOLEAN
  BY DEF SessionTyped, RunBounded
<1> QED BY <1>1, <1>4, <1>5, <1>6, <1>7, <1>8, <1>9 DEF SessionTypeOK

LEMMA NoRequestKnown == ASSUME NEW k \in Nat PROVE Known(NoRequest, k) /\ ~Owing(NoRequest)
BY DEF Known, Owing, NoRequest, NoToken

LEMMA AskedKnown ==
  ASSUME NEW type \in CallTypes, NEW k \in Nat
  PROVE  Known(Asks(type), k) /\ (Owing(Asks(type)) => type \in {"refresh", "login", "verify"})
BY DEF Known, Owing, Asks, NoRequest, NoToken

LEMMA SessionTypedInit == SessionInit => SessionTyped
<1> SUFFICES ASSUME SessionInit PROVE SessionTyped
  OBVIOUS
<1>1. SessionTypes /\ issued = 0
  BY SessionInvInit, FS_EmptySet DEF SessionInv, SessionInit, issued
<1>2. Owed = {}
  BY NoRequestKnown DEF SessionInit, Owed
<1>3. TokensCounted
  BY <1>1, <1>2, FS_EmptySet, OwedFinite DEF TokensCounted
<1>4. CallsKnown
  BY <1>1, NoRequestKnown DEF SessionInit, CallsKnown
<1>5. PagesKnown
  BY <1>1 DEF SessionInit, PagesKnown, NoToken
<1>6. KeysKnown
  BY DEF SessionInit, KeysKnown
<1>7. 0 <= MaxOpens /\ 0 \in 0..MaxLost
  BY SessionAssumption
<1>8. RunBounded
  BY <1>7 DEF SessionInit, RunBounded
<1> QED BY <1>3, <1>4, <1>5, <1>6, <1>8 DEF SessionTyped

-----------------------------------------------------------------------------
\* The three ways in which the tokens asked for change.
LEMMA NoneAsked ==
  ASSUME SessionTypes, TokensCounted, Owed' \subseteq Owed, issued' = issued
  PROVE  TokensCounted'
<1>1. Cardinality(Owed') <= Cardinality(Owed) /\ Cardinality(Owed') \in Nat
  BY OwedFinite, FS_Subset, FS_CardinalityType
<1> QED BY <1>1, OwedFinite DEF TokensCounted, SessionTypes

LEMMA OneAsked ==
  ASSUME SessionTypes, MayIssue, NEW c, Owed' \subseteq Owed \cup {c}, issued' = issued
  PROVE  TokensCounted'
<1>1. issued + Cardinality(Owed) < MaxIssued
  BY DEF MayIssue, Owed, Owing
<1>2. IsFiniteSet(Owed \cup {c}) /\ Cardinality(Owed \cup {c}) <= Cardinality(Owed) + 1
  <2>1. IsFiniteSet(Owed \cup {c}) /\ Cardinality(Owed \cup {c}) = IF c \in Owed THEN Cardinality(Owed) ELSE Cardinality(Owed) + 1
    BY OwedFinite, FS_AddElement
  <2> QED BY <2>1, OwedFinite
<1>3. Cardinality(Owed') <= Cardinality(Owed \cup {c}) /\ Cardinality(Owed') \in Nat /\ Cardinality(Owed \cup {c}) \in Nat
  BY <1>2, FS_Subset, FS_CardinalityType
<1> QED BY <1>1, <1>2, <1>3, OwedFinite DEF TokensCounted, SessionTypes

LEMMA OneIssued ==
  ASSUME SessionTypes, TokensCounted, NEW c \in Owed, Owed' \subseteq Owed \ {c}, issued' = issued + 1
  PROVE  TokensCounted'
<1>1. IsFiniteSet(Owed \ {c}) /\ Cardinality(Owed \ {c}) = Cardinality(Owed) - 1
  BY OwedFinite, FS_RemoveElement
<1>2. Cardinality(Owed') <= Cardinality(Owed \ {c}) /\ Cardinality(Owed') \in Nat
  BY <1>1, FS_Subset, FS_CardinalityType
<1> QED BY <1>1, <1>2, OwedFinite DEF TokensCounted, SessionTypes

\* One request is replaced: what its tab and thread owe, and what the others know.
LEMMA OwedAfter ==
  ASSUME SessionTypes, NEW p \in BrowserTabs, NEW th \in Threads, NEW q, CallReplaced(p, th, q)
  PROVE  Owed' \subseteq Owed \cup {<<p, th>>} /\ (~Owing(q) => Owed' \subseteq Owed \ {<<p, th>>})
<1>1. ASSUME NEW c \in Owed', c # <<p, th>>
      PROVE  c \in Owed
  <2>1. PICK r \in BrowserTabs, t \in Threads : c = <<r, t>>
    BY <1>1 DEF Owed, Callers
  <2>2. sessionCalls'[c] = sessionCalls[c] /\ c \in Callers
    BY <1>1, <2>1 DEF CallReplaced, Callers
  <2> QED BY <1>1, <2>2 DEF Owed, Owing
<1>2. ~Owing(q) => <<p, th>> \notin Owed'
  BY DEF CallReplaced, Owed, Owing
<1> QED BY <1>1, <1>2

LEMMA KnownAfter ==
  ASSUME SessionTypes, CallsKnown, NEW p \in BrowserTabs, NEW th \in Threads, NEW q, CallReplaced(p, th, q),
         issued' \in Nat, issued <= issued', Known(q, issued')
  PROVE  CallsKnown'
<1>1. ASSUME NEW c \in Callers
      PROVE  Known(sessionCalls'[c], issued')
  <2>1. PICK r \in BrowserTabs, t \in Threads : c = <<r, t>>
    BY <1>1 DEF Callers
  <2>2. CASE c = <<p, th>>
    BY <2>2 DEF CallReplaced
  <2>3. CASE c # <<p, th>>
    <3>1. sessionCalls'[c] = sessionCalls[c]
      BY <2>1, <2>3 DEF CallReplaced
    <3>2. PICK s \in CallRecords : s = sessionCalls[c] /\ Known(s, issued)
      BY <1>1 DEF SessionTypes, CallsKnown
    <3>3. s.access \in Nat /\ s.refresh \in Nat /\ s.got \in Nat /\ issued \in Nat
      BY <3>2 DEF CallRecords, SessionTypes
    <3> QED BY <3>1, <3>2, <3>3 DEF Known
  <2> QED BY <2>2, <2>3
<1> QED BY <1>1 DEF CallsKnown, Known

LEMMA OneReplaced ==
  ASSUME SessionTypes, SessionTyped, NEW p \in BrowserTabs, NEW th \in Threads, NEW q, CallReplaced(p, th, q),
         Known(q, issued), issued' = issued, ~Owing(q) \/ <<p, th>> \in Owed \/ MayIssue
  PROVE  TokensCounted' /\ CallsKnown'
<1>1. issued \in Nat
  BY DEF SessionTypes
<1>2. CallsKnown'
  BY <1>1, KnownAfter DEF SessionTyped
<1>3. TokensCounted'
  <2>1. CASE ~Owing(q) \/ <<p, th>> \in Owed
    <3>1. Owed' \subseteq Owed
      BY <2>1, OwedAfter
    <3> QED BY <3>1, NoneAsked DEF SessionTyped
  <2>2. CASE MayIssue
    BY <2>2, OwedAfter, OneAsked
  <2> QED BY <2>1, <2>2
<1> QED BY <1>2, <1>3

\* What a request owes, in terms of its record.
LEMMA OwedCall ==
  ASSUME SessionTypes, SessionTyped, NEW p \in BrowserTabs, NEW th \in Threads
  PROVE  /\ sessionCalls[p, th] \in CallRecords /\ Known(sessionCalls[p, th], issued)
         /\ <<p, th>> \in Owed <=> Owing(sessionCalls[p, th])
<1>1. <<p, th>> \in Callers
  BY DEF Callers
<1> QED BY <1>1, CallType DEF Owed, SessionTyped, CallsKnown

LEMMA KnownTokens ==
  ASSUME SessionTypes, SessionTyped
  PROVE  /\ issued \in Nat /\ cookies.access \in Nat /\ cookies.access <= issued
         /\ cookies.refresh \in Nat /\ cookies.refresh <= issued
BY DEF SessionTypes, SessionTyped, PagesKnown

LEMMA PagesKept ==
  ASSUME SessionTypes, SessionTyped, UNCHANGED <<pages, cookies>>, issued' \in Nat, issued <= issued',
         logins' = logins \/ (logins' = logins + 1 /\ issued' = issued + 1)
  PROVE  PagesKnown'
<1>1. /\ issued \in Nat /\ logins \in Nat /\ logins <= issued
      /\ cookies.access \in Nat /\ cookies.access <= issued
      /\ cookies.refresh \in Nat /\ cookies.refresh <= issued
  BY DEF SessionTypes, SessionTyped, PagesKnown
<1>2. logins' <= issued' /\ cookies.access <= issued' /\ cookies.refresh <= issued'
  BY <1>1
<1>3. \A p \in BrowserTabs : pages[p].token <= issued'
  BY <1>1 DEF SessionTypes, SessionTyped, PagesKnown
<1> QED BY <1>2, <1>3 DEF PagesKnown

LEMMA KeysKept == ASSUME SessionTyped, UNCHANGED keyVars PROVE KeysKnown'
BY DEF SessionTyped, KeysKnown, keyVars

LEMMA RunKept == ASSUME SessionTyped, UNCHANGED <<opens, lostCalls, hasty>> PROVE RunBounded'
BY DEF SessionTyped, RunBounded

\* Storing a key: the pair is one that was generated.
LEMMA KeysTyped ==
  ASSUME SessionTypes, SessionTyped, NEW p \in BrowserTabs, NEW th \in Threads,
         GenerateKey(p, th) \/ StorePrivate(p, th) \/ StorePublic(p, th)
  PROVE  SessionTyped'
<1>1. UNCHANGED <<pages, sessionCalls, cookies, boundTo, opens, lostCalls, hasty, logins>> /\ issued' = issued
  BY DEF GenerateKey, StorePrivate, StorePublic, serverVars, issued
<1>2. Owed' = Owed
  BY <1>1 DEF Owed, Owing
<1>3. TokensCounted' /\ CallsKnown'
  BY <1>1, <1>2 DEF SessionTyped, TokensCounted, CallsKnown, Known
<1>4. PagesKnown' /\ RunBounded'
  BY <1>1, RunKept DEF SessionTyped, PagesKnown
<1>5. KeysKnown'
  <2>1. /\ <<p, th>> \in Callers /\ keygen \in [Callers -> Nat] /\ keyPairs \in Nat
        /\ keyStore \in [private : Nat, public : Nat] /\ keyStore.private <= keyPairs /\ keyStore.public <= keyPairs
        /\ \A c \in Callers : keygen[c] <= keyPairs
    BY DEF Callers, SessionTypes, SessionTyped, KeysKnown
  <2>2. CASE GenerateKey(p, th)
    <3>1. PICK n \in Nat : n = keyPairs + 1
      BY <2>1
    <3>2. keyPairs' = n /\ keygen' = [keygen EXCEPT ![<<p, th>>] = n] /\ keyStore' = keyStore
      BY <2>2, <3>1 DEF GenerateKey
    <3>3. \A c \in Callers : keygen'[c] <= n
      BY <2>1, <3>1, <3>2
    <3>4. keyStore.private <= n /\ keyStore.public <= n
      BY <2>1, <3>1
    <3> QED BY <3>2, <3>3, <3>4 DEF KeysKnown
  <2>3. CASE StorePrivate(p, th)
    BY <2>1, <2>3 DEF StorePrivate, KeysKnown
  <2>4. CASE StorePublic(p, th)
    <3>1. /\ keyStore' = [keyStore EXCEPT !.public = keygen[p, th]]
          /\ keygen' = [keygen EXCEPT ![<<p, th>>] = 0] /\ keyPairs' = keyPairs
      BY <2>4 DEF StorePublic
    <3>2. keygen[p, th] \in Nat /\ keygen[p, th] <= keyPairs
      BY <2>1
    <3>3. \A c \in Callers : keygen'[c] <= keyPairs
      <4>1. 0 <= keyPairs
        BY <2>1
      <4> QED BY <2>1, <3>1, <4>1
    <3>4. keyStore'.private <= keyPairs /\ keyStore'.public <= keyPairs
      BY <2>1, <3>1, <3>2
    <3> QED BY <3>1, <3>3, <3>4 DEF KeysKnown
  <2> QED BY <2>2, <2>3, <2>4
<1> QED BY <1>3, <1>4, <1>5 DEF SessionTyped

LEMMA ProveTyped ==
  ASSUME SessionTypes, SessionTyped, NEW p \in BrowserTabs, NEW th \in Threads, Prove(p, th) \/ SendCall(p, th)
  PROVE  SessionTyped'
<1>1. PICK c \in CallRecords : c = sessionCalls[p, th] /\ Known(c, issued) /\ (<<p, th>> \in Owed <=> Owing(c))
  BY OwedCall
<1>2. /\ UNCHANGED <<pages, keyVars, cookies, boundTo, opens, lostCalls, hasty, logins>> /\ issued' = issued
      /\ c.stage \in {"key", "proved"}
  BY <1>1 DEF Prove, SendCall, serverVars, issued
<1>3. \E q \in CallRecords : /\ sessionCalls' = [sessionCalls EXCEPT ![<<p, th>>] = q]
                            /\ Known(q, issued) /\ q.type = c.type /\ q.got = c.got
  <2>1. CASE Prove(p, th)
    <3> DEFINE q1 == [c EXCEPT !.stage = "proved"]
               q2 == [q1 EXCEPT !.private = keyStore.private]
               q3 == [q2 EXCEPT !.public = keyStore.public]
               q == [q3 EXCEPT !.ath = pages[p].token]
    <3>1. keyStore.private \in Nat /\ keyStore.public \in Nat /\ pages[p].token \in Nat
      BY DEF SessionTypes
    <3>2. /\ q1 \in CallRecords /\ q1.stage = "proved" /\ q1.type = c.type
          /\ q1.access = c.access /\ q1.refresh = c.refresh /\ q1.got = c.got
      BY DEF CallRecords, CallStages
    <3>3. /\ q2 \in CallRecords /\ q2.stage = "proved" /\ q2.type = c.type
          /\ q2.access = c.access /\ q2.refresh = c.refresh /\ q2.got = c.got
      <4> HIDE DEF q1
      <4> QED BY <3>1, <3>2 DEF CallRecords
    <3>4. /\ q3 \in CallRecords /\ q3.stage = "proved" /\ q3.type = c.type
          /\ q3.access = c.access /\ q3.refresh = c.refresh /\ q3.got = c.got
      <4> HIDE DEF q2
      <4> QED BY <3>1, <3>3 DEF CallRecords
    <3>5. /\ q \in CallRecords /\ q.stage = "proved" /\ q.type = c.type
          /\ q.access = c.access /\ q.refresh = c.refresh /\ q.got = c.got
      <4> HIDE DEF q3
      <4> QED BY <3>1, <3>4 DEF CallRecords
    <3>6. sessionCalls' = [sessionCalls EXCEPT ![<<p, th>>] = q]
      BY <1>1, <2>1 DEF Prove
    <3> HIDE DEF q
    <3> QED BY <1>1, <1>2, <3>5, <3>6 DEF Known
  <2>2. CASE SendCall(p, th)
    <3> DEFINE q1 == [c EXCEPT !.stage = "sent"]
               q2 == [q1 EXCEPT !.access = cookies.access]
               q == [q2 EXCEPT !.refresh = cookies.refresh]
    <3>1. /\ cookies.access \in Nat /\ cookies.refresh \in Nat /\ cookies.access <= issued /\ cookies.refresh <= issued
      BY KnownTokens
    <3>2. q1 \in CallRecords /\ q1.stage = "sent" /\ q1.type = c.type /\ q1.got = c.got
      BY DEF CallRecords, CallStages
    <3>3. q2 \in CallRecords /\ q2.stage = "sent" /\ q2.type = c.type /\ q2.access = cookies.access /\ q2.got = c.got
      <4> HIDE DEF q1
      <4> QED BY <3>1, <3>2 DEF CallRecords
    <3>4. /\ q \in CallRecords /\ q.stage = "sent" /\ q.type = c.type /\ q.got = c.got
          /\ q.access = cookies.access /\ q.refresh = cookies.refresh
      <4> HIDE DEF q2
      <4> QED BY <3>1, <3>3 DEF CallRecords
    <3>5. sessionCalls' = [sessionCalls EXCEPT ![<<p, th>>] = q]
      BY <1>1, <2>2 DEF SendCall
    <3> HIDE DEF q
    <3> QED BY <1>1, <1>2, <3>1, <3>4, <3>5 DEF Known
  <2> QED BY <2>1, <2>2
<1>4. PICK q \in CallRecords : CallReplaced(p, th, q) /\ Known(q, issued) /\ (Owing(q) => Owing(c))
  BY <1>2, <1>3, CallReplacing DEF Owing
<1>5. TokensCounted' /\ CallsKnown'
  BY <1>1, <1>2, <1>4, OneReplaced
<1>6. PagesKnown' /\ KeysKnown' /\ RunBounded'
  <2>1. issued \in Nat /\ issued <= issued'
    BY <1>2, KnownTokens
  <2> QED BY <1>2, <2>1, PagesKept, KeysKept, RunKept
<1> QED BY <1>5, <1>6 DEF SessionTyped

\* An answer that issues nothing, and one that issues a token.
LEMMA ReplyTyped ==
  ASSUME SessionTypes, SessionTyped, NEW p \in BrowserTabs, NEW th \in Threads, NEW stage \in {"issued", "ok", "refused"},
         NEW token \in Nat, Reply(p, th, stage, token), token = sessionCalls[<<p, th>>].got \/ token = NoToken,
         sessionCalls[<<p, th>>].stage = "sent" \/ stage = "refused" \/ token = sessionCalls[<<p, th>>].got,
         sessionCalls[<<p, th>>].stage # "refused",
         UNCHANGED <<pages, keyVars, cookies, boundTo, opens, logins, hasty>>, lostCalls' \in 0..MaxLost
  PROVE  SessionTyped'
<1>1. PICK c \in CallRecords : c = sessionCalls[p, th] /\ Known(c, issued) /\ (<<p, th>> \in Owed <=> Owing(c))
  BY OwedCall
<1>2. stage \in CallStages /\ issued' = issued /\ issued \in Nat /\ issued <= issued'
  <2>1. stage \in CallStages
    BY DEF CallStages
  <2>2. issued' = issued
    BY DEF issued
  <2>3. issued \in Nat
    BY KnownTokens
  <2> QED BY ONLY <2>1, <2>2, <2>3
<1>3. PICK q \in CallRecords : Replied(p, th, q, stage, token)
  BY <1>2, Replying
<1>4. CallReplaced(p, th, q) /\ q.stage = stage /\ q.got = token /\ q.type = c.type /\ q.access = c.access /\ q.refresh = c.refresh
  BY <1>1, <1>3 DEF Replied
<1>5. /\ token = c.got \/ token = NoToken
      /\ c.stage = "sent" \/ stage = "refused" \/ token = c.got
      /\ c.stage # "refused"
      /\ Known(c, issued) /\ q.stage = stage /\ q.got = token /\ q.type = c.type /\ q.access = c.access /\ q.refresh = c.refresh
  BY <1>1, <1>4
<1>6. Known(q, issued)
  BY <1>2, <1>5 DEF Known, NoToken
<1>7. Owing(q) => Owing(c)
  <2>1. CASE stage = "refused"
    BY <1>5, <2>1 DEF Owing
  <2>2. CASE stage # "refused"
    <3>1. c.stage # "refused" /\ (token = c.got \/ c.got = NoToken)
      BY <1>5, <2>2 DEF Known
    <3> QED BY <1>5, <3>1 DEF Owing
  <2> QED BY <2>1, <2>2
<1>8. TokensCounted' /\ CallsKnown'
  BY <1>1, <1>2, <1>4, <1>6, <1>7, OneReplaced
<1>9. RunBounded'
  BY DEF SessionTyped, RunBounded
<1> QED BY <1>2, <1>8, <1>9, PagesKept, KeysKept DEF SessionTyped

LEMMA IssueTyped ==
  ASSUME SessionTypes, SessionTyped, NEW p \in BrowserTabs, NEW th \in Threads, NEW stage \in {"issued", "ok"},
         Reply(p, th, stage, issued + 1), Issue(sessionCalls[p, th]), sessionCalls[p, th].stage = "sent",
         sessionCalls[p, th].type \in {"refresh", "login", "verify"}, logins' \in {logins, logins + 1},
         UNCHANGED <<pages, keyVars, cookies, opens, lostCalls, hasty>>
  PROVE  SessionTyped'
<1>1. PICK c \in CallRecords : c = sessionCalls[p, th] /\ Known(c, issued) /\ (<<p, th>> \in Owed <=> Owing(c))
  BY OwedCall
<1>2. issued \in Nat /\ issued + 1 \in Nat /\ issued' = issued + 1 /\ issued' \in Nat /\ issued <= issued'
  <2>1. issued' = issued + 1
    BY <1>1, Issuing
  <2>2. issued \in Nat
    BY KnownTokens
  <2> QED BY ONLY <2>1, <2>2
<1>3. PICK q \in CallRecords : Replied(p, th, q, stage, issued + 1)
  BY <1>2, Replying DEF CallStages
<1>4. /\ CallReplaced(p, th, q) /\ q.stage = stage /\ q.got = issued + 1 /\ q.type = c.type
      /\ q.access = c.access /\ q.refresh = c.refresh
  BY <1>1, <1>3 DEF Replied
<1>5. Known(q, issued') /\ ~Owing(q) /\ Owing(c)
  <2>1. c.access \in Nat /\ c.refresh \in Nat
    BY DEF CallRecords
  <2>2. c.got = 0 /\ c.stage = "sent" /\ c.type \in {"refresh", "login", "verify"} /\ c.access <= issued /\ c.refresh <= issued
    BY <1>1 DEF Known, NoToken
  <2>3. Owing(c) /\ ~Owing(q)
    BY ONLY <1>2, <1>4, <2>2 DEF Owing, NoToken
  <2>4. q.access <= issued' /\ q.refresh <= issued' /\ q.got <= issued'
    BY ONLY <1>2, <1>4, <2>1, <2>2
  <2> QED BY <1>4, <2>3, <2>4 DEF Known
<1>6. CallsKnown'
  BY <1>2, <1>4, <1>5, KnownAfter DEF SessionTyped
<1>7. TokensCounted'
  BY <1>1, <1>2, <1>4, <1>5, OwedAfter, OneIssued DEF SessionTyped
<1> QED BY <1>2, <1>6, <1>7, PagesKept, KeysKept, RunKept DEF SessionTyped

\* What a page shows changes, and the token it is given is one that was issued.
LEMMA ShowKnown ==
  ASSUME SessionTypes, SessionTyped, NEW p \in BrowserTabs, NEW what, pages' = Show(p, what)
  PROVE  \A r \in BrowserTabs : pages'[r].token <= issued
<1>1. PICK page \in [shows : {"closed", "loading", "login", "home"}, token : Nat] : page = pages[p]
  BY DEF SessionTypes
<1>2. [page EXCEPT !.shows = what].token = page.token
  OBVIOUS
<1>3. pages' = [pages EXCEPT ![p] = [page EXCEPT !.shows = what]]
  BY <1>1 DEF Show
<1>4. \A r \in BrowserTabs : pages[r].token <= issued
  BY DEF SessionTyped, PagesKnown
<1> QED BY <1>1, <1>2, <1>3, <1>4 DEF SessionTypes

LEMMA GiveKnown ==
  ASSUME SessionTypes, SessionTyped, NEW p \in BrowserTabs, NEW token \in Nat, NEW what, NEW whole \in BOOLEAN,
         GiveToken(p, token, what, whole), token <= issued
  PROVE  /\ \A r \in BrowserTabs : pages'[r].token <= issued
         /\ cookies'.access <= issued /\ cookies'.refresh <= issued
<1>1. /\ pages' = [pages EXCEPT ![p] = [shows |-> what, token |-> token]]
      /\ cookies' = [access |-> token, refresh |-> IF whole THEN token ELSE cookies.refresh]
  BY DEF GiveToken
<1>2. \A r \in BrowserTabs : pages[r].token <= issued
  BY DEF SessionTyped, PagesKnown
<1>3. \A r \in BrowserTabs : pages'[r].token <= issued
  BY <1>1, <1>2 DEF SessionTypes
<1>4. cookies.refresh <= issued
  BY DEF SessionTyped, PagesKnown
<1> QED BY <1>1, <1>3, <1>4

\* A request ends, or is replaced by one that asks for nothing.
LEMMA CallEndTyped ==
  ASSUME SessionTypes, SessionTyped, NEW p \in BrowserTabs, NEW th \in Threads, NEW q, CallReplaced(p, th, q),
         q \in {NoRequest, Asks("me")}, UNCHANGED <<keyVars, boundTo, opens, logins, hasty>>, lostCalls' \in 0..MaxLost,
         \A r \in BrowserTabs : pages'[r].token <= issued, cookies'.access <= issued, cookies'.refresh <= issued
  PROVE  SessionTyped'
<1>1. issued' = issued
  BY DEF issued
<1>2. Known(q, issued) /\ ~Owing(q)
  <2>1. issued \in Nat /\ "me" \in CallTypes
    BY KnownTokens DEF CallTypes
  <2> QED BY <2>1, NoRequestKnown, AskedKnown
<1>3. TokensCounted' /\ CallsKnown'
  BY <1>1, <1>2, OneReplaced
<1>4. PagesKnown' /\ RunBounded'
  BY <1>1 DEF SessionTyped, PagesKnown, RunBounded
<1> QED BY <1>3, <1>4, KeysKept DEF SessionTyped

LEMMA EndedTyped ==
  ASSUME SessionTypes, SessionTyped, NEW p \in BrowserTabs, NEW th \in Threads, Refused(p, th) \/ Lost(p, th)
  PROVE  SessionTyped'
<1>1. /\ CallReplaced(p, th, NoRequest) /\ UNCHANGED <<keyVars, boundTo, opens, logins, hasty, cookies>>
      /\ pages' = Show(p, "login") \/ pages' = pages
  BY Resting DEF Refused, Lost, FailedPage, serverVars
<1>2. lostCalls' \in 0..MaxLost
  <2>1. lostCalls \in 0..MaxLost /\ MaxLost \in Nat
    BY SessionAssumption DEF SessionTyped, RunBounded
  <2>2. lostCalls' = lostCalls \/ (lostCalls < MaxLost /\ lostCalls' = lostCalls + 1)
    BY DEF Refused, Lost
  <2> QED BY ONLY <2>1, <2>2
<1>3. \A r \in BrowserTabs : pages'[r].token <= issued
  BY <1>1, ShowKnown DEF SessionTyped, PagesKnown
<1>4. cookies'.access <= issued /\ cookies'.refresh <= issued
  BY <1>1, KnownTokens
<1> QED BY <1>1, <1>2, <1>3, <1>4, CallEndTyped

LEMMA AnsweredTyped ==
  ASSUME SessionTypes, SessionTyped, NEW p \in BrowserTabs, NEW th \in Threads,
         (th = "load" /\ LoadAnswered(p)) \/ (th = "user" /\ UserAnswered(p))
  PROVE  SessionTyped'
<1>1. PICK c \in CallRecords : c = sessionCalls[p, th] /\ Known(c, issued)
  BY OwedCall
<1>2. c.got \in Nat /\ c.got <= issued
  BY <1>1 DEF CallRecords, Known
<1>3. UNCHANGED <<keyVars, boundTo, opens, logins, hasty, lostCalls>>
  BY DEF LoadAnswered, UserAnswered
<1>4. \E q \in {NoRequest, Asks("me")} : CallReplaced(p, th, q)
  <2>1. Asks("me") \in CallRecords
    BY AskingCall DEF CallTypes
  <2>2. sessionCalls' = [sessionCalls EXCEPT ![<<p, th>>] = Asks("me")] \/ Rested(p, th)
    BY DEF LoadAnswered, UserAnswered
  <2> QED BY <2>1, <2>2, CallReplacing, Resting
<1>5. /\ \A r \in BrowserTabs : pages'[r].token <= issued
      /\ cookies'.access <= issued /\ cookies'.refresh <= issued
  <2>1. \/ GiveToken(p, c.got, pages[p].shows, TRUE) \/ GiveToken(p, c.got, "home", TRUE)
        \/ GiveToken(p, c.got, pages[p].shows, FALSE)
        \/ cookies' = cookies /\ (pages' = pages \/ pages' = Show(p, "home"))
        \/ cookies' = [access |-> NoToken, refresh |-> NoToken] /\ pages' = Show(p, "login")
    <3>1. CASE th = "load" /\ LoadAnswered(p)
      BY <1>1, <3>1 DEF LoadAnswered
    <3>2. CASE th = "user" /\ UserAnswered(p)
      <4>1. \/ GiveToken(p, c.got, "home", TRUE) \/ GiveToken(p, c.got, pages[p].shows, FALSE)
            \/ pages' = Show(p, "login") /\ cookies' = [access |-> NoToken, refresh |-> NoToken]
            \/ UNCHANGED <<pages, cookies>>
        BY <1>1, <3>2 DEF UserAnswered
      <4> QED BY ONLY <4>1
    <3> QED BY <3>1, <3>2
  <2>2. ASSUME NEW what, NEW whole \in BOOLEAN, GiveToken(p, c.got, what, whole)
        PROVE  <1>5!:
    BY <1>2, <2>2, GiveKnown
  <2>3. CASE cookies' = cookies /\ (pages' = pages \/ pages' = Show(p, "home"))
    BY <2>3, ShowKnown, KnownTokens DEF SessionTyped, PagesKnown
  <2>4. CASE cookies' = [access |-> NoToken, refresh |-> NoToken] /\ pages' = Show(p, "login")
    <3>1. issued \in Nat
      BY KnownTokens
    <3>2. cookies'.access = 0 /\ cookies'.refresh = 0
      BY <2>4 DEF NoToken
    <3>3. 0 <= issued
      BY ONLY <3>1
    <3> QED BY <2>4, <3>2, <3>3, ShowKnown
  <2>5. TRUE \in BOOLEAN /\ FALSE \in BOOLEAN
    OBVIOUS
  <2> QED BY <2>1, <2>2, <2>3, <2>4, <2>5
<1>6. lostCalls' \in 0..MaxLost
  BY <1>3 DEF SessionTyped, RunBounded
<1> QED BY <1>3, <1>4, <1>5, <1>6, CallEndTyped

LEMMA ActTyped ==
  ASSUME SessionTypes, SessionTyped, NEW p \in BrowserTabs, NEW type \in {"login", "work", "verify", "logout"}, Act(p, type)
  PROVE  SessionTyped'
<1>1. /\ UNCHANGED <<pages, keyVars, cookies, boundTo, logins, opens, lostCalls>> /\ issued' = issued
      /\ type \in CallTypes /\ "user" \in Threads /\ (type \in {"login", "verify"} => MayIssue)
  BY DEF Act, serverVars, issued, CallTypes, Threads
<1>2. CallReplaced(p, "user", Asks(type))
  BY <1>1, AskingCall, CallReplacing DEF Act
<1>3. issued \in Nat /\ issued <= issued'
  <2>1. issued \in Nat
    BY KnownTokens
  <2> QED BY ONLY <1>1, <2>1
<1>4. Known(Asks(type), issued) /\ (~Owing(Asks(type)) \/ MayIssue)
  <2>1. Known(Asks(type), issued) /\ (Owing(Asks(type)) => type \in {"refresh", "login", "verify"})
    BY <1>1, <1>3, AskedKnown
  <2> QED BY <1>1, <2>1
<1>5. TokensCounted' /\ CallsKnown'
  BY <1>1, <1>2, <1>4, OneReplaced
<1>6. PagesKnown' /\ KeysKnown'
  BY <1>1, <1>3, PagesKept, KeysKept
<1>7. RunBounded'
  <2>1. hasty' \in BOOLEAN
    BY DEF Act
  <2> QED BY <1>1, <2>1 DEF SessionTyped, RunBounded
<1> QED BY <1>5, <1>6, <1>7 DEF SessionTyped

LEMMA OpenTyped ==
  ASSUME SessionTypes, SessionTyped, NEW p \in BrowserTabs, OpenPage(p)
  PROVE  SessionTyped'
<1>1. /\ UNCHANGED <<keyStore, keyPairs, cookies, boundTo, lostCalls, logins, hasty>> /\ issued' = issued /\ issued \in Nat
      /\ <<p, "load">> \in Callers /\ <<p, "user">> \in Callers /\ MayIssue
  <2>1. issued \in Nat
    BY KnownTokens
  <2> QED BY <2>1 DEF OpenPage, issued, Callers, Threads
<1>2. /\ sessionCalls' \in [Callers -> CallRecords]
      /\ sessionCalls'[<<p, "load">>] = Asks("refresh") /\ sessionCalls'[<<p, "user">>] = NoRequest
      /\ \A c \in Callers : c \notin {<<p, "load">>, <<p, "user">>} => sessionCalls'[c] = sessionCalls[c]
  <2>1. Asks("refresh") \in CallRecords /\ NoRequest \in CallRecords
    BY AskingCall, NoRequestType DEF CallTypes
  <2>2. sessionCalls' = [sessionCalls EXCEPT ![<<p, "load">>] = Asks("refresh"), ![<<p, "user">>] = NoRequest]
    BY DEF OpenPage
  <2> HIDE DEF OpenPage
  <2> QED BY <1>1, <2>1, <2>2 DEF SessionTypes
<1>3. Known(NoRequest, issued) /\ ~Owing(NoRequest) /\ Known(Asks("refresh"), issued)
  BY <1>1, NoRequestKnown, AskedKnown DEF CallTypes
<1>4. Owed' \subseteq Owed \cup {<<p, "load">>}
  <2> SUFFICES ASSUME NEW c \in Owed', c # <<p, "load">> PROVE c \in Owed
    OBVIOUS
  <2>1. c \in Callers /\ Owing(sessionCalls'[c])
    BY DEF Owed, Owing
  <2>2. sessionCalls'[c] = sessionCalls[c]
    BY <1>2, <1>3, <2>1
  <2> QED BY <2>1, <2>2 DEF Owed
<1>5. TokensCounted'
  BY <1>1, <1>4, OneAsked
<1>6. CallsKnown'
  <2>1. \A c \in Callers : Known(sessionCalls'[c], issued)
    BY <1>2, <1>3 DEF SessionTyped, CallsKnown
  <2> QED BY <1>1, <2>1 DEF CallsKnown, Known
<1>7. PagesKnown'
  <2>1. pages' = [pages EXCEPT ![p] = [shows |-> "loading", token |-> 0]] /\ 0 <= issued
    BY <1>1 DEF OpenPage, NoToken
  <2>2. \A r \in BrowserTabs : pages'[r].token <= issued
    BY <2>1 DEF SessionTypes, SessionTyped, PagesKnown
  <2> QED BY <1>1, <2>2 DEF SessionTyped, PagesKnown
<1>8. KeysKnown'
  <2> DEFINE first == [keygen EXCEPT ![<<p, "load">>] = 0]
  <2>1. keyPairs \in Nat /\ keygen \in [Callers -> Nat] /\ \A c \in Callers : keygen[c] <= keyPairs
    BY DEF SessionTypes, SessionTyped, KeysKnown
  <2>2. 0 <= keyPairs
    BY <2>1
  <2>3. first \in [Callers -> Nat] /\ \A c \in Callers : first[c] <= keyPairs
    BY <1>1, <2>1, <2>2
  <2>4. keygen' = [first EXCEPT ![<<p, "user">>] = 0]
    BY DEF OpenPage
  <2>5. \A c \in Callers : keygen'[c] <= keyPairs
    <3> HIDE DEF first
    <3> QED BY <2>2, <2>3, <2>4
  <2> QED BY <1>1, <2>5 DEF SessionTyped, KeysKnown
<1>9. RunBounded'
  <2>1. opens[p] < MaxOpens /\ opens' = [opens EXCEPT ![p] = opens[p] + 1] /\ opens[p] \in Nat /\ MaxOpens \in Nat
    BY SessionAssumption DEF OpenPage, SessionTypes
  <2>2. \A r \in BrowserTabs : opens'[r] <= MaxOpens
    BY <2>1 DEF SessionTypes, SessionTyped, RunBounded
  <2> QED BY <1>1, <2>2 DEF SessionTyped, RunBounded
<1> QED BY <1>5, <1>6, <1>7, <1>8, <1>9 DEF SessionTyped

LEMMA ServeTyped ==
  ASSUME SessionTypes, SessionTyped, NEW p \in BrowserTabs, NEW th \in Threads,
         ServeRefused(p, th) \/ ServeLogin(p, th) \/ ServeRefresh(p, th) \/ RevokeOld(p, th)
           \/ RevokeFails(p, th) \/ ServeLogout(p, th) \/ ServeAdmitted(p, th)
  PROVE  SessionTyped'
<1>1. NoToken \in Nat /\ sessionCalls[p, th].got \in Nat /\ lostCalls \in 0..MaxLost /\ MaxLost \in Nat
  BY CallType, SessionAssumption DEF CallRecords, NoToken, SessionTyped, RunBounded
<1>2. CASE ServeRefused(p, th)
  BY <1>1, <1>2, ReplyTyped DEF ServeRefused, serverVars
<1>3. CASE ServeLogin(p, th)
  BY <1>3, IssueTyped DEF ServeLogin
<1>4. CASE ServeRefresh(p, th)
  BY <1>4, IssueTyped DEF ServeRefresh
<1>5. CASE RevokeOld(p, th)
  BY <1>1, <1>5, ReplyTyped DEF RevokeOld
<1>6. CASE ServeLogout(p, th)
  BY <1>1, <1>6, ReplyTyped DEF ServeLogout
<1>7. CASE ServeAdmitted(p, th)
  <2>1. CASE sessionCalls[p, th].type = "verify"
    BY <1>7, <2>1, IssueTyped DEF ServeAdmitted
  <2>2. CASE sessionCalls[p, th].type # "verify"
    BY <1>1, <1>7, <2>2, ReplyTyped DEF ServeAdmitted
  <2> QED BY <2>1, <2>2
<1>8. CASE RevokeFails(p, th)
  <2>1. lostCalls' \in 0..MaxLost
    <3>1. MaxLost \in Nat /\ lostCalls \in 0..MaxLost /\ lostCalls < MaxLost /\ lostCalls' = lostCalls + 1
      BY <1>1, <1>8 DEF RevokeFails
    <3> QED BY ONLY <3>1
  <2> QED BY <1>1, <1>8, <2>1, ReplyTyped DEF RevokeFails
<1> QED BY <1>2, <1>3, <1>4, <1>5, <1>6, <1>7, <1>8

LEMMA SessionTypedStep ==
  ASSUME SessionInv, SessionTyped, [SessionNext]_sessionVars
  PROVE  SessionTyped'
<1>0. SessionTypes
  BY DEF SessionInv
<1>1. CASE UNCHANGED sessionVars
  <2>1. issued' = issued /\ Owed' = Owed
    BY <1>1 DEF sessionVars, issued, Owed, Owing
  <2> QED BY <1>1, <2>1 DEF sessionVars, SessionTyped, TokensCounted, CallsKnown, Known, PagesKnown, KeysKnown, RunBounded
<1>2. CASE SessionNext
  <2>1. PICK p \in BrowserTabs :
          OpenPage(p) \/ LogIn(p) \/ Use(p) \/ \E th \in Threads : Proceed(p, th) \/ RevokeFails(p, th) \/ Lost(p, th)
    BY <1>2 DEF SessionNext
  <2>2. CASE OpenPage(p)
    BY <1>0, <2>2, OpenTyped
  <2>3. CASE LogIn(p) \/ Use(p)
    <3>1. PICK type \in {"login", "work", "verify", "logout"} : Act(p, type)
      BY <2>3 DEF LogIn, Use
    <3> QED BY <1>0, <3>1, ActTyped
  <2>4. ASSUME NEW th \in Threads, Proceed(p, th) \/ RevokeFails(p, th) \/ Lost(p, th)
        PROVE  SessionTyped'
    BY <1>0, <2>4, KeysTyped, ProveTyped, ServeTyped, EndedTyped, AnsweredTyped DEF Proceed
  <2> QED BY <2>1, <2>2, <2>3, <2>4
<1> QED BY <1>1, <1>2
=============================================================================
