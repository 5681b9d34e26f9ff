---------------------------- MODULE EntityStore ----------------------------
(* The client's stores of houses, rooms and tenants (useHouseStore,           *)
(* useRoomStore, useTenantStore).  A creation is listed at once under a       *)
(* temporary id, an update and a deletion at once as well; the answer of the  *)
(* server confirms them, an error takes them back.  Houses are one list,      *)
(* rooms one list for whichever house is shown, tenants a list per house.     *)
EXTENDS OrderedLists

CONSTANTS
  StoreHouses,      \* houses whose rooms or tenants are shown
  First,      \* the rows of the server at first: their house
  Values,     \* what a row says
  MaxNew,     \* bound on the rows created
  MaxUnder,   \* bound on the requests under way
  MaxHasty,   \* bound on the requests of a user who does not wait
  StoreKinds       \* which stores

Slots == 1..MaxUnder
Ids == 1..(Len(First) + MaxNew)
Absent == 0

ASSUME StoreAssumption ==
  /\ First \in Seq(StoreHouses) /\ Values \subseteq Nat \ {Absent} /\ Values # {}
  /\ MaxNew \in Nat /\ MaxUnder \in Nat /\ MaxHasty \in Nat
  /\ StoreKinds \subseteq {"house", "room", "tenant"}

VARIABLES
  kind,       \* the store of this behaviour
  orderly,    \* the user awaits every answer
  table,      \* the rows on the server; a house belongs to no house in particular
  homeOf,     \* house_id, which never changes
  lists,      \* what the client holds: the entries of a list, in no particular order
  shown,      \* selectedHouse
  creations,  \* creations so far: the k-th has the temporary id -k
  storeCalls, \* the requests under way
  begun,      \* of a user who does not wait: the requests so far
  missedRows  \* history: an answer was lost that no fetch has made up for

storeVars == <<kind, orderly, table, homeOf, lists, shown, creations, storeCalls, begun, missedRows>>

Entry(i, v) == [id |-> i, value |-> v]
Entries == [id : Ids \cup {-i : i \in 1..MaxNew}, value : Values]
NoStoreCall == [op |-> "none", id |-> 0, home |-> CHOOSE h \in StoreHouses : TRUE, value |-> Absent, before |-> <<>>,
           listed |-> TRUE, stage |-> "sent", reply |-> <<>>]

StoreTypeOK ==
  /\ kind \in StoreKinds /\ orderly \in BOOLEAN
  /\ table \in [Ids -> Values \cup {Absent}] /\ homeOf \in [Ids -> StoreHouses]
  /\ lists \in [StoreHouses -> Seq(Entries)] /\ shown \in StoreHouses
  /\ creations \in 0..MaxNew
  /\ \A s \in Slots :
       /\ storeCalls[s].op \in {"none", "fetch", "create", "update", "delete"}
       /\ storeCalls[s].home \in StoreHouses /\ storeCalls[s].stage \in {"sent", "served"}
       /\ storeCalls[s].before \in Seq(Entries) /\ storeCalls[s].reply \in Seq(Entries)
  /\ begun \in 0..MaxHasty /\ missedRows \in BOOLEAN

UnderWay == {s \in Slots : storeCalls[s].op # "none"}
OneList == kind \in {"house", "room"}

\* The list a set() on this house's entries is about, and how it changes all
\* copies of a list that is shared.
Put(h, list) == [g \in StoreHouses |-> IF OneList \/ g = h THEN list ELSE lists[g]]

\* findIndex, find: the first entry of that id.
At(list, i) == {n \in DOMAIN list : list[n].id = i}
Found(list, i) == LET n == CHOOSE n \in At(list, i) : \A m \in At(list, i) : n <= m
                  IN  IF At(list, i) = {} THEN <<>> ELSE <<list[n]>>
WithoutId(list, i) == Filtered(list, {n \in DOMAIN list : list[n].id # i})
Replaced(list, i, entry) == [n \in DOMAIN list |-> IF list[n].id = i THEN entry ELSE list[n]]

\* The rows the server returns for a house, in the order of their ids.
OfHome(h) == {i \in Ids : table[i] # Absent /\ (kind = "house" \/ homeOf[i] = h)}
Listed(h) == LET ids == InOrder(OfHome(h)) IN [n \in DOMAIN ids |-> Entry(ids[n], table[ids[n]])]

\* The view has been loaded.
StoreInit ==
  /\ kind \in StoreKinds /\ orderly \in BOOLEAN
  /\ table = [i \in Ids |-> IF i <= Len(First) THEN CHOOSE v \in Values : TRUE ELSE Absent]
  /\ homeOf = [i \in Ids |-> IF i <= Len(First) THEN First[i] ELSE CHOOSE h \in StoreHouses : TRUE]
  /\ shown \in StoreHouses
  /\ lists = [h \in StoreHouses |-> Listed(IF kind = "room" THEN shown ELSE h)]
  /\ creations = 0 /\ storeCalls = [s \in Slots |-> NoStoreCall] /\ begun = 0 /\ missedRows = FALSE

Free == CHOOSE s \in Slots \ UnderWay : \A r \in Slots \ UnderWay : s <= r
MayCall == UnderWay # Slots /\ (orderly => UnderWay = {}) /\ begun < MaxHasty
Call(op, i, h, v, before) ==
  [NoStoreCall EXCEPT !.op = op, !.id = i, !.home = h, !.value = v, !.before = before]
Begin(call) == /\ storeCalls' = [storeCalls EXCEPT ![Free] = call]
               /\ begun' = IF orderly THEN begun ELSE begun + 1
Follow(s, h) == storeCalls' = [storeCalls EXCEPT ![s] = Call("fetch", 0, h, Absent, <<>>)] /\ UNCHANGED begun
End(s) == storeCalls' = [storeCalls EXCEPT ![s] = NoStoreCall] /\ UNCHANGED begun

\* The effects of HouseRoomsView and HouseTenantTable; selecting a house shows
\* its rooms, but the list of rooms stays until the fetch has its answer.
FetchList(h) ==
  /\ MayCall
  /\ Begin(Call("fetch", 0, h, Absent, <<>>))
  /\ shown' = h
  /\ UNCHANGED <<kind, orderly, table, homeOf, lists, creations, missedRows>>

\* createHouse, createRoom, createTenant: a tenant whose room is not among the
\* rooms the store holds is not listed before the page has fetched again.
CreateEntity(v, listed) ==
  /\ MayCall /\ creations < MaxNew /\ (kind # "tenant" => listed)
  /\ creations' = creations + 1
  /\ lists' = IF listed THEN Put(shown, Append(lists[shown], Entry(-creations', v))) ELSE lists
  /\ Begin([Call("create", -creations', shown, v, <<>>) EXCEPT !.listed = listed])
  /\ UNCHANGED <<kind, orderly, table, homeOf, shown, missedRows>>

\* updateHouse, updateRoom, updateTenant of an entry on screen
UpdateEntity(i, v) ==
  /\ MayCall /\ At(lists[shown], i) # {}
  /\ lists' = Put(shown, Replaced(lists[shown], i, Entry(i, v)))
  /\ Begin(Call("update", i, shown, v, Found(lists[shown], i)))
  /\ UNCHANGED <<kind, orderly, table, homeOf, shown, creations, missedRows>>

\* deleteHouse, deleteRoom, deleteTenant
DeleteEntity(i) ==
  /\ MayCall /\ At(lists[shown], i) # {}
  /\ lists' = Put(shown, WithoutId(lists[shown], i))
  /\ Begin(Call("delete", i, shown, Absent, Found(lists[shown], i)))
  /\ UNCHANGED <<kind, orderly, table, homeOf, shown, creations, missedRows>>

-----------------------------------------------------------------------------
ServeStore(s) ==
  LET c == storeCalls[s] IN
  /\ c.op # "none" /\ c.stage = "sent"
  /\ CASE c.op = "fetch" -> UNCHANGED <<table, homeOf>>
       [] c.op = "create" -> LET i == Len(First) - c.id IN
            table' = [table EXCEPT ![i] = c.value] /\ homeOf' = [homeOf EXCEPT ![i] = c.home]
       [] OTHER ->
            /\ c.id \in Ids /\ table[c.id] # Absent
            /\ table' = [table EXCEPT ![c.id] = c.value] /\ UNCHANGED homeOf
  /\ storeCalls' = [storeCalls EXCEPT ![s].stage = "served",
                            ![s].reply = IF c.op = "fetch" THEN Listed(c.home) ELSE <<>>]
  /\ UNCHANGED begun
  /\ UNCHANGED <<kind, orderly, lists, shown, creations, missedRows>>

Answered(op, s) == storeCalls[s].op = op /\ storeCalls[s].stage = "served"

ListFetched(s) ==
  /\ Answered("fetch", s)
  /\ lists' = Put(storeCalls[s].home, storeCalls[s].reply)
  /\ missedRows' = FALSE /\ End(s)
  /\ UNCHANGED <<kind, orderly, table, homeOf, shown, creations>>

\* The temporary entry becomes the row.
CreateAnswered(s) ==
  LET c == storeCalls[s] IN
  /\ Answered("create", s)
  /\ IF c.listed THEN End(s) ELSE Follow(s, c.home)
  /\ lists' = Put(c.home, Replaced(lists[c.home], c.id, Entry(Len(First) - c.id, c.value)))
  /\ UNCHANGED <<kind, orderly, table, homeOf, shown, creations, missedRows>>

\* The answer carries the row as it was written.
UpdateAnswered(s) ==
  LET c == storeCalls[s] IN
  /\ Answered("update", s) /\ End(s)
  /\ lists' = Put(c.home, Replaced(lists[c.home], c.id, Entry(c.id, c.value)))
  /\ UNCHANGED <<kind, orderly, table, homeOf, shown, creations, missedRows>>

\* A deleted house is followed by fetchHouses, rooms and tenants by nothing.
DeleteAnswered(s) ==
  /\ Answered("delete", s)
  /\ IF kind = "house" THEN Follow(s, shown) ELSE End(s)
  /\ UNCHANGED <<kind, orderly, table, homeOf, lists, shown, creations, missedRows>>

\* The catch of an action: a refusal, or an answer lost after the server wrote.
Fails(op, s) ==
  /\ storeCalls[s].op = op /\ End(s)
  /\ missedRows' = (missedRows \/ op = "fetch" \/ storeCalls[s].stage = "served")
  /\ UNCHANGED <<kind, orderly, table, homeOf, shown, creations>>

ListNotFetched(s) == Fails("fetch", s) /\ UNCHANGED lists

CreateFails(s) ==
  /\ Fails("create", s)
  /\ lists' = Put(storeCalls[s].home, WithoutId(lists[storeCalls[s].home], storeCalls[s].id))

\* an update whose error leaves the new value on screen
UpdateFailsShown(s) == Fails("update", s) /\ UNCHANGED lists

UpdateFails(s) ==
  LET c == storeCalls[s] IN
  /\ Fails("update", s)
  /\ lists' = Put(c.home, Replaced(lists[c.home], c.id, c.before[1]))

DeleteFails(s) ==
  /\ Fails("delete", s)
  /\ lists' = Put(storeCalls[s].home, lists[storeCalls[s].home] \o storeCalls[s].before)

Entered == Ids \cup {-i : i \in 1..MaxNew}
StoreFetching == (\E h \in StoreHouses : FetchList(h)) \/ \E s \in Slots : ListFetched(s) \/ ListNotFetched(s)
Creating == (\E v \in Values, listed \in BOOLEAN : CreateEntity(v, listed))
            \/ \E s \in Slots : CreateAnswered(s) \/ CreateFails(s)
Updating == (\E v \in Values, i \in Entered : UpdateEntity(i, v))
            \/ \E s \in Slots : UpdateAnswered(s) \/ UpdateFails(s)
Deleting == (\E i \in Entered : DeleteEntity(i)) \/ \E s \in Slots : DeleteAnswered(s) \/ DeleteFails(s)

\* The stores' functions, each with what it does before its request and after.
FetchHouses == kind = "house" /\ StoreFetching
CreateHouse == kind = "house" /\ Creating
UpdateHouse == kind = "house" /\ Updating
DeleteHouse == kind = "house" /\ Deleting
FetchRooms == kind = "room" /\ StoreFetching
CreateRoom == kind = "room" /\ Creating
UpdateRoom == kind = "room" /\ Updating
DeleteRoom == kind = "room" /\ Deleting
FetchTenants == kind = "tenant" /\ StoreFetching
CreateTenant == kind = "tenant" /\ Creating
UpdateTenant == kind = "tenant" /\ Updating
DeleteTenant == kind = "tenant" /\ Deleting

StoreNext ==
  \/ FetchHouses \/ CreateHouse \/ UpdateHouse \/ DeleteHouse
  \/ FetchRooms \/ CreateRoom \/ UpdateRoom \/ DeleteRoom
  \/ FetchTenants \/ CreateTenant \/ UpdateTenant \/ DeleteTenant
  \/ \E s \in Slots : ServeStore(s)

-----------------------------------------------------------------------------
(* A user who awaits every answer sees what the server has: with no request   *)
(* under way and no answer lost, the list on screen is the server's, whatever *)
(* was created, changed, deleted, refused or rolled back before.              *)
StoreMatchesServer ==
  orderly /\ UnderWay = {} /\ ~missedRows =>
    /\ {lists[shown][n] : n \in DOMAIN lists[shown]} = {Entry(i, table[i]) : i \in OfHome(shown)}
    /\ Len(lists[shown]) = Cardinality(OfHome(shown))

(* However requests overlap, fail or lose their answers, a house or a tenant  *)
(* that was listed is listed again once all have ended, if the server has it. *)
NothingVanishes ==
  kind # "room" /\ UnderWay = {} =>
    \A i \in 1..Len(First) : table[i] # Absent => At(lists[homeOf[i]], i) # {}

(* The stores show what the server has, and lose nothing that it has.         *)
StoreHolds == StoreMatchesServer /\ NothingVanishes
=============================================================================
