----------------------------- MODULE RoomSheet -----------------------------
(* The sheet that sets prices and capacities of many rooms at once            *)
(* (QuickSetRoomPriceModal): every change of the store's rooms refills it,    *)
(* "save all" updates the changed rooms in parallel, each shown at once and   *)
(* taken back alone when its update fails.  A room is copied or deleted from  *)
(* its row at once, without "save all".                                       *)
EXTENDS Integers, FiniteSets

CONSTANTS
  SheetRooms,    \* the rooms, those that could be added among them
  Prices,
  NotThere,      \* in place of the price of a room that does not exist
  MaxSheetCalls

ASSUME SheetAssumption == IsFiniteSet(SheetRooms) /\ Prices # {} /\ NotThere \notin Prices /\ MaxSheetCalls \in Nat

VARIABLES
  roomRows,     \* the rooms on the server
  roomList,     \* rooms, of the store
  typedRows,    \* roomData
  sheetDirty,   \* isDirty
  batch,        \* the rooms of the save under way: how far, and what goes
  sheet,        \* "open", "asking" whether to drop the changes, "closed"
  savingRooms,  \* isLoading
  asked,        \* history: what the last save was to store
  closedItself, \* history: the sheet closed because all was stored
  lostRow,      \* history: an answer was lost after the server wrote
  sent          \* updates so far

sheetVars == <<roomRows, roomList, typedRows, sheetDirty, batch, sheet, savingRooms, asked, closedItself, lostRow, sent>>

RoomPrices == [SheetRooms -> Prices \cup {NotThere}]
IdleRow == [stage |-> "idle", kind |-> "save", price |-> CHOOSE p \in Prices : TRUE, before |-> CHOOSE p \in Prices : TRUE,
         all |-> [r \in SheetRooms |-> CHOOSE p \in Prices : TRUE]]

SheetTypeOK ==
  /\ roomRows \in RoomPrices /\ roomList \in RoomPrices /\ typedRows \in RoomPrices /\ asked \in RoomPrices
  /\ \A r \in SheetRooms : batch[r].stage \in {"idle", "sent", "served", "saved", "failed"}
  /\ sheet \in {"open", "asking", "closed"}
  /\ {sheetDirty, savingRooms, closedItself, lostRow} \subseteq BOOLEAN
  /\ sent \in 0..MaxSheetCalls

SheetInit ==
  /\ roomRows \in RoomPrices /\ roomList = roomRows /\ typedRows = roomRows /\ asked = roomRows
  /\ batch = [r \in SheetRooms |-> IdleRow] /\ sheet = "open"
  /\ sheetDirty = FALSE /\ savingRooms = FALSE /\ closedItself = FALSE /\ lostRow = FALSE /\ sent = 0

\* The rooms were set: the effect fills the sheet with them.
Refill(rooms) == roomList' = rooms /\ typedRows' = rooms

TypeRow(r, p) ==
  /\ sheet = "open" /\ roomList[r] # NotThere /\ typedRows' = [typedRows EXCEPT ![r] = p] /\ sheetDirty' = TRUE
  /\ UNCHANGED <<roomRows, roomList, batch, sheet, savingRooms, asked, closedItself, lostRow, sent>>

Closing(itself) ==
  /\ sheet' = "closed" /\ closedItself' = itself /\ savingRooms' = FALSE

SaveRows ==
  LET changed == {r \in SheetRooms : typedRows[r] # roomList[r]} IN
  /\ sheet = "open" /\ ~savingRooms /\ sent + Cardinality(changed) <= MaxSheetCalls
  /\ sent' = sent + Cardinality(changed) /\ asked' = typedRows
  /\ batch' = [r \in SheetRooms |->
       IF r \in changed THEN [IdleRow EXCEPT !.stage = "sent", !.price = typedRows[r], !.before = roomList[r],
                                          !.all = roomList]
       ELSE [IdleRow EXCEPT !.stage = "saved"]]
  /\ roomList' = typedRows /\ savingRooms' = TRUE
  /\ UNCHANGED <<roomRows, typedRows, sheetDirty, sheet, closedItself, lostRow>>

\* handleDuplicateRoom, handleDeleteRoom: one room at once, in a batch of its own.
BeginOne(kind, r, p) ==
  /\ sheet = "open" /\ ~savingRooms /\ sent < MaxSheetCalls /\ sent' = sent + 1
  /\ batch' = [b \in SheetRooms |->
       IF b = r THEN [IdleRow EXCEPT !.stage = "sent", !.kind = kind, !.price = p, !.before = roomList[r],
                                     !.all = roomList]
       ELSE IdleRow]
  /\ Refill([roomList EXCEPT ![r] = p]) /\ asked' = roomList' /\ savingRooms' = TRUE
  /\ UNCHANGED <<roomRows, sheetDirty, sheet, closedItself, lostRow>>

DuplicateRoom(original, r) ==
  /\ roomList[original] # NotThere /\ roomList[r] = NotThere /\ roomRows[r] = NotThere
  /\ BeginOne("add", r, roomList[original])

DeleteRoom(r) == roomList[r] # NotThere /\ BeginOne("drop", r, NotThere)

ServeRow(r) ==
  /\ batch[r].stage = "sent"
  /\ batch' = [batch EXCEPT ![r].stage = "served"]
  /\ roomRows' = [roomRows EXCEPT ![r] = batch[r].price]
  /\ UNCHANGED <<roomList, typedRows, sheetDirty, sheet, savingRooms, asked, closedItself, lostRow, sent>>

RowUpdated(r) ==
  /\ batch[r].stage = "served"
  /\ batch' = [batch EXCEPT ![r].stage = "saved"]
  /\ roomList' = [roomList EXCEPT ![r] = batch[r].price]
  /\ typedRows' = IF batch[r].kind = "drop" THEN typedRows ELSE roomList'
  /\ UNCHANGED <<roomRows, sheetDirty, sheet, savingRooms, asked, closedItself, lostRow, sent>>

\* a rollback to the whole list as it was
RowRefusedWhole(r) ==
  /\ batch[r].stage \in {"sent", "served"}
  /\ batch' = [batch EXCEPT ![r].stage = "failed"]
  /\ Refill(batch[r].all)
  /\ lostRow' = (lostRow \/ batch[r].stage = "served")
  /\ UNCHANGED <<roomRows, sheetDirty, sheet, savingRooms, asked, closedItself, sent>>

RowRefused(r) ==
  /\ batch[r].stage \in {"sent", "served"}
  /\ batch' = [batch EXCEPT ![r].stage = "failed"]
  /\ Refill([roomList EXCEPT ![r] = batch[r].before])
  /\ lostRow' = (lostRow \/ batch[r].stage = "served")
  /\ UNCHANGED <<roomRows, sheetDirty, sheet, savingRooms, asked, closedItself, sent>>

Settled == savingRooms /\ \A r \in SheetRooms : batch[r].stage \in {"saved", "failed"}

SaveEnds ==
  /\ Settled /\ batch' = [r \in SheetRooms |-> IdleRow]
  /\ IF \E r \in SheetRooms : batch[r].stage = "failed" \/ batch[r].kind # "save"
     THEN savingRooms' = FALSE /\ UNCHANGED <<sheet, closedItself>>
     ELSE Closing(sheet # "closed")
  /\ UNCHANGED <<roomRows, roomList, typedRows, sheetDirty, asked, lostRow, sent>>

\* useDirtyConfirm: the save goes on behind a closed sheet.
LeaveSheet ==
  /\ sheet = "open" /\ sheet' = IF sheetDirty THEN "asking" ELSE "closed"
  /\ UNCHANGED <<roomRows, roomList, typedRows, sheetDirty, batch, savingRooms, asked, closedItself, lostRow, sent>>

AnswerLeave(stay) ==
  /\ sheet = "asking" /\ sheet' = IF stay THEN "open" ELSE "closed"
  /\ UNCHANGED <<roomRows, roomList, typedRows, sheetDirty, batch, savingRooms, asked, closedItself, lostRow, sent>>

SheetNext ==
  \/ \E r \in SheetRooms : ServeRow(r) \/ RowUpdated(r) \/ RowRefused(r) \/ \E p \in Prices : TypeRow(r, p)
  \/ \E r \in SheetRooms : DeleteRoom(r) \/ \E original \in SheetRooms : DuplicateRoom(original, r)
  \/ SaveRows \/ SaveEnds \/ LeaveSheet \/ \E stay \in BOOLEAN : AnswerLeave(stay)

-----------------------------------------------------------------------------
(* The sheet closes by itself only when the server has every row as it was    *)
(* typed when "save all" was pressed, whatever failed before and whatever was *)
(* typed meanwhile.                                                           *)
ClosesWhenStored == closedItself /\ ~lostRow => roomRows = asked

(* With no update under way and no answer lost, the store's rooms are the     *)
(* server's: a refused row is taken back without touching a row that was      *)
(* stored meanwhile.                                                          *)
RoomsMatchServer ==
  ~lostRow /\ (\A r \in SheetRooms : batch[r].stage \notin {"sent", "served"}) => roomList = roomRows

(* The sheet closes on what is stored and shows what is stored.               *)
SheetHolds == ClosesWhenStored /\ RoomsMatchServer
=============================================================================
