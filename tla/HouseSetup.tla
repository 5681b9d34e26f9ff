----------------------------- MODULE HouseSetup -----------------------------
(* A new house with its rooms (CreateHouseModal): the house is created, then  *)
(* all its rooms in parallel; the form closes when each has been answered.    *)
(* The form can be sent again after an error, and closed and opened again     *)
(* while what it sent goes on.                                                *)
EXTENDS Integers, FiniteSets

CONSTANTS Planned, MaxTries    \* the rooms of the form; bound on submissions

ASSUME SetupAssumption == MaxTries \in Nat /\ IsFiniteSet(Planned)

VARIABLES
  setupOpen,  \* the form is on screen
  awaited,    \* the submission that form waits for; 0 when none
  made,       \* on the server: how many houses of this code, and rooms of each name
  houseEntry, \* what the store lists under the code: a submission's placeholder, HouseRow, or 0
  houseCall,  \* of each submission, the creation of the house, and where the handler is
  roomCall,   \* of each submission, the creation of each room
  tries

setupVars == <<setupOpen, awaited, made, houseEntry, houseCall, roomCall, tries>>

Submissions == 1..MaxTries
HouseRow == MaxTries + 1
Stages == {"none", "sent", "served", "rooms", "ended"}
RoomStages == {"none", "sent", "served", "created", "failed"}

SetupTypeOK ==
  /\ setupOpen \in BOOLEAN /\ awaited \in 0..MaxTries /\ houseEntry \in 0..HouseRow
  /\ made \in [houses : 0..MaxTries, rooms : [Planned -> 0..MaxTries]]
  /\ houseCall \in [Submissions -> Stages] /\ roomCall \in [Submissions -> [Planned -> RoomStages]]
  /\ tries \in 0..MaxTries

SetupInit ==
  /\ setupOpen = TRUE /\ awaited = 0 /\ houseEntry = 0
  /\ made = [houses |-> 0, rooms |-> [r \in Planned |-> 0]]
  /\ houseCall = [s \in Submissions |-> "none"]
  /\ roomCall = [s \in Submissions |-> [r \in Planned |-> "none"]] /\ tries = 0

\* isHouseCodeTaken(houses) turns the form away; otherwise the store lists a
\* placeholder and the house is sent.
SubmitSetup ==
  /\ setupOpen /\ awaited = 0 /\ houseEntry = 0 /\ tries < MaxTries
  /\ tries' = tries + 1 /\ awaited' = tries + 1 /\ houseEntry' = tries + 1
  /\ houseCall' = [houseCall EXCEPT ![tries + 1] = "sent"]
  /\ UNCHANGED <<setupOpen, made, roomCall>>

\* a server that does not look whether the code exists
HouseServedUnchecked(s) ==
  /\ houseCall[s] = "sent" /\ houseCall' = [houseCall EXCEPT ![s] = "served"]
  /\ made' = [made EXCEPT !.houses = @ + 1]
  /\ UNCHANGED <<setupOpen, awaited, houseEntry, roomCall, tries>>

\* ensureHouseCodeUnique, and the unique index on the code.
HouseServed(s) ==
  /\ houseCall[s] = "sent" /\ made.houses = 0 /\ houseCall' = [houseCall EXCEPT ![s] = "served"]
  /\ made' = [made EXCEPT !.houses = @ + 1]
  /\ UNCHANGED <<setupOpen, awaited, houseEntry, roomCall, tries>>

\* onClose closes the form that is open, be it a later one.
FormCloses == setupOpen' = FALSE /\ awaited' = 0

HouseCreated(s) ==
  /\ houseCall[s] = "served"
  /\ houseEntry' = IF houseEntry = s THEN HouseRow ELSE houseEntry
  /\ IF Planned = {} THEN houseCall' = [houseCall EXCEPT ![s] = "ended"] /\ FormCloses /\ UNCHANGED roomCall
     ELSE /\ houseCall' = [houseCall EXCEPT ![s] = "rooms"]
          /\ roomCall' = [roomCall EXCEPT ![s] = [r \in Planned |-> "sent"]] /\ UNCHANGED <<setupOpen, awaited>>
  /\ UNCHANGED <<made, tries>>

\* Refused, or the answer is lost: the placeholder goes, and the form says so and
\* can be sent again, if it is the one that sent this.
HouseFails(s) ==
  /\ houseCall[s] \in {"sent", "served"} /\ houseCall' = [houseCall EXCEPT ![s] = "ended"]
  /\ houseEntry' = IF houseEntry = s THEN 0 ELSE houseEntry
  /\ awaited' = IF awaited = s THEN 0 ELSE awaited
  /\ UNCHANGED <<setupOpen, made, roomCall, tries>>

\* fetchHouses replaces the list, placeholders included, by one read at some time.
HousesRefetched ==
  /\ houseEntry' \in {0} \cup (IF made.houses > 0 THEN {HouseRow} ELSE {})
  /\ UNCHANGED <<setupOpen, awaited, made, houseCall, roomCall, tries>>

RoomGoes(s, r, stage) == roomCall' = [roomCall EXCEPT ![s] = [roomCall[s] EXCEPT ![r] = stage]]

RoomServed(s, r) ==
  /\ roomCall[s][r] = "sent" /\ RoomGoes(s, r, "served") /\ made' = [made EXCEPT !.rooms[r] = @ + 1]
  /\ UNCHANGED <<setupOpen, awaited, houseEntry, houseCall, tries>>

RoomCreated(s, r) ==
  /\ roomCall[s][r] = "served" /\ RoomGoes(s, r, "created")
  /\ UNCHANGED <<setupOpen, awaited, made, houseEntry, houseCall, tries>>

\* createRoom answers with success = FALSE, which nobody looks at.
RoomFails(s, r) ==
  /\ roomCall[s][r] \in {"sent", "served"} /\ RoomGoes(s, r, "failed")
  /\ UNCHANGED <<setupOpen, awaited, made, houseEntry, houseCall, tries>>

SetupEnds(s) ==
  /\ houseCall[s] = "rooms" /\ \A r \in Planned : roomCall[s][r] \in {"created", "failed"}
  /\ houseCall' = [houseCall EXCEPT ![s] = "ended"] /\ FormCloses
  /\ UNCHANGED <<made, houseEntry, roomCall, tries>>

\* "Cancel": the handler goes on.  Opened again, the form is a new one.
CloseSetup == setupOpen /\ FormCloses /\ UNCHANGED <<made, houseEntry, houseCall, roomCall, tries>>

ReopenSetup ==
  /\ ~setupOpen /\ setupOpen' = TRUE
  /\ UNCHANGED <<awaited, made, houseEntry, houseCall, roomCall, tries>>

RoomAnswered(s, r) == RoomCreated(s, r) \/ RoomFails(s, r)
SetupAnswered(s) ==
  HouseCreated(s) \/ HouseFails(s) \/ SetupEnds(s) \/ \E r \in Planned : RoomAnswered(s, r)

SetupNext ==
  \/ SubmitSetup \/ CloseSetup \/ ReopenSetup \/ HousesRefetched
  \/ \E s \in Submissions : HouseServed(s) \/ SetupAnswered(s) \/ \E r \in Planned : RoomServed(s, r)

\* A request ends, and the handler that awaits it goes on.
SetupFairness == WF_setupVars(\E s \in Submissions : SetupAnswered(s))

-----------------------------------------------------------------------------
(* However often the form is sent, closed and opened again, also while what   *)
(* it sent goes on, and whichever answers are lost, the house is created once *)
(* and so is each of its rooms.                                               *)
CreatedOnce == made.houses <= 1 /\ \A r \in Planned : made.rooms[r] <= 1
=============================================================================
