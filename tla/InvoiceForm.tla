---------------------------- MODULE InvoiceForm ----------------------------
(* CreateInvoiceModal: one invoice for one room.  The form fills itself in: a *)
(* house is suggested, the chosen house's rooms are fetched into the shared   *)
(* store, a room of them is suggested, and the chosen room's last readings    *)
(* and number of tenants are fetched.  Suggestions are dropped when their     *)
(* inputs change; the room list and the readings are not.                     *)
EXTENDS Integers, Sequences, FiniteSets

CONSTANTS
  Dwellings,   \* rooms
  Owners,      \* houses
  OwnerOf,     \* the house of each room
  Preferred,   \* the room of each house that comes first among those to invoice
  Unset,
  MaxFetches,  \* bound on the fetches the user causes, by mode
  Modes        \* how the user and the network behave

ASSUME FormAssumption ==
  /\ \A d \in Dwellings : OwnerOf[d] \in Owners
  /\ \A d \in Dwellings : LET p == Preferred[OwnerOf[d]] IN p \in Dwellings /\ OwnerOf[p] = OwnerOf[d]
  /\ Unset \notin Dwellings \cup Owners /\ MaxFetches \in [Modes -> Nat] /\ Modes \subseteq {"orderly", "patient", "hasty"}

VARIABLES
  mode,       \* "hasty": anything may happen; "patient": the user awaits what the
              \* form fetches, and all of it succeeds; "orderly": in order, too
  form,       \* house_id, room_id, and the rooms whose readings and tenants it shows
  offered,    \* the shared store's rooms, by their house
  homeAsked,  \* useRecommendedHouse is searching
  advice,     \* useRecommendedRoom: its search, by inputs, and its result
  fetches,    \* the room lists and last readings being fetched
  created     \* the payloads sent

formVars == <<mode, form, offered, homeAsked, advice, fetches, created>>

FormTypeOK ==
  /\ mode \in Modes
  /\ form \in [house : Owners \cup {Unset}, room : Dwellings \cup {Unset},
               readings : Dwellings \cup {Unset}, tenants : Dwellings \cup {Unset},
               sending : BOOLEAN, open : BOOLEAN]
  /\ offered \in Owners \cup {Unset} /\ homeAsked \in BOOLEAN
  /\ advice \in [asked : BOOLEAN, of : Owners \cup {Unset}, room : Dwellings \cup {Unset}]
  /\ fetches \in Seq([what : {"rooms", "readings", "tenants", "done"}, for : Owners \cup Dwellings])
  /\ created \in SUBSET [house : Owners, room : Dwellings, readings : Dwellings \cup {Unset},
                         tenants : Dwellings \cup {Unset}]

FormInit ==
  /\ mode \in Modes
  /\ form = [house |-> Unset, room |-> Unset, readings |-> Unset, tenants |-> Unset,
             sending |-> FALSE, open |-> TRUE]
  /\ offered \in Owners \cup {Unset}
  /\ homeAsked = TRUE /\ advice = [asked |-> FALSE, of |-> Unset, room |-> Unset]
  /\ fetches = <<>> /\ created = {}

Fetching == {n \in DOMAIN fetches : fetches[n].what # "done"}
Quiescent == Fetching = {} /\ ~homeAsked /\ ~advice.asked
AtFields == form.open /\ (mode # "hasty" => Quiescent /\ ~form.sending)

\* findRoom's effect runs anew when the house or the room list changes; the
\* earlier search is cancelled.
Search(h, rooms) ==
  IF h = Unset \/ ~\E d \in Dwellings : OwnerOf[d] = rooms
  THEN [asked |-> FALSE, of |-> Unset, room |-> Unset]
  ELSE [asked |-> TRUE, of |-> rooms, room |-> advice.room]

\* A room put into the form: its readings are fetched, or cleared.
WithRoom(f, d) == IF d = Unset THEN [f EXCEPT !.room = d, !.readings = Unset] ELSE [f EXCEPT !.room = d]
ReadingsOf(f, d) == IF d = Unset \/ d = f.room THEN <<>> ELSE <<[what |-> "readings", for |-> d]>>

\* The suggestion is copied to the form when it changes.
Advised(f, a) == IF a.room = advice.room THEN f ELSE WithRoom(f, a.room)
AdvisedFetch(f, a) == IF a.room = advice.room THEN <<>> ELSE ReadingsOf(f, a.room)

PutHouse(h) ==
  LET a == Search(h, offered) IN
  /\ Len(fetches) < MaxFetches[mode]
  /\ advice' = a /\ form' = Advised([form EXCEPT !.house = h], a)
  /\ fetches' = fetches \o AdvisedFetch(form, a) \o IF h = Unset THEN <<>> ELSE <<[what |-> "rooms", for |-> h]>>

ChooseOwner(h) ==
  /\ AtFields /\ ~homeAsked /\ h # form.house /\ PutHouse(h)
  /\ UNCHANGED <<mode, offered, homeAsked, created>>

\* recommendedHouseId, while no house has been chosen
OwnerAdvised(h) ==
  /\ homeAsked /\ form.open /\ homeAsked' = FALSE
  /\ IF form.house = Unset THEN PutHouse(h) ELSE UNCHANGED <<form, advice, fetches>>
  /\ UNCHANGED <<mode, offered, created>>

ChooseRoom(d) ==
  /\ AtFields /\ form.house # Unset /\ ~advice.asked /\ d # form.room
  /\ d # Unset => OwnerOf[d] = offered
  /\ Len(fetches) < MaxFetches[mode]
  /\ form' = WithRoom(form, d) /\ fetches' = fetches \o ReadingsOf(form, d)
  /\ UNCHANGED <<mode, offered, homeAsked, advice, created>>

\* The first room without an invoice of the period, or the first room.
RoomAdvised ==
  LET a == [advice EXCEPT !.asked = FALSE, !.room = Preferred[advice.of]] IN
  /\ advice.asked
  /\ advice' = a /\ form' = Advised(form, a) /\ fetches' = fetches \o AdvisedFetch(form, a)
  /\ UNCHANGED <<mode, offered, homeAsked, created>>

AdviceFails ==
  LET a == [advice EXCEPT !.asked = FALSE, !.room = Unset] IN
  /\ advice.asked /\ mode = "hasty"
  /\ advice' = a /\ form' = Advised(form, a)
  /\ UNCHANGED <<mode, offered, homeAsked, fetches, created>>

\* In order, the first fetch under way is answered first.
Turn(n) == n \in Fetching /\ (mode = "orderly" => \A m \in Fetching : n <= m)
FetchDone(n) == [fetches EXCEPT ![n].what = "done"]

\* rooms that arrive without a new search
RoomsFetchedOnly(n) ==
  /\ Turn(n) /\ fetches[n].what = "rooms" /\ offered' = fetches[n].for
  /\ fetches' = FetchDone(n)
  /\ UNCHANGED <<mode, form, homeAsked, advice, created>>

RoomsFetched(n) ==
  LET a == Search(form.house, fetches[n].for) IN
  /\ Turn(n) /\ fetches[n].what = "rooms" /\ offered' = fetches[n].for
  /\ advice' = a /\ form' = Advised(form, a) /\ fetches' = FetchDone(n)
  /\ UNCHANGED <<mode, homeAsked, created>>

\* fetchOldIndex: the last invoice's readings, then the number of tenants.
ReadingsFetched(n) ==
  /\ Turn(n) /\ fetches[n].what = "readings"
  /\ form' = [form EXCEPT !.readings = fetches[n].for]
  /\ fetches' = [fetches EXCEPT ![n].what = "tenants"]
  /\ UNCHANGED <<mode, offered, homeAsked, advice, created>>

TenantsFetched(n) ==
  /\ Turn(n) /\ fetches[n].what = "tenants"
  /\ form' = [form EXCEPT !.tenants = fetches[n].for] /\ fetches' = FetchDone(n)
  /\ UNCHANGED <<mode, offered, homeAsked, advice, created>>

FormFetchFails(n) ==
  /\ fetches[n].what # "done" /\ mode = "hasty" /\ fetches' = FetchDone(n)
  /\ UNCHANGED <<mode, form, offered, homeAsked, advice, created>>

\* onSubmit; house_id only chooses among the rooms
Create ==
  /\ AtFields /\ ~form.sending /\ form.house # Unset /\ form.room # Unset
  /\ form' = [form EXCEPT !.sending = TRUE]
  /\ created' = created \cup {[house |-> form.house, room |-> form.room,
                               readings |-> form.readings, tenants |-> form.tenants]}
  /\ UNCHANGED <<mode, offered, homeAsked, advice, fetches>>

Created(success) ==
  /\ form.open /\ form.sending
  /\ form' = [form EXCEPT !.sending = FALSE, !.open = ~success]
  /\ UNCHANGED <<mode, offered, homeAsked, advice, fetches, created>>

GiveUp ==
  /\ form.open /\ form' = [form EXCEPT !.open = FALSE]
  /\ UNCHANGED <<mode, offered, homeAsked, advice, fetches, created>>

FormNext ==
  \/ \E h \in Owners : OwnerAdvised(h)
  \/ \E h \in Owners \cup {Unset} : ChooseOwner(h)
  \/ \E d \in Dwellings \cup {Unset} : ChooseRoom(d)
  \/ RoomAdvised
  \/ AdviceFails
  \/ \E n \in DOMAIN fetches :
       RoomsFetched(n) \/ ReadingsFetched(n) \/ TenantsFetched(n) \/ FormFetchFails(n)
  \/ Create
  \/ \E success \in BOOLEAN : Created(success)
  \/ GiveUp

-----------------------------------------------------------------------------
(* The form's chain of effects comes to rest in agreement: when the user      *)
(* awaits it and answers come in order, an invoice is created for a room of   *)
(* the chosen house, with that room's own last readings and tenants, whatever *)
(* the store's room list held before.                                         *)
PayloadAgrees ==
  mode = "orderly" => \A c \in created : OwnerOf[c.room] = c.house /\ c.readings = c.room /\ c.tenants = c.room
=============================================================================
