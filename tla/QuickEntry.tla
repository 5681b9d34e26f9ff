----------------------------- MODULE QuickEntry -----------------------------
(* QuickCreateInvoiceModal: the meter readings of a house's occupied rooms    *)
(* for one period are typed into rows and saved together, one request per     *)
(* row.  Rooms and invoices are loaded in two steps whenever the house or the *)
(* period changes; a house to start with is suggested (useRecommendedHouse).  *)
EXTENDS Integers, Sequences, FiniteSets

CONSTANTS
  Rooms, Homes,  \* occupied rooms, and the houses in the order they are tried
  HomeOf,        \* the house of each room
  NoHome,
  Periods,       \* numbered in their order
  Readings,      \* what the user types; 0 is an empty field
  Earlier,       \* the invoices there are to begin with
  Patience,      \* the kinds of user looked at
  MaxLoads,      \* bound on the loads of a behaviour
  MaxBatches     \* bound on the saves of a behaviour

HomeSet == {Homes[k] : k \in DOMAIN Homes}
NoRow == [value |-> 0, saved |-> FALSE, error |-> FALSE, paid |-> FALSE]
Row == [value : Readings \cup {0}, saved : BOOLEAN, error : BOOLEAN, paid : BOOLEAN]
NoEntry == [value |-> 0, typed |-> 0, paid |-> FALSE]

ASSUME EntryAssumption ==
  /\ NoHome \notin HomeSet /\ \A r \in Rooms : HomeOf[r] \in HomeSet
  /\ Homes \in Seq(HomeSet) /\ Homes # <<>>
  /\ 1 \in Periods /\ Periods \subseteq Nat \ {0} /\ Readings \subseteq Nat \ {0}
  /\ Earlier \in [Rooms \X Periods -> [value : Readings \cup {0}, typed : Periods \cup {0}, paid : BOOLEAN]]
  /\ \A r \in Rooms, p \in Periods : Earlier[r, p].typed \in {0, p}
  /\ MaxLoads \in Nat /\ MaxBatches \in Nat /\ Patience \subseteq BOOLEAN

VARIABLES
  patient,   \* the user awaits loads and saves before going on
  entries,   \* the invoices on the server, and the period each was typed for
  modal,     \* what the modal holds
  sheet,     \* invoiceData: the rows, by room
  oldIndex,  \* latestInvoices: the reading before the period
  loads,     \* the loads under way
  batch,     \* handleSaveAll: the requests under way, and how they went
  suggesting,\* the house suggestion under way
  failed     \* history: a load has failed

quickVars == <<patient, entries, modal, sheet, oldIndex, loads, batch, suggesting, failed>>

QuickTypeOK ==
  /\ patient \in BOOLEAN
  /\ entries \in [Rooms \X Periods -> [value : Readings \cup {0}, typed : Periods \cup {0}, paid : BOOLEAN]]
  /\ modal \in [open : BOOLEAN, house : HomeSet \cup {NoHome}, period : Periods,
                rooms : HomeSet \cup {NoHome}, fetching : BOOLEAN, saving : BOOLEAN, dirty : BOOLEAN,
                asking : BOOLEAN, typed : Periods]
  /\ sheet \in [Rooms -> Row] /\ oldIndex \in [Rooms -> Readings \cup {0}]
  /\ loads \in Seq([house : HomeSet, period : Periods, found : BOOLEAN,
                 stage : {"rooms", "invoices", "done"}])
  /\ batch \in [left : SUBSET [room : Rooms, period : Periods, value : Readings, typed : Periods, stored : BOOLEAN],
                errors : BOOLEAN, count : 0..MaxBatches]
  /\ suggesting \in BOOLEAN /\ failed \in BOOLEAN

QuickInit ==
  /\ patient \in Patience
  /\ entries = Earlier
  /\ modal = [open |-> TRUE, house |-> NoHome, period |-> 1, rooms |-> NoHome, fetching |-> FALSE,
              saving |-> FALSE, dirty |-> FALSE, asking |-> FALSE, typed |-> 1]
  /\ sheet = [r \in Rooms |-> NoRow] /\ oldIndex = [r \in Rooms |-> 0]
  /\ loads = <<>> /\ batch = [left |-> {}, errors |-> FALSE, count |-> 0]
  /\ suggesting = TRUE /\ failed = FALSE

Loading == {n \in DOMAIN loads : loads[n].stage # "done"}
Settled == Loading = {} /\ ~modal.saving /\ ~suggesting
AtSheet == modal.open /\ ~modal.asking /\ (patient => Settled)

\* The effect on house and period; without a house the rows are dropped.
Show(h, p) ==
  IF h = NoHome
  THEN /\ modal' = [modal EXCEPT !.house = h, !.period = p, !.rooms = NoHome]
       /\ sheet' = [r \in Rooms |-> NoRow] /\ oldIndex' = [r \in Rooms |-> 0]
       /\ UNCHANGED loads
  ELSE /\ Len(loads) < MaxLoads
       /\ modal' = [modal EXCEPT !.house = h, !.period = p, !.fetching = TRUE]
       /\ loads' = Append(loads, [house |-> h, period |-> p, found |-> FALSE, stage |-> "rooms"])
       /\ UNCHANGED <<sheet, oldIndex>>

ChooseHouse(h) ==
  /\ AtSheet /\ ~suggesting /\ h # modal.house
  /\ Show(h, modal.period)
  /\ UNCHANGED <<patient, entries, batch, suggesting, failed>>

\* Another period asks for another suggestion.
ChoosePeriod(p) ==
  /\ AtSheet /\ p # modal.period
  /\ Show(modal.house, p) /\ suggesting' = (Len(Homes) > 1)
  /\ UNCHANGED <<patient, entries, batch, failed>>

\* findHouse: the first house with an occupied room not invoiced yet, among
\* those that could be read; it only counts while none is chosen.
Todo(h, p) == \E r \in Rooms : HomeOf[r] = h /\ entries[r, p].value = 0
Suggested(readable) ==
  LET found == {k \in DOMAIN Homes : Homes[k] \in readable /\ Todo(Homes[k], modal.period)}
  IN  IF found = {} THEN Homes[1] ELSE Homes[CHOOSE k \in found : \A j \in found : k <= j]

Suggest(readable) ==
  /\ suggesting /\ modal.open /\ suggesting' = FALSE
  /\ IF modal.house = NoHome THEN Show(Suggested(readable), modal.period)
     ELSE UNCHANGED <<modal, sheet, oldIndex, loads>>
  /\ UNCHANGED <<patient, entries, batch, failed>>

Ended(n) == [loads EXCEPT ![n].stage = "done"]

\* fetchData: setRooms after the first answer, the rows after the second; a
\* failed first request counts as a house without rooms (getRoomsByHouse).
RoomsLoaded(n, found) ==
  /\ loads[n].stage = "rooms"
  /\ loads' = [loads EXCEPT ![n].stage = "invoices", ![n].found = found]
  /\ modal' = [modal EXCEPT !.rooms = IF found THEN loads[n].house ELSE NoHome]
  /\ UNCHANGED <<patient, entries, sheet, oldIndex, batch, suggesting, failed>>

Before(r, p) == {q \in Periods : q < p /\ entries[r, q].value # 0}
Loaded(r, p) ==
  IF entries[r, p].value # 0
  THEN [value |-> entries[r, p].value, saved |-> TRUE, error |-> FALSE, paid |-> entries[r, p].paid]
  ELSE NoRow

InvoicesLoaded(n) ==
  LET h == loads[n].house p == loads[n].period IN
  /\ loads[n].stage = "invoices" /\ loads' = Ended(n)
  /\ sheet' = [r \in Rooms |-> IF loads[n].found /\ HomeOf[r] = h THEN Loaded(r, p) ELSE NoRow]
  /\ oldIndex' = [r \in Rooms |-> IF HomeOf[r] # h \/ Before(r, p) = {} THEN 0
                    ELSE LET q == CHOOSE q \in Before(r, p) : \A o \in Before(r, p) : o <= q IN entries[r, q].value]
  /\ modal' = [modal EXCEPT !.fetching = FALSE, !.dirty = FALSE, !.typed = p]
  /\ UNCHANGED <<patient, entries, batch, suggesting, failed>>

LoadFails(n) ==
  /\ loads[n].stage = "invoices" /\ loads' = Ended(n) /\ failed' = TRUE
  /\ modal' = [modal EXCEPT !.fetching = FALSE]
  /\ UNCHANGED <<patient, entries, sheet, oldIndex, batch, suggesting>>

\* The rows are on screen, and a collected invoice's fields are disabled.
Visible(r) == modal.house # NoHome /\ ~modal.fetching /\ HomeOf[r] = modal.rooms

\* a field that leaves the row marked as saved
TypeKeepingTick(r, v) ==
  /\ AtSheet /\ Visible(r) /\ ~sheet[r].paid /\ v # sheet[r].value
  /\ sheet' = [sheet EXCEPT ![r].value = v, ![r].error = FALSE]
  /\ modal' = [modal EXCEPT !.dirty = TRUE, !.typed = modal.period]
  /\ UNCHANGED <<patient, entries, oldIndex, loads, batch, suggesting, failed>>

\* handleInputChange
Type(r, v) ==
  /\ AtSheet /\ Visible(r) /\ ~sheet[r].paid /\ v # sheet[r].value
  /\ sheet' = [sheet EXCEPT ![r].value = v, ![r].saved = FALSE, ![r].error = FALSE]
  /\ modal' = [modal EXCEPT !.dirty = TRUE, !.typed = modal.period]
  /\ UNCHANGED <<patient, entries, oldIndex, loads, batch, suggesting, failed>>

-----------------------------------------------------------------------------
\* A reading below the previous one is marked and not sent.
Ready(r) == HomeOf[r] = modal.rooms /\ ~sheet[r].saved /\ sheet[r].value # 0
TooLow(r) == sheet[r].value < oldIndex[r]

SaveAll ==
  /\ AtSheet /\ ~modal.saving /\ modal.house # NoHome /\ \E r \in Rooms : HomeOf[r] = modal.rooms
  /\ batch.count < MaxBatches
  /\ modal' = [modal EXCEPT !.saving = TRUE]
  /\ sheet' = [r \in Rooms |-> IF Ready(r) /\ TooLow(r) THEN [sheet[r] EXCEPT !.error = TRUE] ELSE sheet[r]]
  /\ batch' = [left |-> {[room |-> r, period |-> modal.period, value |-> sheet[r].value,
                          typed |-> modal.typed, stored |-> FALSE] : r \in {r \in Rooms : Ready(r) /\ ~TooLow(r)}},
               errors |-> \E r \in Rooms : Ready(r) /\ TooLow(r), count |-> batch.count + 1]
  /\ UNCHANGED <<patient, entries, oldIndex, loads, suggesting, failed>>

\* CreateInvoice on the server: an upsert that leaves a paid invoice alone.
ServerStores(q) ==
  /\ ~q.stored /\ ~entries[q.room, q.period].paid
  /\ entries' = [entries EXCEPT ![<<q.room, q.period>>] = [value |-> q.value, typed |-> q.typed, paid |-> FALSE]]
  /\ batch' = [batch EXCEPT !.left = (@ \ {q}) \cup {[q EXCEPT !.stored = TRUE]}]
  /\ UNCHANGED <<patient, modal, sheet, oldIndex, loads, suggesting, failed>>

\* The answer marks the row as it is by then.
RowSaved(q) ==
  /\ q.stored
  /\ sheet' = [sheet EXCEPT ![q.room].saved = TRUE, ![q.room].error = FALSE]
  /\ batch' = [batch EXCEPT !.left = @ \ {q}]
  /\ UNCHANGED <<patient, entries, modal, oldIndex, loads, suggesting, failed>>

\* a batch that forgets which of its rows failed
RowFailsSilently(q) ==
  /\ sheet' = [sheet EXCEPT ![q.room].error = TRUE]
  /\ batch' = [batch EXCEPT !.left = @ \ {q}]
  /\ UNCHANGED <<patient, entries, modal, oldIndex, loads, suggesting, failed>>

RowFails(q) ==
  /\ sheet' = [sheet EXCEPT ![q.room].error = TRUE]
  /\ batch' = [batch EXCEPT !.left = @ \ {q}, !.errors = TRUE]
  /\ UNCHANGED <<patient, entries, modal, oldIndex, loads, suggesting, failed>>

\* After the last answer, and the list's refresh when a row was saved.
BatchEnds ==
  /\ modal.saving /\ batch.left = {}
  /\ modal' = IF batch.errors THEN [modal EXCEPT !.saving = FALSE]
              ELSE [modal EXCEPT !.saving = FALSE, !.open = FALSE, !.asking = FALSE]
  /\ UNCHANGED <<patient, entries, sheet, oldIndex, loads, batch, suggesting, failed>>

\* handleClose: unsaved fields ask first; a save under way does not stop it.
Close ==
  /\ modal.open /\ ~modal.asking
  /\ modal' = IF modal.dirty THEN [modal EXCEPT !.asking = TRUE] ELSE [modal EXCEPT !.open = FALSE]
  /\ UNCHANGED <<patient, entries, sheet, oldIndex, loads, batch, suggesting, failed>>

AnswerClose(leave) ==
  /\ modal.open /\ modal.asking
  /\ modal' = [modal EXCEPT !.asking = FALSE, !.open = ~leave]
  /\ UNCHANGED <<patient, entries, sheet, oldIndex, loads, batch, suggesting, failed>>

\* The tenant pays, or the landlord collects.
Collect(r, p) ==
  /\ entries[r, p].value # 0 /\ ~entries[r, p].paid
  /\ entries' = [entries EXCEPT ![<<r, p>>].paid = TRUE]
  /\ UNCHANGED <<patient, modal, sheet, oldIndex, loads, batch, suggesting, failed>>

QuickNext ==
  \/ \E h \in HomeSet \cup {NoHome} : ChooseHouse(h)
  \/ \E p \in Periods : ChoosePeriod(p) \/ \E r \in Rooms : Collect(r, p)
  \/ \E readable \in SUBSET HomeSet : Suggest(readable)
  \/ \E n \in DOMAIN loads : InvoicesLoaded(n) \/ LoadFails(n) \/ \E found \in BOOLEAN : RoomsLoaded(n, found)
  \/ \E r \in Rooms, v \in Readings \cup {0} : Type(r, v)
  \/ SaveAll
  \/ \E q \in batch.left : ServerStores(q) \/ RowSaved(q) \/ RowFails(q)
  \/ BatchEnds
  \/ Close
  \/ \E leave \in BOOLEAN : AnswerClose(leave)

-----------------------------------------------------------------------------
(* A row ticked as saved shows the reading its invoice holds: for the period  *)
(* and house on screen, after any mixture of saves, refusals and reloads, as  *)
(* long as every load succeeds and nothing is typed or chosen during one.     *)
TickMeansStored ==
  patient /\ ~failed /\ modal.open /\ Settled =>
    \A r \in Rooms : sheet[r].saved /\ Visible(r) /\ modal.typed = modal.period =>
      entries[r, modal.period].value = sheet[r].value

(* The modal closes by itself only after a save that left nothing behind:     *)
(* every row with a reading is an invoice of the period on screen.            *)
ClosesWhenAllStored ==
  [][patient /\ ~failed /\ modal.open /\ ~modal'.open /\ modal.saving /\ ~modal'.saving =>
       \A r \in Rooms : HomeOf[r] = modal.rooms /\ sheet[r].value # 0 =>
          entries[r, modal.period].value = sheet[r].value]_quickVars

(* A reading is stored under the period it was typed for, unless a load of    *)
(* the rows has failed: then the old rows stay, under the new period.         *)
StoredUnderItsPeriod == patient /\ ~failed => \A r \in Rooms, p \in Periods : entries[r, p].typed \in {0, p}

(* What the sheet says of a row holds for its invoice, and for its period.    *)
TicksHold == TickMeansStored /\ StoredUnderItsPeriod
=============================================================================
