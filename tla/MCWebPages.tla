--------------------------- MODULE MCWebPages ---------------------------
(* Small instances of the data pages: two houses, one with two rooms.       *)
EXTENDS WebPages, TLC

CONSTANTS h1, h2, i1, i2, m1, m2, m3

InvoiceHouse == (i1 :> h1) @@ (i2 :> h2)
FilterChoices == {NoFilter, [house |-> h1, status |-> "UNPAID"]}
HomeOrder == <<h1, h2>>
RoomHouse == (m1 :> h1) @@ (m2 :> h1)
DwellingHouse == (m1 :> h1) @@ (m2 :> h1) @@ (m3 :> h2)
FirstRooms == (h1 :> m1) @@ (h2 :> m3)
FetchBounds == [m \in Modes |-> IF m = "hasty" THEN 2 ELSE 6]

\* One room's first reading is already an invoice.
Begun == [x \in Rooms \X Periods |-> IF x = <<m1, 1>> THEN [value |-> 2, typed |-> 1, paid |-> FALSE] ELSE NoEntry]

\* A row of each of two houses, and what is chosen on the revenue page.
TwoRows == <<h1, h2>>
HouseChoices == {{}, {h1, h2}}
=============================================================================
