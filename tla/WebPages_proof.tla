--------------------------- MODULE WebPages_proof ---------------------------
(* What the pages of the web client guarantee for any number of invoices,     *)
(* houses, rooms, tenants, periods, filters and requests, of a manager who    *)
(* awaits each answer: the list of invoices is the server's, a saved row of   *)
(* the sheet of readings is stored and the sheet closes on nothing it did not *)
(* store, the form for one invoice sends the readings it shows, the lists of  *)
(* houses, rooms and tenants show the server's rows once no request is under  *)
(* way, and the costs typed for a month are stored for that month.  Each part *)
(* has an inductive invariant of its own; a step of a page leaves the         *)
(* variables of the others alone, so that each part sees its own steps only.  *)
EXTENDS WebPages, OrderedLists_proof

LEMMA PartsInit == Init => DeskInit /\ QuickInit /\ FormInit /\ StoreInit /\ CostInit
BY DEF Init

LEMMA PartsStep ==
  [Next]_vars =>
    /\ [DeskNext]_deskVars /\ [QuickNext]_quickVars /\ [FormNext]_formVars
    /\ [StoreNext]_storeVars /\ [CostNext]_costVars
<1> SUFFICES ASSUME [Next]_vars
             PROVE  /\ [DeskNext]_deskVars /\ [QuickNext]_quickVars /\ [FormNext]_formVars
                    /\ [StoreNext]_storeVars /\ [CostNext]_costVars
  OBVIOUS
<1>1. CASE Next
  BY <1>1 DEF Next
<1>2. CASE UNCHANGED vars
  BY <1>2 DEF vars
<1> QED BY <1>1, <1>2

LEMMA UpdatedSeq ==
  ASSUME NEW S, NEW s \in Seq(S), NEW n \in DOMAIN s, NEW q \in S
  PROVE  [s EXCEPT ![n] = q] \in Seq(S)
OBVIOUS

-----------------------------------------------------------------------------
(* The list of invoices.                                                      *)

DeskCalls == [kind : {"none", "fetch", "pay", "unpay", "delete", "save", "refresh"},
              id : Invoices \cup {NoInvoice}, want : Filters, before : Lists, reply : Lists,
              stage : {"sent", "served", "refused"}, mine : BOOLEAN]

DeskTypes ==
  /\ rows \in [Invoices -> Statuses \cup {"gone"}] /\ filter \in Filters /\ list \in Lists
  /\ calls \in Seq(DeskCalls) /\ picked \in Invoices \cup {NoInvoice} /\ editing \in BOOLEAN

\* A list that a load would hardly change: it shows what the server holds of
\* its rows, and has the rows the filter asks for.
Agrees(l) == (\A i \in DOMAIN l : l[i] = rows[i]) /\ DOMAIN Matching(filter) \subseteq DOMAIN l

\* What a user who awaits every answer has under way: the fetches of a filter,
\* or one change.
LoadInv(c) ==
  c.kind \in {"fetch", "refresh"} => c.want = filter /\ (c.stage = "served" => c.reply = Matching(filter))
PaidInv(c) ==
  c.kind \in {"pay", "unpay"} =>
    /\ c.id \in DOMAIN c.before /\ list = [c.before EXCEPT ![c.id] = Written(c)]
    /\ ~missed => IF c.stage = "served" THEN Agrees(list) ELSE Agrees(c.before)
EditedInv(c) ==
  /\ c.kind \in {"delete", "save"} /\ c.stage # "served" /\ ~missed => Agrees(list)
  /\ c.kind = "save" => c.id \in Invoices
AloneInv ==
  /\ \A n, m \in Under : n # m => calls[n].kind = "fetch"
  /\ \A n \in Under : LoadInv(calls[n]) /\ PaidInv(calls[n]) /\ EditedInv(calls[n])
  /\ Under = {} /\ ~missed => Agrees(list)
\* While the edit form is open, only its own save is under way.
FormOpenInv ==
  editing => picked \in DOMAIN list /\ \A n \in Under : calls[n].kind = "save" \/ Closes(calls[n])

DeskInv == DeskTypes /\ SpinnerHasFetch /\ (alone => AloneInv /\ FormOpenInv)


LEMMA DeskConstants ==
  /\ NoInvoice \notin Invoices /\ NoFilter \in Filters /\ Empty \in Lists
  /\ NoCall \in DeskCalls /\ NoCall.kind = "none" /\ NoCall.stage = "sent"
  /\ \A f \in Filters : Fetch(f) \in DeskCalls /\ Fetch(f).kind = "fetch" /\ Fetch(f).want = f /\ Fetch(f).stage = "sent"
<1>1. NoInvoice \notin Invoices /\ NoFilter \in Filters
  BY DeskAssumption
<1>2. Empty \in Lists
  <2>1. Empty \in [{} -> Statuses]
    BY DEF Empty
  <2> QED BY <2>1 DEF Lists
<1>3. NoCall \in DeskCalls /\ NoCall.kind = "none" /\ NoCall.stage = "sent"
  BY <1>1, <1>2 DEF NoCall, DeskCalls
<1>4. ASSUME NEW f \in Filters
      PROVE  Fetch(f) \in DeskCalls /\ Fetch(f).kind = "fetch" /\ Fetch(f).want = f /\ Fetch(f).stage = "sent"
  BY <1>1, <1>2 DEF Fetch, NoCall, DeskCalls
<1> QED BY <1>1, <1>2, <1>3, <1>4

LEMMA ListIn ==
  ASSUME NEW l \in Lists
  PROVE  DOMAIN l \subseteq Invoices /\ \A i \in DOMAIN l : l[i] \in Statuses
BY DEF Lists

LEMMA ListSet ==
  ASSUME NEW l \in Lists, NEW i \in DOMAIN l, NEW x \in Statuses
  PROVE  /\ [l EXCEPT ![i] = x] \in Lists /\ DOMAIN [l EXCEPT ![i] = x] = DOMAIN l
         /\ \A j \in DOMAIN l : [l EXCEPT ![i] = x][j] = IF j = i THEN x ELSE l[j]
<1>1. PICK S \in SUBSET Invoices : l \in [S -> Statuses]
  BY DEF Lists
<1>2. [l EXCEPT ![i] = x] \in [S -> Statuses]
  BY <1>1
<1> QED BY <1>1, <1>2 DEF Lists

LEMMA MatchingIn ==
  ASSUME rows \in [Invoices -> Statuses \cup {"gone"}], NEW f \in Filters
  PROVE  /\ Matching(f) \in Lists
         /\ \A i \in DOMAIN Matching(f) : Matching(f)[i] = rows[i]
<1> DEFINE S == {i \in Invoices : /\ rows[i] # "gone" /\ f.house \in {Every, HouseOf[i]}
                                  /\ f.status \in {Every, rows[i]}}
<1>1. Matching(f) = [i \in S |-> rows[i]]
  BY DEF Matching
<1>2. S \in SUBSET Invoices /\ \A i \in S : rows[i] \in Statuses
  OBVIOUS
<1> HIDE DEF S
<1>3. Matching(f) \in [S -> Statuses]
  BY <1>1, <1>2
<1> QED BY <1>1, <1>2, <1>3 DEF Lists

-----------------------------------------------------------------------------
\* How the requests under way change.
SameRequest(c, d) ==
  c.kind = d.kind /\ c.id = d.id /\ c.want = d.want /\ c.before = d.before /\ c.reply = d.reply /\ c.stage = d.stage
Live(cs) == {n \in DOMAIN cs : cs[n].kind # "none"}

LEMMA Trimmed ==
  ASSUME NEW cs \in Seq(DeskCalls)
  PROVE  /\ Trim(cs) \in Seq(DeskCalls) /\ Live(Trim(cs)) = Live(cs)
         /\ \A n \in Live(cs) : Trim(cs)[n] = cs[n]
<1> DEFINE live == Live(cs)
           top == IF live = {} THEN 0 ELSE CHOOSE n \in live : \A m \in live : m <= n
<1>1. Trim(cs) = SubSeq(cs, 1, top)
  BY DEF Trim, Live
<1>2. live \subseteq 1..Len(cs) /\ Len(cs) \in Nat
  BY DEF Live
<1>3. top \in 0..Len(cs) /\ \A n \in live : n <= top
  <2>1. CASE live = {}
    BY <1>2, <2>1
  <2>2. CASE live # {}
    <3>1. \E n \in live : \A m \in live : m <= n
      <4> HIDE DEF live
      <4> QED BY <1>2, <2>2, GreatestNumber
    <3>2. top \in live /\ \A m \in live : m <= top
      <4>1. top = CHOOSE n \in live : \A m \in live : m <= n
        BY <2>2
      <4> HIDE DEF live, top
      <4> QED BY <3>1, <4>1
    <3> HIDE DEF live, top
    <3> QED BY <1>2, <3>2
  <2> QED BY <2>1, <2>2
<1> HIDE DEF top
<1>4. \A i \in 1..top : cs[i] \in DeskCalls
  BY <1>2, <1>3
<1>5. PICK t : t = SubSeq(cs, 1, top)
  OBVIOUS
<1>6. /\ t \in Seq(DeskCalls) /\ Len(t) = IF 1 <= top THEN top - 1 + 1 ELSE 0
      /\ \A i \in 1..(top - 1 + 1) : t[i] = cs[1 + i - 1]
  <2>1. top \in Int /\ 1 \in Int
    BY <1>2, <1>3
  <2> QED BY <1>4, <1>5, <2>1, SubSeqProperties
<1>7. DOMAIN t = 1..top /\ \A i \in 1..top : t[i] = cs[i]
  BY <1>2, <1>3, <1>6
<1>8. Live(t) = live
  BY <1>2, <1>3, <1>7 DEF Live
<1>9. \A n \in live : t[n] = cs[n]
  BY <1>2, <1>3, <1>7
<1> QED BY <1>1, <1>5, <1>6, <1>8, <1>9

LEMMA WithoutOne ==
  ASSUME calls \in Seq(DeskCalls), NEW n \in Under
  PROVE  /\ Without(n) \in Seq(DeskCalls) /\ Live(Without(n)) = Under \ {n}
         /\ \A m \in Under \ {n} : Without(n)[m] = calls[m]
<1>1. n \in DOMAIN calls
  BY DEF Under
<1>2. PICK cs : cs = [calls EXCEPT ![n] = NoCall]
  OBVIOUS
<1>3. cs \in Seq(DeskCalls)
  BY <1>1, <1>2, DeskConstants, UpdatedSeq
<1>4. DOMAIN cs = DOMAIN calls /\ cs[n] = NoCall /\ \A m \in DOMAIN calls : m # n => cs[m] = calls[m]
  BY <1>1, <1>2
<1>5. Live(cs) = Under \ {n}
  BY <1>4, DeskConstants DEF Live, Under
<1>6. \A m \in Under \ {n} : cs[m] = calls[m]
  BY <1>4 DEF Under
<1>7. Without(n) = Trim(cs)
  BY <1>2 DEF Without
<1> QED BY <1>3, <1>5, <1>6, <1>7, Trimmed

LEMMA HeardSame ==
  ASSUME NEW cs \in Seq(DeskCalls), NEW l, NEW id, NEW edit
  PROVE  /\ Heard(cs, l, id, edit) \in Seq(DeskCalls) /\ Live(Heard(cs, l, id, edit)) = Live(cs)
         /\ \A n \in Live(cs) : SameRequest(Heard(cs, l, id, edit)[n], cs[n])
<1> DEFINE h == [n \in DOMAIN cs |-> [cs[n] EXCEPT !.mine = FALSE]]
<1>1. \A n \in DOMAIN cs : cs[n] \in DeskCalls
  OBVIOUS
<1>2. \A n \in DOMAIN cs : h[n] \in DeskCalls /\ SameRequest(h[n], cs[n])
  <2> SUFFICES ASSUME NEW c \in DeskCalls
               PROVE  [c EXCEPT !.mine = FALSE] \in DeskCalls /\ SameRequest([c EXCEPT !.mine = FALSE], c)
    BY <1>1
  <2> QED BY DEF DeskCalls, SameRequest
<1>3. DOMAIN h = 1..Len(cs) /\ Len(cs) \in Nat
  OBVIOUS
<1> HIDE DEF h
<1>4. h \in [1..Len(cs) -> DeskCalls]
  <2>1. h = [n \in DOMAIN h |-> h[n]]
    BY DEF h
  <2> QED BY <1>2, <1>3, <2>1
<1>5. h \in Seq(DeskCalls)
  BY <1>3, <1>4
<1>6. Live(h) = Live(cs)
  BY <1>2, <1>3 DEF Live, SameRequest
<1>7. \A n \in Live(cs) : SameRequest(h[n], cs[n]) /\ SameRequest(cs[n], cs[n])
  BY <1>2 DEF Live, SameRequest
<1>8. Heard(cs, l, id, edit) = cs \/ Heard(cs, l, id, edit) = h
  BY DEF Heard, h
<1> QED BY <1>5, <1>6, <1>7, <1>8

LEMMA Appending ==
  ASSUME calls \in Seq(DeskCalls), NEW c \in DeskCalls, c.kind # "none", calls' = Append(calls, c)
  PROVE  \E n : /\ calls' \in Seq(DeskCalls) /\ n \notin Under /\ Under' = Under \cup {n} /\ calls'[n] = c
                /\ \A m \in Under : calls'[m] = calls[m]
<1> DEFINE n == Len(calls) + 1
<1>1. /\ calls' \in Seq(DeskCalls) /\ Len(calls') = n /\ calls'[n] = c
      /\ \A m \in DOMAIN calls : calls'[m] = calls[m]
  OBVIOUS
<1>2. Len(calls) \in Nat /\ DOMAIN calls = 1..Len(calls) /\ DOMAIN calls' = 1..n
  BY <1>1
<1>3. n \notin DOMAIN calls /\ \A m : m \in DOMAIN calls' <=> m \in DOMAIN calls \/ m = n
  BY <1>2
<1> HIDE DEF n
<1>4. Under' = Under \cup {n} /\ n \notin Under /\ \A m \in Under : calls'[m] = calls[m]
  BY <1>1, <1>3 DEF Under
<1> QED BY <1>1, <1>4

LEMMA SameTable ==
  ASSUME rows' = rows, filter' = filter
  PROVE  Matching(filter)' = Matching(filter) /\ \A l : Agrees(l)' = Agrees(l)
<1>1. Matching(filter)' = Matching(filter)
  BY DEF Matching
<1> QED BY <1>1 DEF Agrees

\* An answered request leaves the others as they were.
LEMMA EndsAlone ==
  ASSUME AloneInv, NEW n \in Under, rows' = rows, filter' = filter,
         Under' = Under \ {n}, \A m \in Under \ {n} : SameRequest(calls'[m], calls[m]),
         Under' = {} /\ ~missed' => Agrees(list)'
  PROVE  AloneInv'
<1>1. \A m \in Under' : calls[m].kind = "fetch" /\ SameRequest(calls'[m], calls[m])
  BY DEF AloneInv
<1>2. \A m \in Under' : calls'[m].kind = "fetch"
  BY <1>1 DEF SameRequest
<1>3. Matching(filter)' = Matching(filter)
  BY SameTable
<1>4. \A m \in Under' : LoadInv(calls[m])'
  <2> SUFFICES ASSUME NEW m \in Under' PROVE LoadInv(calls[m])'
    OBVIOUS
  <2>1. LoadInv(calls[m]) /\ SameRequest(calls'[m], calls[m])
    BY <1>1 DEF AloneInv
  <2> QED BY <1>1, <1>3, <2>1 DEF LoadInv, SameRequest
<1> QED BY <1>2, <1>4 DEF AloneInv, PaidInv, EditedInv

-----------------------------------------------------------------------------
\* The steps of the user.
LEMMA SetFilterStep ==
  ASSUME DeskInv, NEW f \in Filters, SetFilter(f)
  PROVE  DeskInv'
<1>1. /\ Open = "none" /\ filter' = f /\ (alone => Under = {})
      /\ UNCHANGED <<alone, rows, list, picked, editing, missed>>
  BY DEF SetFilter, Acts, Patient
<1>2. PICK k \in {1, 2} : calls' = calls \o [j \in 1..k |-> Fetch(f)]
  BY DEF SetFilter
<1>3. calls \in Seq(DeskCalls) /\ Len(calls) \in Nat /\ DOMAIN calls = 1..Len(calls)
  BY DEF DeskInv, DeskTypes
<1>4. PICK c \in DeskCalls : c = Fetch(f) /\ c.kind = "fetch" /\ c.want = f /\ c.stage = "sent"
  BY DeskConstants
<1>5. PICK t : t = [j \in 1..k |-> c]
  OBVIOUS
<1>6. t \in Seq(DeskCalls) /\ Len(t) = k /\ \A j \in 1..k : t[j] = c
  BY <1>5
<1>7. calls' = calls \o t
  BY <1>2, <1>4, <1>5
<1>8. /\ calls' \in Seq(DeskCalls) /\ Len(calls') = Len(calls) + k
      /\ \A j \in 1..Len(calls) : calls'[j] = calls[j]
      /\ \A j \in Len(calls) + 1..Len(calls) + k : calls'[j] = c
  BY <1>3, <1>6, <1>7
<1>9. DOMAIN calls' = 1..(Len(calls) + k)
  BY <1>8
<1>10. \A j : j \in DOMAIN calls' <=> j \in DOMAIN calls \/ j \in Len(calls) + 1..Len(calls) + k
  BY <1>3, <1>9
<1>11. Under' = Under \cup (Len(calls) + 1..Len(calls) + k)
  BY <1>3, <1>4, <1>8, <1>10 DEF Under
<1>12. \A j \in Len(calls) + 1..Len(calls) + k : calls'[j] = c
  BY <1>8
<1>13. Len(calls) + 1 \in Len(calls) + 1..Len(calls) + k
  BY <1>3
<1>14. SpinnerHasFetch'
  BY <1>4, <1>11, <1>12, <1>13 DEF SpinnerHasFetch, Waiting
<1>15. DeskTypes'
  BY <1>1, <1>8 DEF DeskInv, DeskTypes
<1>16. ASSUME alone PROVE AloneInv' /\ FormOpenInv'
  <2>1. \A j \in Under' : calls'[j] = c
    BY <1>1, <1>11, <1>12, <1>16
  <2>2. Under' # {}
    BY <1>11, <1>13
  <2>3. AloneInv'
    BY <1>1, <1>4, <2>1, <2>2 DEF AloneInv, LoadInv, PaidInv, EditedInv
  <2>4. ~editing
    BY <1>1, <1>16 DEF DeskInv, FormOpenInv, Open, Modal
  <2> QED BY <1>1, <2>3, <2>4 DEF FormOpenInv
<1> QED BY <1>1, <1>14, <1>15, <1>16 DEF DeskInv

\* A click that sends nothing.
LEMMA ClickKeeps ==
  ASSUME DeskInv, Patient, calls' \in Seq(DeskCalls), Under' = Under,
         \A n \in Under : SameRequest(calls'[n], calls[n]),
         UNCHANGED <<alone, rows, filter, list, loading, missed>>,
         picked' \in Invoices \cup {NoInvoice}, editing' \in BOOLEAN,
         alone /\ editing' => picked' \in DOMAIN list
  PROVE  DeskInv'
<1>1. DeskTypes'
  BY DEF DeskInv, DeskTypes
<1>2. SpinnerHasFetch'
  BY DEF DeskInv, SpinnerHasFetch, Waiting, SameRequest
<1>3. ASSUME alone PROVE AloneInv' /\ FormOpenInv'
  <2>1. Under' = {} /\ Under = {}
    BY <1>3 DEF Patient
  <2>2. Agrees(list)' = Agrees(list)
    BY SameTable DEF Agrees, Matching
  <2>3. ~missed => Agrees(list)
    BY <1>3, <2>1 DEF DeskInv, AloneInv
  <2> QED BY <1>3, <2>1, <2>2, <2>3 DEF AloneInv, FormOpenInv
<1> QED BY <1>1, <1>2, <1>3 DEF DeskInv

LEMMA ClickSteps ==
  ASSUME DeskInv, (\E i \in Invoices, edit \in BOOLEAN : OpenRow(i, edit)) \/ EditFromDetail \/ CloseModal
  PROVE  DeskInv'
<1>1. calls \in Seq(DeskCalls) /\ Under = Live(calls) /\ \A n \in Under : SameRequest(calls[n], calls[n])
  BY DEF DeskInv, DeskTypes, Under, Live, SameRequest
<1>2. CASE \E i \in Invoices, edit \in BOOLEAN : OpenRow(i, edit)
  <2>1. PICK i \in Invoices, edit \in BOOLEAN : OpenRow(i, edit)
    BY <1>2
  <2>2. /\ Patient /\ i \in DOMAIN list /\ picked' = i /\ editing' = (edit \/ editing)
        /\ UNCHANGED <<alone, rows, filter, list, loading, calls, missed>>
    BY <2>1 DEF OpenRow
  <2>3. editing' \in BOOLEAN
    BY <2>2
  <2>4. Under' = Under
    BY <2>2 DEF Under
  <2> QED BY <1>1, <2>2, <2>3, <2>4, ClickKeeps
<1>3. CASE EditFromDetail
  <2>1. /\ Patient /\ Open = "detail" /\ editing' = TRUE /\ calls' = Heard(calls, list, picked, TRUE)
        /\ UNCHANGED <<alone, rows, filter, list, loading, picked, missed>>
    BY <1>3 DEF EditFromDetail
  <2>2. picked \in DOMAIN list /\ picked' \in Invoices \cup {NoInvoice}
    BY <2>1 DEF Open, Modal, DeskInv, DeskTypes
  <2>3. calls' \in Seq(DeskCalls) /\ Live(calls)' = Live(calls) /\ \A n \in Live(calls) : SameRequest(calls'[n], calls[n])
    BY <1>1, <2>1, HeardSame
  <2>4. Under' = Under
    BY <1>1, <2>3 DEF Under, Live
  <2> QED BY <1>1, <2>1, <2>2, <2>3, <2>4, ClickKeeps
<1>4. CASE CloseModal
  <2>1. /\ Patient /\ picked' = NoInvoice /\ editing' = FALSE /\ calls' = Heard(calls, list, NoInvoice, FALSE)
        /\ UNCHANGED <<alone, rows, filter, list, loading, missed>>
    BY <1>4 DEF CloseModal
  <2>2. calls' \in Seq(DeskCalls) /\ Live(calls)' = Live(calls) /\ \A n \in Live(calls) : SameRequest(calls'[n], calls[n])
    BY <1>1, <2>1, HeardSame
  <2>3. Under' = Under
    BY <1>1, <2>2 DEF Under, Live
  <2> QED BY <1>1, <2>1, <2>2, <2>3, ClickKeeps
<1> QED BY <1>2, <1>3, <1>4

\* A click that sends a change.
LEMMA SendKeeps ==
  ASSUME DeskInv, Patient, NEW c \in DeskCalls, c.kind \in {"pay", "unpay", "delete", "save"},
         calls' = Append(calls, c), list' \in Lists, DOMAIN list' = DOMAIN list,
         UNCHANGED <<alone, rows, filter, loading, picked, editing, missed>>,
         alone => PaidInv(c)' /\ EditedInv(c)' /\ (editing => c.kind = "save")
  PROVE  DeskInv'
<1>1. PICK n : /\ calls' \in Seq(DeskCalls) /\ n \notin Under /\ Under' = Under \cup {n} /\ calls'[n] = c
               /\ \A m \in Under : calls'[m] = calls[m]
  BY Appending DEF DeskInv, DeskTypes
<1>2. DeskTypes'
  BY <1>1 DEF DeskInv, DeskTypes
<1>3. SpinnerHasFetch'
  BY <1>1 DEF DeskInv, SpinnerHasFetch, Waiting
<1>4. ASSUME alone PROVE AloneInv' /\ FormOpenInv'
  <2>1. Under' = {n}
    BY <1>1, <1>4 DEF Patient
  <2>2. LoadInv(c)'
    BY DEF LoadInv
  <2>3. AloneInv'
    <3>1. PaidInv(calls[n])' /\ EditedInv(calls[n])' /\ LoadInv(calls[n])'
      BY <1>1, <1>4, <2>2 DEF PaidInv, EditedInv, LoadInv
    <3> QED BY <2>1, <3>1 DEF AloneInv
  <2>4. FormOpenInv'
    BY <1>1, <1>4, <2>1 DEF DeskInv, FormOpenInv
  <2> QED BY <2>3, <2>4
<1> QED BY <1>2, <1>3, <1>4 DEF DeskInv

LEMMA PayStep ==
  ASSUME DeskInv, NEW k \in {"pay", "unpay"}, Pay(k)
  PROVE  DeskInv'
<1>1. /\ Patient /\ Open = "detail"
      /\ UNCHANGED <<alone, rows, filter, loading, picked, editing, missed>>
  BY DEF Pay, Acts
<1>2. PICK x \in Statuses : x = IF k = "pay" THEN "PAID" ELSE "UNPAID"
  BY DEF Statuses
<1>3. picked \in DOMAIN list /\ ~editing /\ list \in Lists
  BY <1>1 DEF Open, Modal, DeskInv, DeskTypes
<1>4. list' = [list EXCEPT ![picked] = x]
  BY <1>2 DEF Pay
<1>5. list' \in Lists /\ DOMAIN list' = DOMAIN list
  BY <1>3, <1>4, ListSet
<1> DEFINE c == [NoCall EXCEPT !.kind = k, !.id = picked, !.before = list, !.mine = TRUE]
<1>6. c \in DeskCalls /\ c.kind = k /\ c.id = picked /\ c.before = list /\ c.stage = "sent"
  <2>1. picked \in Invoices
    BY <1>3, ListIn
  <2> QED BY <1>3, <2>1, DeskConstants DEF DeskCalls, NoCall
<1>7. calls' = Append(calls, c)
  BY DEF Pay
<1>8. PICK d \in DeskCalls : d = c
  BY <1>6
<1> HIDE DEF c
<1>9. ASSUME alone PROVE PaidInv(d)'
  <2>1. ~missed => Agrees(list)
    BY <1>1, <1>9 DEF Patient, DeskInv, AloneInv
  <2>2. \A l : Agrees(l)' = Agrees(l)
    BY <1>1, SameTable
  <2>3. Written(d) = x
    BY <1>2, <1>6, <1>8 DEF Written
  <2>4. d.id \in DOMAIN d.before /\ list' = [d.before EXCEPT ![d.id] = Written(d)] /\ d.stage = "sent" /\ d.before = list
    BY <1>3, <1>4, <1>6, <1>8, <2>3
  <2>5. ~missed' => Agrees(d.before)'
    <3>1. PICK l : l = list
      OBVIOUS
    <3>2. ~missed => Agrees(l)'
      BY <2>1, <2>2, <3>1
    <3> QED BY <1>1, <2>4, <3>1, <3>2 DEF Agrees
  <2> QED BY <2>4, <2>5 DEF PaidInv, Written
<1>10. EditedInv(d)'
  BY <1>6, <1>8 DEF EditedInv
<1>11. d.kind \in {"pay", "unpay", "delete", "save"} /\ calls' = Append(calls, d)
  BY <1>6, <1>7, <1>8
<1> QED BY <1>1, <1>3, <1>5, <1>9, <1>10, <1>11, SendKeeps

LEMMA ChangeSteps ==
  ASSUME DeskInv, (\E i \in Invoices : Delete(i)) \/ SaveEdit
  PROVE  DeskInv'
<1>1. PICK d \in DeskCalls :
        /\ Patient /\ calls' = Append(calls, d) /\ d.kind \in {"delete", "save"} /\ d.stage = "sent"
        /\ d.id \in Invoices /\ (alone /\ editing => d.kind = "save")
        /\ UNCHANGED <<alone, rows, filter, list, loading, picked, editing, missed>>
  <2>1. CASE \E i \in Invoices : Delete(i)
    <3>1. PICK i \in Invoices : Delete(i)
      BY <2>1
    <3> DEFINE c == [NoCall EXCEPT !.kind = "delete", !.id = i]
    <3>2. c \in DeskCalls /\ c.kind = "delete" /\ c.stage = "sent" /\ c.id = i
      BY DeskConstants DEF DeskCalls, NoCall
    <3>3. calls' = Append(calls, c) /\ Patient /\ Open = "none"
          /\ UNCHANGED <<alone, rows, filter, list, loading, picked, editing, missed>>
      BY <3>1 DEF Delete, Acts
    <3> HIDE DEF c
    <3>4. alone => ~editing
      BY <3>3 DEF DeskInv, FormOpenInv, Open, Modal
    <3> QED BY <3>2, <3>3, <3>4
  <2>2. CASE SaveEdit
    <3> DEFINE c == [NoCall EXCEPT !.kind = "save", !.id = picked, !.mine = TRUE]
    <3>1. Open = "edit" /\ Patient /\ calls' = Append(calls, c)
          /\ UNCHANGED <<alone, rows, filter, list, loading, picked, editing, missed>>
      BY <2>2 DEF SaveEdit, Acts
    <3>2. picked \in Invoices
      BY <3>1, ListIn DEF Open, Modal, DeskInv, DeskTypes
    <3>3. c \in DeskCalls /\ c.kind = "save" /\ c.stage = "sent" /\ c.id = picked
      BY <3>2, DeskConstants DEF DeskCalls, NoCall
    <3> HIDE DEF c
    <3> QED BY <3>1, <3>2, <3>3
  <2> QED BY <2>1, <2>2
<1>2. list' \in Lists /\ DOMAIN list' = DOMAIN list
  BY <1>1 DEF DeskInv, DeskTypes
<1>3. PaidInv(d)'
  BY <1>1 DEF PaidInv
<1>4. ASSUME alone PROVE EditedInv(d)'
  <2>1. ~missed => Agrees(list)
    BY <1>1, <1>4 DEF Patient, DeskInv, AloneInv
  <2>2. Agrees(list)' = Agrees(list)
    BY <1>1 DEF Agrees, Matching
  <2> QED BY <1>1, <2>1, <2>2 DEF EditedInv
<1>5. d.kind \in {"pay", "unpay", "delete", "save"}
  BY <1>1
<1> QED BY <1>1, <1>2, <1>3, <1>4, <1>5, SendKeeps

-----------------------------------------------------------------------------
\* The steps of the server and of the answers.
LEMMA ServeFetchStep ==
  ASSUME DeskInv, NEW n \in Waiting, Serve(n)
  PROVE  DeskInv'
<1>1. /\ n \in Under /\ n \in DOMAIN calls /\ calls[n].kind \in {"fetch", "refresh"} /\ calls[n].stage = "sent"
      /\ UNCHANGED <<alone, rows, filter, list, loading, picked, editing, missed>>
      /\ calls' = [calls EXCEPT ![n].stage = "served", ![n].reply = Matching(calls[n].want)]
  BY DEF Serve, Waiting, Under, Accepts
<1>2. calls \in Seq(DeskCalls)
  BY DEF DeskInv, DeskTypes
<1>3. PICK c \in DeskCalls : c = calls[n]
  BY <1>1, <1>2
<1>4. PICK r \in Lists : r = Matching(calls[n].want)
  BY <1>3, MatchingIn DEF DeskInv, DeskTypes, DeskCalls
<1> DEFINE d == [c EXCEPT !.stage = "served", !.reply = r]
<1>5. /\ d \in DeskCalls /\ d.kind = c.kind /\ d.id = c.id /\ d.want = c.want /\ d.stage = "served" /\ d.reply = r
  BY DEF DeskCalls
<1>6. calls' = [calls EXCEPT ![n] = d]
  BY <1>1, <1>2, <1>3, <1>4
<1> HIDE DEF d
<1>7. calls' \in Seq(DeskCalls)
  <2>1. n \in DOMAIN calls /\ d \in DeskCalls
    BY <1>1, <1>5
  <2> QED BY ONLY <1>2, <1>6, <2>1, UpdatedSeq
<1>8. DOMAIN calls' = DOMAIN calls /\ calls'[n] = d /\ \A m \in DOMAIN calls : m # n => calls'[m] = calls[m]
  BY <1>1, <1>2, <1>6
<1>9. Under' = Under
  BY <1>3, <1>5, <1>8 DEF Under
<1>10. SpinnerHasFetch'
  BY <1>1, <1>3, <1>5, <1>8, <1>9 DEF SpinnerHasFetch, Waiting
<1>11. DeskTypes'
  BY <1>1, <1>7 DEF DeskInv, DeskTypes
<1>12. ASSUME alone PROVE AloneInv' /\ FormOpenInv'
  <2>1. AloneInv /\ FormOpenInv
    BY <1>12 DEF DeskInv
  <2>2. Matching(filter)' = Matching(filter)
    BY <1>1, SameTable
  <2>3. LoadInv(d)' /\ PaidInv(d)' /\ EditedInv(d)'
    <3>1. c.want = filter
      BY <1>1, <1>3, <2>1 DEF AloneInv, LoadInv
    <3> QED BY <1>1, <1>3, <1>4, <1>5, <2>2, <3>1 DEF LoadInv, PaidInv, EditedInv
  <2>4. \A m \in Under : m # n => LoadInv(calls[m])' /\ PaidInv(calls[m])' /\ EditedInv(calls[m])'
    <3> SUFFICES ASSUME NEW m \in Under, m # n
                 PROVE  LoadInv(calls[m])' /\ PaidInv(calls[m])' /\ EditedInv(calls[m])'
      OBVIOUS
    <3>1. calls[m].kind = "fetch" /\ LoadInv(calls[m]) /\ m \in DOMAIN calls
      BY <1>1, <2>1 DEF AloneInv, Under
    <3>2. calls'[m] = calls[m]
      BY <1>8, <3>1
    <3> QED BY <1>1, <2>2, <3>1, <3>2 DEF LoadInv, PaidInv, EditedInv
  <2>5. \A m, l \in Under' : m # l => calls'[m].kind = "fetch"
    BY <1>3, <1>5, <1>8, <1>9, <2>1 DEF AloneInv, Under
  <2>6. Under' # {}
    BY <1>1, <1>9
  <2>7. AloneInv'
    <3>1. LoadInv(calls[n])' /\ PaidInv(calls[n])' /\ EditedInv(calls[n])'
      BY <1>8, <2>3 DEF LoadInv, PaidInv, EditedInv, Agrees, Written
    <3> QED BY <1>9, <2>4, <2>5, <2>6, <3>1 DEF AloneInv
  <2>8. FormOpenInv'
    <3>1. \A m \in Under : calls'[m].kind = calls[m].kind /\ calls'[m].id = calls[m].id
      BY <1>3, <1>5, <1>8 DEF Under
    <3> QED BY <1>1, <1>9, <2>1, <3>1 DEF FormOpenInv, Closes
  <2> QED BY <2>7, <2>8
<1> QED BY <1>1, <1>10, <1>11, <1>12 DEF DeskInv

LEMMA ServeChangeStep ==
  ASSUME DeskInv, NEW n \in Under \ Waiting, Serve(n)
  PROVE  DeskInv'
<1>1. /\ n \in Under /\ n \in DOMAIN calls /\ calls[n].stage = "sent"
      /\ UNCHANGED <<alone, filter, list, loading, picked, editing, missed>>
  BY DEF Serve, Under
<1>2. calls \in Seq(DeskCalls) /\ rows \in [Invoices -> Statuses \cup {"gone"}]
  BY DEF DeskInv, DeskTypes
<1>3. PICK c \in DeskCalls : c = calls[n]
  BY <1>1, <1>2
<1>4. c.kind \in {"pay", "unpay", "delete", "save"}
  BY <1>1, <1>3 DEF Waiting, Under, DeskCalls
<1>5. PICK g \in {"served", "refused"} :
        /\ calls' = [calls EXCEPT ![n].stage = g]
        /\ IF g = "served" THEN rows' = [rows EXCEPT ![c.id] = Written(c)] ELSE rows' = rows
  BY <1>3, <1>4 DEF Serve
<1> DEFINE d == [c EXCEPT !.stage = g]
<1>6. d \in DeskCalls /\ d.kind = c.kind /\ d.id = c.id /\ d.before = c.before /\ d.stage = g /\ Written(d) = Written(c)
  BY DEF DeskCalls, Written
<1>7. calls' = [calls EXCEPT ![n] = d]
  BY <1>1, <1>2, <1>3, <1>5
<1> HIDE DEF d
<1>8. calls' \in Seq(DeskCalls)
  BY ONLY <1>1, <1>2, <1>6, <1>7, UpdatedSeq
<1>9. DOMAIN calls' = DOMAIN calls /\ calls'[n] = d /\ \A m \in DOMAIN calls : m # n => calls'[m] = calls[m]
  BY <1>1, <1>2, <1>7
<1>10. Under' = Under
  BY <1>3, <1>6, <1>9 DEF Under
<1>11. SpinnerHasFetch'
  <2>1. \A m \in Under : calls'[m].kind = calls[m].kind
    BY <1>3, <1>6, <1>9 DEF Under
  <2>2. Waiting' = Waiting
    BY <1>10, <2>1 DEF Waiting
  <2> QED BY <1>1, <2>2 DEF DeskInv, SpinnerHasFetch
<1>12. PICK w \in Statuses \cup {"gone"} : w = Written(c) /\ (c.kind \in {"pay", "unpay"} => w \in Statuses)
  BY <1>4 DEF Written, Statuses
<1>13. DeskTypes'
  <2>1. rows' \in [Invoices -> Statuses \cup {"gone"}]
    BY <1>2, <1>5, <1>12
  <2> QED BY <1>1, <1>8, <2>1 DEF DeskInv, DeskTypes
<1>14. ASSUME alone PROVE AloneInv' /\ FormOpenInv'
  <2>1. AloneInv /\ FormOpenInv
    BY <1>14 DEF DeskInv
  <2>2. Under = {n}
    BY <1>1, <1>3, <1>4, <2>1 DEF AloneInv
  <2>3. PaidInv(c) /\ EditedInv(c)
    BY <1>3, <2>1, <2>2 DEF AloneInv
  <2>4. LoadInv(d)'
    BY <1>4, <1>6 DEF LoadInv
  <2>5. EditedInv(d)'
    <3>1. CASE g = "served"
      BY <1>6, <2>3, <3>1 DEF EditedInv
    <3>2. CASE g = "refused"
      <4>1. Agrees(list)' = Agrees(list)
        BY <1>1, <1>5, <3>2 DEF Agrees, Matching
      <4> QED BY <1>1, <1>3, <1>6, <2>3, <3>2, <4>1 DEF EditedInv
    <3> QED BY <3>1, <3>2
  <2>6. PaidInv(d)'
    <3> SUFFICES ASSUME c.kind \in {"pay", "unpay"}
                 PROVE  ~missed' => IF g = "served" THEN Agrees(list)' ELSE Agrees(c.before)'
      <4>1. c.kind \in {"pay", "unpay"} => c.id \in DOMAIN c.before /\ list = [c.before EXCEPT ![c.id] = Written(c)]
        BY <2>3 DEF PaidInv
      <4> QED BY <1>1, <1>6, <4>1 DEF PaidInv, Agrees, Matching, Written
    <3>1. /\ c.id \in DOMAIN c.before /\ list = [c.before EXCEPT ![c.id] = w] /\ c.before \in Lists /\ w \in Statuses
          /\ ~missed => Agrees(c.before)
      BY <1>1, <1>3, <1>12, <2>3 DEF PaidInv, DeskCalls
    <3>2. CASE g = "refused"
      <4>1. \A l : Agrees(l)' = Agrees(l)
        BY <1>1, <1>5, <3>2, SameTable
      <4>2. PICK b : b = c.before
        OBVIOUS
      <4> QED BY <1>1, <3>1, <3>2, <4>1, <4>2
    <3>3. CASE g = "served"
      <4> SUFFICES ASSUME ~missed PROVE Agrees(list)'
        BY <1>1, <3>3
      <4>1. /\ DOMAIN list = DOMAIN c.before /\ DOMAIN list \subseteq Invoices /\ c.id \in DOMAIN list
            /\ \A i \in DOMAIN list : list[i] = IF i = c.id THEN w ELSE c.before[i]
        BY <3>1, ListSet, ListIn
      <4>2. \A i \in Invoices : rows'[i] = IF i = c.id THEN w ELSE rows[i]
        BY <1>2, <1>5, <1>12, <3>3
      <4>3. \A i \in DOMAIN list : list[i] = rows'[i]
        BY <3>1, <4>1, <4>2 DEF Agrees
      <4>4. DOMAIN Matching(filter)' \subseteq DOMAIN list
        <5> SUFFICES ASSUME NEW i \in Invoices, i # c.id, rows'[i] # "gone",
                            filter.house \in {Every, HouseOf[i]}, filter.status \in {Every, rows'[i]}
                     PROVE  i \in DOMAIN list
          BY <1>1, <4>1 DEF Matching
        <5>1. i \in DOMAIN Matching(filter)
          BY <4>2 DEF Matching
        <5> QED BY <3>1, <4>1, <5>1 DEF Agrees
      <4> QED BY <1>1, <4>3, <4>4 DEF Agrees
    <3> QED BY <3>2, <3>3
  <2>7. AloneInv'
    <3>1. LoadInv(calls[n])' /\ PaidInv(calls[n])' /\ EditedInv(calls[n])'
      BY <1>9, <2>4, <2>5, <2>6 DEF LoadInv, PaidInv, EditedInv, Agrees, Written
    <3> QED BY <1>10, <2>2, <3>1 DEF AloneInv
  <2>8. FormOpenInv'
    BY <1>1, <1>3, <1>6, <1>9, <1>10, <2>1, <2>2 DEF FormOpenInv, Closes
  <2> QED BY <2>7, <2>8
<1> QED BY <1>1, <1>11, <1>13, <1>14 DEF DeskInv

LEMMA PaidElsewhereStep ==
  ASSUME DeskInv, NEW i \in Invoices, PaidElsewhere(i)
  PROVE  DeskInv'
<1>1. /\ ~alone' /\ rows' = [rows EXCEPT ![i] = "PAID"]
      /\ UNCHANGED <<filter, list, loading, calls, picked, editing>>
  BY DEF PaidElsewhere
<1>2. DeskTypes'
  BY <1>1 DEF DeskInv, DeskTypes, Statuses
<1>3. SpinnerHasFetch'
  BY <1>1 DEF DeskInv, SpinnerHasFetch, Waiting, Under
<1> QED BY <1>1, <1>2, <1>3 DEF DeskInv

\* The requests once the n-th has ended.
RequestEnded(n) ==
  /\ calls' \in Seq(DeskCalls) /\ Under' = Under \ {n}
  /\ \A m \in Under \ {n} : SameRequest(calls'[m], calls[m])

LEMMA EndsQuietly ==
  ASSUME calls \in Seq(DeskCalls), NEW n \in Under, calls' = Without(n)
  PROVE  RequestEnded(n)
<1>1. /\ Without(n) \in Seq(DeskCalls) /\ Live(Without(n)) = Under \ {n}
      /\ \A m \in Under \ {n} : Without(n)[m] = calls[m]
  BY WithoutOne
<1>2. Under' = Live(Without(n))
  BY DEF Under, Live
<1> QED BY <1>1, <1>2 DEF RequestEnded, SameRequest

LEMMA EndsHeard ==
  ASSUME calls \in Seq(DeskCalls), NEW n \in Under, NEW l, NEW id, NEW edit, calls' = Heard(Without(n), l, id, edit)
  PROVE  RequestEnded(n)
<1>1. PICK w \in Seq(DeskCalls) : /\ w = Without(n) /\ Live(w) = Under \ {n}
                                  /\ \A m \in Under \ {n} : w[m] = calls[m]
  BY WithoutOne
<1>2. /\ Heard(w, l, id, edit) \in Seq(DeskCalls) /\ Live(Heard(w, l, id, edit)) = Live(w)
      /\ \A m \in Live(w) : SameRequest(Heard(w, l, id, edit)[m], w[m])
  BY HeardSame
<1>3. PICK h : h = Heard(w, l, id, edit)
  OBVIOUS
<1>4. calls' = h
  BY <1>1, <1>3
<1>5. Under' = Live(h)
  BY <1>4 DEF Under, Live
<1> QED BY <1>1, <1>2, <1>3, <1>4, <1>5 DEF RequestEnded

LEMMA FetchEndsStep ==
  ASSUME DeskInv, NEW n \in Waiting, NEW l \in Lists, NEW lost \in BOOLEAN, FetchEnds(n, l, lost),
         alone /\ ~lost => Agrees(l)
  PROVE  DeskInv'
<1>1. /\ n \in Under /\ calls[n].kind \in {"fetch", "refresh"}
      /\ list' = l /\ loading' = FALSE /\ missed' = (alone /\ lost)
      /\ UNCHANGED <<alone, rows, filter>>
  BY DEF FetchEnds, Waiting
<1>2. PICK id, edit : /\ id = (IF Closes(calls[n]) THEN NoInvoice ELSE picked)
                      /\ edit = (IF Closes(calls[n]) THEN FALSE ELSE editing)
                      /\ picked' = id /\ editing' = edit /\ calls' = Heard(Without(n), l, id, edit)
  BY DEF FetchEnds
<1>3. RequestEnded(n)
  BY <1>1, <1>2, EndsHeard DEF DeskInv, DeskTypes
<1>4. DeskTypes'
  BY <1>1, <1>2, <1>3 DEF DeskInv, DeskTypes, RequestEnded
<1>5. SpinnerHasFetch'
  BY <1>1 DEF SpinnerHasFetch
<1>6. ASSUME alone PROVE AloneInv' /\ FormOpenInv'
  <2>1. ~missed' => Agrees(list)'
    <3>1. Agrees(l)' = Agrees(l)
      BY <1>1, SameTable
    <3> QED BY <1>1, <1>6, <3>1 DEF Agrees
  <2>2. AloneInv'
    BY <1>1, <1>3, <1>6, <2>1, EndsAlone DEF DeskInv, RequestEnded
  <2>3. ~editing'
    BY <1>1, <1>2, <1>6 DEF DeskInv, FormOpenInv
  <2> QED BY <2>2, <2>3 DEF FormOpenInv
<1> QED BY <1>1, <1>4, <1>5, <1>6 DEF DeskInv

LEMMA FetchSteps ==
  ASSUME DeskInv, NEW n, FetchAnswered(n) \/ FetchFails(n)
  PROVE  DeskInv'
<1>1. CASE FetchAnswered(n)
  <2>1. n \in Waiting /\ n \in Under /\ calls[n].stage = "served" /\ calls[n].kind \in {"fetch", "refresh"} /\ n \in DOMAIN calls
    BY <1>1 DEF FetchAnswered, Waiting, Under
  <2>2. PICK l \in Lists : l = calls[n].reply /\ FetchEnds(n, l, FALSE)
    <3>1. calls[n] \in DeskCalls
      BY <2>1 DEF DeskInv, DeskTypes
    <3> QED BY <1>1, <3>1 DEF FetchAnswered, DeskCalls
  <2>3. ASSUME alone PROVE Agrees(l)
    <3>1. l = Matching(filter)
      BY <2>1, <2>2, <2>3 DEF DeskInv, AloneInv, LoadInv
    <3>2. \A i \in DOMAIN Matching(filter) : Matching(filter)[i] = rows[i]
      BY MatchingIn DEF DeskInv, DeskTypes
    <3> QED BY <3>1, <3>2 DEF Agrees
  <2> QED BY <2>1, <2>2, <2>3, FetchEndsStep
<1>2. CASE FetchFails(n)
  <2>1. n \in Waiting /\ list \in Lists /\ FetchEnds(n, list, TRUE)
    BY <1>2 DEF FetchFails, DeskInv, DeskTypes
  <2>2. PICK l \in Lists : l = list
    BY <2>1
  <2>3. FetchEnds(n, l, TRUE)
    BY <2>1, <2>2
  <2> QED BY <2>1, <2>3, FetchEndsStep
<1> QED BY <1>1, <1>2

\* A change ends, with the list it leaves.
LEMMA ChangeEnds ==
  ASSUME DeskInv, NEW n \in Under \ Waiting, RequestEnded(n), list' \in Lists,
         DOMAIN list' = DOMAIN list \/ calls[n].kind # "save",
         UNCHANGED <<alone, rows, filter, loading, picked, editing>>,
         alone /\ ~missed' => Agrees(list)'
  PROVE  DeskInv'
<1>1. DeskTypes'
  BY DEF DeskInv, DeskTypes, RequestEnded
<1>2. SpinnerHasFetch'
  BY DEF DeskInv, SpinnerHasFetch, Waiting, RequestEnded, SameRequest
<1>3. ASSUME alone PROVE AloneInv' /\ FormOpenInv'
  <2>1. AloneInv'
    BY <1>3, EndsAlone DEF DeskInv, RequestEnded
  <2>2. Under' = {}
    <3>1. calls[n].kind # "fetch" /\ n \in Under
      BY DEF Waiting
    <3> QED BY <1>3, <3>1 DEF DeskInv, AloneInv, RequestEnded
  <2>3. editing => picked \in DOMAIN list /\ calls[n].kind = "save"
    BY <1>3 DEF DeskInv, FormOpenInv, Waiting, Closes
  <2> QED BY <2>1, <2>2, <2>3 DEF FormOpenInv
<1> QED BY <1>1, <1>2, <1>3 DEF DeskInv

LEMMA PaySteps ==
  ASSUME DeskInv, NEW n, PayAnswered(n) \/ PayFails(n)
  PROVE  DeskInv'
<1>1. /\ n \in Under \ Waiting /\ n \in DOMAIN calls /\ calls[n].kind \in {"pay", "unpay"}
      /\ UNCHANGED <<alone, rows, filter, loading, picked, editing>>
  BY DEF PayAnswered, PayFails, Under
<1>2. calls \in Seq(DeskCalls) /\ list \in Lists /\ calls[n] \in DeskCalls
  BY <1>1 DEF DeskInv, DeskTypes
<1>3. ASSUME alone PROVE PaidInv(calls[n])
  BY <1>1, <1>3 DEF DeskInv, AloneInv
<1>4. CASE PayAnswered(n)
  <2>1. calls' = Without(n) /\ list' = list /\ missed' = missed /\ calls[n].stage = "served"
    BY <1>4 DEF PayAnswered
  <2>2. RequestEnded(n)
    BY <1>1, <1>2, <2>1, EndsQuietly
  <2>3. ASSUME alone, ~missed PROVE Agrees(list)'
    <3>1. Agrees(list)
      BY <1>1, <1>3, <2>1, <2>3 DEF PaidInv
    <3> QED BY <1>1, <2>1, <3>1 DEF Agrees, Matching
  <2> QED BY <1>1, <1>2, <2>1, <2>2, <2>3, ChangeEnds
<1>5. CASE PayFails(n)
  <2>1. PICK b \in Lists : b = calls[n].before /\ list' = b
    BY <1>2, <1>5 DEF PayFails, DeskCalls
  <2>2. PICK id, edit : id = picked /\ edit = editing
    OBVIOUS
  <2>3. calls' = Heard(Without(n), b, id, edit) /\ missed' = (missed \/ AnswerLost(n))
    BY <1>5, <2>1, <2>2 DEF PayFails
  <2>4. RequestEnded(n)
    BY <1>1, <1>2, <2>3, EndsHeard
  <2>5. ASSUME alone, ~missed' PROVE Agrees(list)'
    <3>1. Agrees(b)
      BY <1>1, <1>3, <2>1, <2>3, <2>5 DEF PaidInv, AnswerLost
    <3>2. Agrees(b)' = Agrees(b)
      BY <1>1, SameTable
    <3> QED BY <2>1, <3>1, <3>2 DEF Agrees
  <2>6. calls[n].kind # "save"
    BY <1>1
  <2> QED BY <1>1, <2>1, <2>4, <2>5, <2>6, ChangeEnds
<1> QED BY <1>4, <1>5

LEMMA ChangeFailsStep ==
  ASSUME DeskInv, NEW n, ChangeFails(n)
  PROVE  DeskInv'
<1>1. /\ n \in Under \ Waiting /\ calls[n].kind \in {"delete", "save"} /\ calls' = Without(n)
      /\ missed' = (missed \/ AnswerLost(n))
      /\ UNCHANGED <<alone, rows, filter, list, loading, picked, editing>>
  BY DEF ChangeFails
<1>2. calls \in Seq(DeskCalls) /\ list' \in Lists /\ DOMAIN list' = DOMAIN list
  BY <1>1 DEF DeskInv, DeskTypes
<1>3. RequestEnded(n)
  BY <1>1, <1>2, EndsQuietly
<1>4. ASSUME alone, ~missed' PROVE Agrees(list)'
  <2>1. Agrees(list)
    BY <1>1, <1>4 DEF DeskInv, AloneInv, EditedInv, AnswerLost
  <2> QED BY <1>1, <2>1 DEF Agrees, Matching
<1> QED BY <1>1, <1>2, <1>3, <1>4, ChangeEnds

LEMMA ChangeAnsweredStep ==
  ASSUME DeskInv, NEW n, ChangeAnswered(n)
  PROVE  DeskInv'
<1>1. /\ n \in Under \ Waiting /\ n \in DOMAIN calls /\ calls[n].kind \in {"delete", "save"} /\ loading' = TRUE
      /\ UNCHANGED <<alone, rows, filter, list, picked, editing, missed>>
  BY DEF ChangeAnswered, Under
<1>2. calls \in Seq(DeskCalls) /\ filter \in Filters
  BY DEF DeskInv, DeskTypes
<1>3. PICK c \in DeskCalls : c = calls[n]
  BY <1>1, <1>2
<1>4. PICK f \in DeskCalls : f = Fetch(filter) /\ f.want = filter /\ f.stage = "sent"
  BY <1>2, DeskConstants
<1>5. PICK i \in Invoices \cup {NoInvoice} : i = IF c.kind = "save" THEN c.id ELSE NoInvoice
  BY DEF DeskCalls
<1> DEFINE d == [f EXCEPT !.kind = "refresh", !.mine = c.mine, !.id = i]
<1>6. d \in DeskCalls /\ d.kind = "refresh" /\ d.id = i /\ d.want = filter /\ d.stage = "sent"
  BY <1>4 DEF DeskCalls
<1>7. calls' = [calls EXCEPT ![n] = d]
  BY <1>3, <1>4, <1>5 DEF ChangeAnswered
<1> HIDE DEF d
<1>8. calls' \in Seq(DeskCalls)
  BY ONLY <1>1, <1>2, <1>6, <1>7, UpdatedSeq
<1>9. DOMAIN calls' = DOMAIN calls /\ calls'[n] = d /\ \A m \in DOMAIN calls : m # n => calls'[m] = calls[m]
  BY <1>1, <1>2, <1>7
<1>10. Under' = Under
  BY <1>1, <1>6, <1>9 DEF Under
<1>11. SpinnerHasFetch'
  BY <1>1, <1>6, <1>9, <1>10 DEF SpinnerHasFetch, Waiting
<1>12. DeskTypes'
  BY <1>1, <1>8 DEF DeskInv, DeskTypes
<1>13. ASSUME alone PROVE AloneInv' /\ FormOpenInv'
  <2>1. AloneInv /\ FormOpenInv
    BY <1>13 DEF DeskInv
  <2>2. Under = {n}
    BY <1>1, <2>1 DEF AloneInv
  <2>3. LoadInv(calls[n])' /\ PaidInv(calls[n])' /\ EditedInv(calls[n])'
    BY <1>1, <1>6, <1>9 DEF LoadInv, PaidInv, EditedInv
  <2>4. AloneInv'
    BY <1>10, <2>2, <2>3 DEF AloneInv
  <2>5. FormOpenInv'
    <3> SUFFICES ASSUME editing PROVE Closes(d) /\ picked \in DOMAIN list
      BY <1>1, <1>9, <1>10, <2>2 DEF FormOpenInv, Closes
    <3>1. c.kind = "save" /\ picked \in DOMAIN list
      BY <1>1, <1>3, <2>1, <2>2 DEF FormOpenInv, Closes
    <3>2. c.id \in Invoices
      BY <1>3, <2>1, <2>2, <3>1 DEF AloneInv, EditedInv
    <3> QED BY <1>5, <1>6, <3>1, <3>2, DeskConstants DEF Closes
  <2> QED BY <2>4, <2>5
<1> QED BY <1>1, <1>11, <1>12, <1>13 DEF DeskInv

-----------------------------------------------------------------------------
LEMMA DeskInvInit == DeskInit => DeskInv
<1> SUFFICES ASSUME DeskInit PROVE DeskInv
  OBVIOUS
<1>1. /\ rows \in [Invoices -> Statuses] /\ filter = NoFilter /\ list = Empty /\ loading = TRUE
      /\ picked = NoInvoice /\ editing = FALSE
  BY DEF DeskInit
<1>2. PICK c \in DeskCalls : c = [NoCall EXCEPT !.kind = "fetch"] /\ c.kind = "fetch" /\ c.stage = "sent" /\ c.want = NoFilter
  <2>1. NoCall \in DeskCalls /\ NoCall.stage = "sent" /\ NoCall.want = NoFilter
    BY DeskConstants DEF NoCall
  <2>2. PICK d : d = NoCall
    OBVIOUS
  <2>3. d \in DeskCalls /\ d.stage = "sent" /\ d.want = NoFilter
    BY <2>1, <2>2
  <2>4. /\ [d EXCEPT !.kind = "fetch"] \in DeskCalls /\ [d EXCEPT !.kind = "fetch"].kind = "fetch"
        /\ [d EXCEPT !.kind = "fetch"].stage = "sent" /\ [d EXCEPT !.kind = "fetch"].want = NoFilter
    BY <2>3 DEF DeskCalls
  <2> QED BY <2>2, <2>4
<1>3. calls = <<c>>
  BY <1>2 DEF DeskInit
<1>4. calls \in Seq(DeskCalls) /\ Under = {1} /\ calls[1] = c
  <2>1. calls \in Seq(DeskCalls) /\ DOMAIN calls = {1} /\ calls[1] = c
    BY ONLY <1>3, c \in DeskCalls
  <2> QED BY <1>2, <2>1 DEF Under
<1>5. DeskTypes
  BY <1>1, <1>4, DeskConstants DEF DeskTypes
<1>6. SpinnerHasFetch
  BY <1>2, <1>4 DEF SpinnerHasFetch, Waiting
<1>7. AloneInv
  BY <1>1, <1>2, <1>4 DEF AloneInv, LoadInv, PaidInv, EditedInv
<1>8. FormOpenInv
  BY <1>1 DEF FormOpenInv
<1> QED BY <1>5, <1>6, <1>7, <1>8 DEF DeskInv

LEMMA DeskInvStep == DeskInv /\ [DeskNext]_deskVars => DeskInv'
<1>1. ASSUME DeskInv, UNCHANGED deskVars PROVE DeskInv'
  <2>1. UNCHANGED <<alone, rows, filter, list, loading, calls, picked, editing, missed>>
    BY <1>1 DEF deskVars
  <2> QED BY <1>1, <2>1 DEF DeskInv, DeskTypes, SpinnerHasFetch, Waiting, Under, AloneInv, FormOpenInv, LoadInv, PaidInv,
                            EditedInv, Agrees, Matching, Written, Closes
<1>2. ASSUME DeskInv, DeskNext PROVE DeskInv'
  <2>1. CASE \E f \in Filters : SetFilter(f)
    BY <1>2, <2>1, SetFilterStep
  <2>2. CASE (\E i \in Invoices : Delete(i)) \/ SaveEdit
    BY <1>2, <2>2, ChangeSteps
  <2>3. CASE \E i \in Invoices : PaidElsewhere(i)
    BY <1>2, <2>3, PaidElsewhereStep
  <2>4. CASE (\E i \in Invoices, edit \in BOOLEAN : OpenRow(i, edit)) \/ EditFromDetail \/ CloseModal
    BY <1>2, <2>4, ClickSteps
  <2>5. CASE \E k \in {"pay", "unpay"} : Pay(k)
    BY <1>2, <2>5, PayStep
  <2>6. ASSUME NEW n \in DOMAIN calls, Serve(n) PROVE DeskInv'
    <3>1. n \in Under
      BY <2>6 DEF Serve
    <3> QED BY <1>2, <2>6, <3>1, ServeFetchStep, ServeChangeStep
  <2>7. ASSUME NEW n \in DOMAIN calls,
               FetchAnswered(n) \/ FetchFails(n) \/ PayAnswered(n) \/ PayFails(n) \/ ChangeAnswered(n) \/ ChangeFails(n)
        PROVE  DeskInv'
    BY <1>2, <2>7, FetchSteps, PaySteps, ChangeAnsweredStep, ChangeFailsStep
  <2> QED BY <1>2, <2>1, <2>2, <2>3, <2>4, <2>5, <2>6, <2>7 DEF DeskNext
<1> QED BY <1>1, <1>2

LEMMA DeskInvHolds == DeskInv => ListHolds
<1> SUFFICES ASSUME DeskInv PROVE ListHolds
  OBVIOUS
<1>1. ListIsServer
  BY DEF DeskInv, AloneInv, Agrees, ListIsServer
<1>2. EditHasRow
  BY DEF DeskInv, FormOpenInv, EditHasRow
<1> QED BY <1>1, <1>2 DEF DeskInv, ListHolds

(* A manager who awaits each answer sees the server's invoices: once all is   *)
(* answered, every listed row has its status on the server and every row the  *)
(* filter asks for is listed, unless an answer was lost; no spinner is left   *)
(* without a fetch, and no edit form without its row.                         *)
THEOREM ListIsTrue == Spec => []ListHolds
<1>1. Init => DeskInv
  BY PartsInit, DeskInvInit
<1>2. DeskInv /\ [Next]_vars => DeskInv'
  BY PartsStep, DeskInvStep
<1>3. DeskInv => ListHolds
  BY DeskInvHolds
<1> QED BY <1>1, <1>2, <1>3, PTL DEF Spec

-----------------------------------------------------------------------------
(* The sheet of meter readings.                                               *)

\* One load at most is under way, for the house and the period on screen.
LoadsInv ==
  /\ \A n, m \in Loading : n = m
  /\ \A n \in Loading :
       /\ loads[n].house = modal.house /\ loads[n].period = modal.period
       /\ loads[n].stage = "invoices" => modal.rooms = IF loads[n].found THEN modal.house ELSE NoHome
  /\ modal.saving \/ modal.house = NoHome => Loading = {}
  /\ suggesting => ~modal.saving

\* Rows at rest were read or typed for the period on screen.
SheetInv ==
  Loading = {} =>
    /\ modal.house # NoHome => modal.typed = modal.period
    /\ \A r \in Rooms : sheet[r].saved => entries[r, modal.period].value = sheet[r].value

\* A request of the save carries its row as it still is; a row with a reading is
\* ticked, on its way, or its failure is remembered.
RequestInv(q) ==
  /\ q.period = modal.period /\ q.typed = modal.period
  /\ ~sheet[q.room].saved /\ q.value = sheet[q.room].value
  /\ q.stored => entries[q.room, q.period].value = q.value
BatchInv ==
  /\ batch.left # {} => modal.saving
  /\ \A q \in batch.left : RequestInv(q)
  /\ \A q, s \in batch.left : q.room = s.room => q = s
  /\ modal.saving /\ ~batch.errors =>
       \A r \in Rooms : HomeOf[r] = modal.rooms /\ sheet[r].value # 0 =>
         sheet[r].saved \/ \E q \in batch.left : q.room = r

DatesInv == \A r \in Rooms, p \in Periods : entries[r, p].typed \in {0, p}
CalmInv == LoadsInv /\ SheetInv /\ BatchInv /\ DatesInv
TickInv == QuickTypeOK /\ (patient /\ ~failed => CalmInv)

LoadRecords == [house : HomeSet, period : Periods, found : BOOLEAN, stage : {"rooms", "invoices", "done"}]
SheetEntries == [Rooms \X Periods -> [value : Readings \cup {0}, typed : Periods \cup {0}, paid : BOOLEAN]]
Modals == [open : BOOLEAN, house : HomeSet \cup {NoHome}, period : Periods,
           rooms : HomeSet \cup {NoHome}, fetching : BOOLEAN, saving : BOOLEAN, dirty : BOOLEAN,
           asking : BOOLEAN, typed : Periods]
Requests == [room : Rooms, period : Periods, value : Readings, typed : Periods, stored : BOOLEAN]
Batches == [left : SUBSET Requests, errors : BOOLEAN, count : 0..MaxBatches]

LEMMA QuickTypes ==
  QuickTypeOK <=>
    /\ patient \in BOOLEAN /\ entries \in SheetEntries /\ modal \in Modals
    /\ sheet \in [Rooms -> Row] /\ oldIndex \in [Rooms -> Readings \cup {0}]
    /\ loads \in Seq(LoadRecords) /\ batch \in Batches
    /\ suggesting \in BOOLEAN /\ failed \in BOOLEAN
BY DEF QuickTypeOK, LoadRecords, SheetEntries, Modals, Requests, Batches

LEMMA RowTypes == NoRow \in Row /\ NoRow.saved = FALSE /\ NoRow.value = 0
BY DEF NoRow, Row

\* The load that is under way, and how the list of loads changes.
LoadAdded(h, p) ==
  \E n \in Nat \ Loading :
    /\ Loading' = Loading \cup {n}
    /\ loads'[n].house = h /\ loads'[n].period = p /\ loads'[n].stage = "rooms"
    /\ \A m \in Loading : loads'[m] = loads[m]

LEMMA LoadAdding ==
  ASSUME loads \in Seq(LoadRecords), NEW h \in HomeSet, NEW p \in Periods,
         loads' = Append(loads, [house |-> h, period |-> p, found |-> FALSE, stage |-> "rooms"])
  PROVE  loads' \in Seq(LoadRecords) /\ LoadAdded(h, p)
<1> DEFINE q == [house |-> h, period |-> p, found |-> FALSE, stage |-> "rooms"]
<1>0. q \in LoadRecords /\ q.house = h /\ q.period = p /\ q.stage = "rooms"
  BY DEF LoadRecords
<1> HIDE DEF q
<1>1. PICK k \in Nat : k = Len(loads)
  OBVIOUS
<1>2. /\ loads' \in Seq(LoadRecords) /\ Len(loads') = k + 1 /\ loads'[k + 1] = q
      /\ \A n \in 1..k : loads'[n] = loads[n]
  BY <1>0, <1>1 DEF q
<1>3. DOMAIN loads = 1..k /\ DOMAIN loads' = 1..(k + 1)
  BY <1>1, <1>2
<1>4. \A n : n \in Loading <=> n \in 1..k /\ loads[n].stage # "done"
  BY <1>3 DEF Loading
<1>5. \A n : n \in Loading' <=> n \in 1..(k + 1) /\ loads'[n].stage # "done"
  BY <1>3 DEF Loading
<1>6. Loading \subseteq 1..k /\ k + 1 \notin Loading
  BY <1>4
<1>7. k + 1 \in Loading'
  BY <1>0, <1>2, <1>5
<1>8. \A n \in 1..k : n \in Loading' <=> n \in Loading
  BY <1>2, <1>4, <1>5
<1>9. Loading' = Loading \cup {k + 1}
  <2>1. \A n : n \in 1..(k + 1) <=> n \in 1..k \/ n = k + 1
    OBVIOUS
  <2> QED BY <1>5, <1>6, <1>7, <1>8, <2>1
<1>10. \A n \in Loading : loads'[n] = loads[n]
  BY <1>2, <1>6
<1> QED BY <1>0, <1>1, <1>2, <1>6, <1>9, <1>10 DEF LoadAdded

LoadMoved(n, stage, found) ==
  /\ loads'[n].stage = stage /\ loads'[n].found = found
  /\ loads'[n].house = loads[n].house /\ loads'[n].period = loads[n].period
  /\ Loading' = IF stage = "done" THEN Loading \ {n} ELSE Loading
  /\ \A m \in Loading : m # n => loads'[m] = loads[m]

LEMMA LoadMoving ==
  ASSUME loads \in Seq(LoadRecords), NEW n \in Loading, NEW stage \in {"invoices", "done"}, NEW found \in BOOLEAN,
         loads' = [loads EXCEPT ![n].stage = stage, ![n].found = found]
  PROVE  loads' \in Seq(LoadRecords) /\ LoadMoved(n, stage, found)
<1> DEFINE q == [[loads[n] EXCEPT !.stage = stage] EXCEPT !.found = found]
<1>0. n \in DOMAIN loads /\ loads[n] \in LoadRecords
  BY DEF Loading
<1>1. /\ q \in LoadRecords /\ q.house = loads[n].house /\ q.period = loads[n].period
      /\ q.stage = stage /\ q.found = found
  BY <1>0 DEF LoadRecords
<1>2. loads' = [loads EXCEPT ![n] = q]
  BY <1>0
<1> HIDE DEF q
<1>3. loads' \in Seq(LoadRecords) /\ DOMAIN loads' = DOMAIN loads /\ loads'[n] = q
  <2>1. DOMAIN loads' = DOMAIN loads /\ loads'[n] = q
    BY <1>0, <1>2
  <2>2. q \in LoadRecords
    BY <1>1
  <2>3. loads' \in Seq(LoadRecords)
    <3>1. loads \in Seq(LoadRecords)
      OBVIOUS
    <3>2. [loads EXCEPT ![n] = q] \in Seq(LoadRecords)
      BY ONLY <1>0, <2>2, <3>1, UpdatedSeq
    <3> QED BY ONLY <1>2, <3>2
  <2> QED BY <2>1, <2>3
<1>4. \A m \in DOMAIN loads : m # n => loads'[m] = loads[m]
  BY <1>2
<1>5. \A m : m \in Loading <=> m \in DOMAIN loads /\ loads[m].stage # "done"
  BY DEF Loading
<1>6. \A m : m \in Loading' <=> m \in DOMAIN loads /\ loads'[m].stage # "done"
  BY <1>3 DEF Loading
<1>7. Loading' = IF stage = "done" THEN Loading \ {n} ELSE Loading
  <2>1. n \in Loading' <=> stage # "done"
    BY <1>1, <1>3, <1>6
  <2>2. \A m : m # n => (m \in Loading' <=> m \in Loading)
    BY <1>4, <1>5, <1>6
  <2> HIDE DEF Loading
  <2> QED BY ONLY <2>1, <2>2, n \in Loading
<1>8. \A m \in Loading : m # n => loads'[m] = loads[m]
  BY <1>4, <1>5
<1> QED BY <1>1, <1>3, <1>7, <1>8 DEF LoadMoved

LEMMA LoadEnding ==
  ASSUME loads \in Seq(LoadRecords), NEW n \in Loading, loads' = Ended(n)
  PROVE  loads' \in Seq(LoadRecords) /\ LoadMoved(n, "done", loads[n].found)
<1>1. n \in DOMAIN loads /\ loads[n] \in LoadRecords
  BY DEF Loading
<1>2. PICK found \in BOOLEAN : found = loads[n].found
  BY <1>1 DEF LoadRecords
<1>3. [loads[n] EXCEPT !.stage = "done"] = [[loads[n] EXCEPT !.stage = "done"] EXCEPT !.found = found]
  BY <1>1, <1>2 DEF LoadRecords
<1>4. loads' = [loads EXCEPT ![n].stage = "done", ![n].found = found]
  BY <1>1, <1>3 DEF Ended
<1> QED BY <1>2, <1>4, LoadMoving

\* What the effect on house and period does.
Showing(h, p) ==
  /\ modal' \in Modals /\ sheet' \in [Rooms -> Row]
  /\ oldIndex' \in [Rooms -> Readings \cup {0}] /\ loads' \in Seq(LoadRecords)
  /\ modal'.house = h /\ modal'.period = p /\ modal'.saving = modal.saving
  /\ h = NoHome => Loading' = Loading /\ loads' = loads /\ \A r \in Rooms : sheet'[r] = NoRow
  /\ h # NoHome => LoadAdded(h, p)

LEMMA ShowEffect ==
  ASSUME QuickTypeOK, NEW h \in HomeSet \cup {NoHome}, NEW p \in Periods, Show(h, p)
  PROVE  Showing(h, p)
<1>1. CASE h = NoHome
  <2>1. /\ modal' = [modal EXCEPT !.house = h, !.period = p, !.rooms = NoHome]
        /\ sheet' = [r \in Rooms |-> NoRow] /\ oldIndex' = [r \in Rooms |-> 0] /\ loads' = loads
    BY <1>1 DEF Show
  <2>2. modal' \in Modals /\ modal'.house = h /\ modal'.period = p /\ modal'.saving = modal.saving
    BY <2>1, QuickTypes DEF Modals
  <2>3. sheet' \in [Rooms -> Row] /\ \A r \in Rooms : sheet'[r] = NoRow
    BY <2>1, RowTypes
  <2>4. oldIndex' \in [Rooms -> Readings \cup {0}] /\ loads' \in Seq(LoadRecords)
    BY <2>1, QuickTypes
  <2>5. Loading' = Loading
    BY <2>1 DEF Loading
  <2> QED BY <1>1, <2>1, <2>2, <2>3, <2>4, <2>5 DEF Showing
<1>2. CASE h # NoHome
  <2>1. /\ modal' = [modal EXCEPT !.house = h, !.period = p, !.fetching = TRUE]
        /\ loads' = Append(loads, [house |-> h, period |-> p, found |-> FALSE, stage |-> "rooms"])
        /\ sheet' = sheet /\ oldIndex' = oldIndex
    BY <1>2 DEF Show
  <2>2. modal' \in Modals /\ modal'.house = h /\ modal'.period = p /\ modal'.saving = modal.saving
    BY <2>1, QuickTypes DEF Modals
  <2>3. sheet' \in [Rooms -> Row] /\ oldIndex' \in [Rooms -> Readings \cup {0}]
    BY <2>1, QuickTypes
  <2>4. h \in HomeSet /\ loads \in Seq(LoadRecords)
    BY <1>2, QuickTypes
  <2>5. loads' \in Seq(LoadRecords) /\ LoadAdded(h, p)
    BY <2>1, <2>4, LoadAdding
  <2> QED BY <1>2, <2>2, <2>3, <2>5 DEF Showing
<1> QED BY <1>1, <1>2

LEMMA ShowStep ==
  ASSUME TickInv, NEW h \in HomeSet \cup {NoHome}, NEW p \in Periods, Show(h, p),
         UNCHANGED <<patient, entries, batch, failed>>, suggesting' \in BOOLEAN,
         patient /\ ~failed => Loading = {} /\ ~modal.saving
  PROVE  TickInv'
<1>1. Showing(h, p) /\ QuickTypeOK
  BY ShowEffect DEF TickInv
<1>2. QuickTypeOK'
  <2>1. /\ patient \in BOOLEAN /\ entries \in SheetEntries /\ batch \in Batches /\ failed \in BOOLEAN
    BY <1>1, QuickTypes
  <2>2. /\ modal' \in Modals /\ sheet' \in [Rooms -> Row]
        /\ oldIndex' \in [Rooms -> Readings \cup {0}] /\ loads' \in Seq(LoadRecords)
    BY <1>1 DEF Showing
  <2> QED BY <2>1, <2>2 DEF QuickTypeOK, LoadRecords, SheetEntries, Modals, Requests, Batches
<1>3. ASSUME patient, ~failed PROVE CalmInv'
  <2>1. CalmInv /\ Loading = {} /\ ~modal.saving
    BY <1>3 DEF TickInv
  <2>2. ~modal'.saving /\ modal'.house = h /\ modal'.period = p /\ batch.left = {}
    BY <1>1, <2>1 DEF Showing, CalmInv, BatchInv
  <2>3. BatchInv' /\ DatesInv'
    BY <2>1, <2>2 DEF CalmInv, BatchInv, DatesInv
  <2>4. CASE h = NoHome
    <3>1. Loading' = {} /\ \A r \in Rooms : sheet'[r] = NoRow
      BY <1>1, <2>1, <2>4 DEF Showing
    <3>2. LoadsInv'
      BY <2>2, <3>1 DEF LoadsInv
    <3>3. SheetInv'
      BY <2>2, <2>4, <3>1, RowTypes DEF SheetInv
    <3> QED BY <2>3, <3>2, <3>3 DEF CalmInv
  <2>5. CASE h # NoHome
    <3>1. PICK n \in Nat : /\ Loading' = {n} /\ loads'[n].house = h /\ loads'[n].period = p
                           /\ loads'[n].stage = "rooms"
      BY <1>1, <2>1, <2>5 DEF Showing, LoadAdded
    <3>2. LoadsInv'
      BY <2>2, <2>5, <3>1 DEF LoadsInv
    <3>3. SheetInv'
      BY <3>1 DEF SheetInv
    <3> QED BY <2>3, <3>2, <3>3 DEF CalmInv
  <2> QED BY <2>4, <2>5
<1> QED BY <1>2, <1>3 DEF TickInv

LEMMA ChooseHouseStep == ASSUME TickInv, NEW h \in HomeSet \cup {NoHome}, ChooseHouse(h) PROVE TickInv'
<1>1. modal.period \in Periods /\ suggesting' \in BOOLEAN
  BY QuickTypes DEF TickInv, ChooseHouse, Modals
<1>2. patient /\ ~failed => Loading = {} /\ ~modal.saving
  BY DEF ChooseHouse, AtSheet, Settled
<1> QED BY <1>1, <1>2, ShowStep DEF ChooseHouse

LEMMA ChoosePeriodStep == ASSUME TickInv, NEW p \in Periods, ChoosePeriod(p) PROVE TickInv'
<1>1. modal.house \in HomeSet \cup {NoHome} /\ suggesting' \in BOOLEAN
  BY QuickTypes DEF TickInv, ChoosePeriod, Modals
<1>2. patient /\ ~failed => Loading = {} /\ ~modal.saving
  BY DEF ChoosePeriod, AtSheet, Settled
<1> QED BY <1>1, <1>2, ShowStep DEF ChoosePeriod

LEMMA SuggestedIsHome == ASSUME NEW readable \in SUBSET HomeSet PROVE Suggested(readable) \in HomeSet
<1> DEFINE found == {k \in DOMAIN Homes : Homes[k] \in readable /\ Todo(Homes[k], modal.period)}
<1>1. Homes \in Seq(HomeSet) /\ Homes # <<>>
  BY EntryAssumption
<1>2. \A k \in DOMAIN Homes : Homes[k] \in HomeSet /\ k \in Nat
  BY <1>1
<1>3. CASE found = {}
  <2>1. 1 \in DOMAIN Homes
    BY <1>1
  <2> QED BY <1>2, <1>3, <2>1 DEF Suggested
<1>4. CASE found # {}
  <2>1. \E k \in found : \A j \in found : k <= j
    BY <1>2, <1>4, LeastNumber
  <2>2. (CHOOSE k \in found : \A j \in found : k <= j) \in DOMAIN Homes
    BY <2>1
  <2> QED BY <1>2, <1>4, <2>2 DEF Suggested
<1> QED BY <1>3, <1>4

LEMMA SuggestStep == ASSUME TickInv, NEW readable \in SUBSET HomeSet, Suggest(readable) PROVE TickInv'
<1>1. modal.period \in Periods /\ suggesting' \in BOOLEAN /\ suggesting
  BY QuickTypes DEF TickInv, Suggest, Modals
<1>2. CASE modal.house = NoHome
  <2>1. patient /\ ~failed => Loading = {} /\ ~modal.saving
    BY <1>1, <1>2 DEF TickInv, CalmInv, LoadsInv
  <2>2. Suggested(readable) \in HomeSet \cup {NoHome}
    BY SuggestedIsHome
  <2>3. Show(Suggested(readable), modal.period) /\ UNCHANGED <<patient, entries, batch, failed>>
    BY <1>2 DEF Suggest
  <2>4. PICK h \in HomeSet \cup {NoHome} : h = Suggested(readable)
    BY <2>2
  <2>5. PICK p \in Periods : p = modal.period
    BY <1>1
  <2>6. Show(h, p)
    BY <2>3, <2>4, <2>5
  <2> QED BY <1>1, <2>1, <2>3, <2>6, ShowStep
<1>3. CASE modal.house # NoHome
  <2>1. UNCHANGED <<modal, sheet, oldIndex, loads, patient, entries, batch, failed>> /\ suggesting' = FALSE
    BY <1>3 DEF Suggest
  <2>2. QuickTypeOK'
    BY <2>1, <1>1 DEF TickInv, QuickTypeOK
  <2>3. CalmInv => CalmInv'
    BY <2>1 DEF CalmInv, LoadsInv, SheetInv, BatchInv, DatesInv, Loading, RequestInv
  <2> QED BY <2>1, <2>2, <2>3 DEF TickInv
<1> QED BY <1>2, <1>3

LEMMA LoadingIn == ASSUME QuickTypeOK, NEW n \in Loading PROVE n \in DOMAIN loads /\ loads[n] \in LoadRecords
BY QuickTypes DEF Loading

LEMMA RoomsLoadedStep ==
  ASSUME TickInv, NEW n \in DOMAIN loads, NEW found \in BOOLEAN, RoomsLoaded(n, found)
  PROVE  TickInv'
<1>1. n \in Loading /\ QuickTypeOK
  BY DEF RoomsLoaded, Loading, TickInv
<1>2. loads[n] \in LoadRecords /\ loads \in Seq(LoadRecords) /\ modal \in Modals
  BY <1>1, LoadingIn, QuickTypes
<1>3. loads' \in Seq(LoadRecords) /\ LoadMoved(n, "invoices", found)
  BY <1>1, <1>2, LoadMoving DEF RoomsLoaded
<1>4. PICK home \in HomeSet : home = loads[n].house
  BY <1>2 DEF LoadRecords
<1>5. PICK visible \in HomeSet \cup {NoHome} : visible = IF found THEN home ELSE NoHome
  OBVIOUS
<1>6. modal' = [modal EXCEPT !.rooms = visible]
  BY <1>4, <1>5 DEF RoomsLoaded
<1>7. /\ modal' \in Modals /\ modal'.house = modal.house /\ modal'.period = modal.period
      /\ modal'.saving = modal.saving /\ modal'.rooms = visible
  BY <1>2, <1>6 DEF Modals
<1>8. QuickTypeOK'
  <2>1. /\ patient' \in BOOLEAN /\ entries' \in SheetEntries /\ batch' \in Batches /\ failed' \in BOOLEAN
        /\ sheet' \in [Rooms -> Row] /\ oldIndex' \in [Rooms -> Readings \cup {0}] /\ suggesting' \in BOOLEAN
    BY <1>1, QuickTypes DEF RoomsLoaded
  <2> QED BY <1>3, <1>7, <2>1 DEF QuickTypeOK, LoadRecords, SheetEntries, Modals, Requests, Batches
<1>9. ASSUME patient', ~failed' PROVE CalmInv'
  <2>1. CalmInv /\ ~modal.saving /\ batch.left = {}
    BY <1>1, <1>9 DEF TickInv, RoomsLoaded, CalmInv, LoadsInv, BatchInv
  <2>2. Loading = {n} /\ home = modal.house
    BY <1>1, <1>4, <2>1 DEF CalmInv, LoadsInv
  <2>3. Loading' = {n}
    BY <1>3, <2>2 DEF LoadMoved
  <2>4. LoadsInv'
    BY <1>3, <1>4, <1>5, <1>7, <2>1, <2>2, <2>3 DEF LoadMoved, LoadsInv, CalmInv, RoomsLoaded
  <2>5. SheetInv'
    BY <2>3 DEF SheetInv
  <2>6. BatchInv' /\ DatesInv'
    BY <1>7, <2>1 DEF BatchInv, DatesInv, CalmInv, RoomsLoaded
  <2> QED BY <2>4, <2>5, <2>6 DEF CalmInv
<1> QED BY <1>8, <1>9 DEF TickInv

LEMMA InvoicesLoadedStep == ASSUME TickInv, NEW n \in DOMAIN loads, InvoicesLoaded(n) PROVE TickInv'
<1>1. n \in Loading /\ QuickTypeOK
  BY DEF InvoicesLoaded, Loading, TickInv
<1>2. loads[n] \in LoadRecords /\ loads \in Seq(LoadRecords) /\ modal \in Modals /\ entries \in SheetEntries
  BY <1>1, LoadingIn, QuickTypes
<1>3. loads' \in Seq(LoadRecords) /\ LoadMoved(n, "done", loads[n].found)
  BY <1>1, <1>2, LoadEnding DEF InvoicesLoaded
<1>4. PICK h \in HomeSet, p \in Periods : h = loads[n].house /\ p = loads[n].period
  BY <1>2 DEF LoadRecords
<1>5. modal' = [modal EXCEPT !.fetching = FALSE, !.dirty = FALSE, !.typed = p]
  BY <1>4 DEF InvoicesLoaded
<1>6. /\ modal' \in Modals /\ modal'.house = modal.house /\ modal'.period = modal.period
      /\ modal'.saving = modal.saving /\ modal'.typed = p
  BY <1>2, <1>5 DEF Modals
<1>7. /\ \A r \in Rooms : Loaded(r, p) \in Row
      /\ \A r \in Rooms : Loaded(r, p).saved => entries[r, p].value = Loaded(r, p).value
  BY <1>2, RowTypes DEF Loaded, Row, SheetEntries
<1>8. sheet' = [r \in Rooms |-> IF loads[n].found /\ HomeOf[r] = h THEN Loaded(r, p) ELSE NoRow]
  BY <1>4 DEF InvoicesLoaded
<1>9. sheet' \in [Rooms -> Row] /\ \A r \in Rooms : sheet'[r].saved => entries[r, p].value = sheet'[r].value
  <2>1. \A r \in Rooms : sheet'[r] = Loaded(r, p) \/ sheet'[r] = NoRow
    BY <1>8
  <2>2. \A r \in Rooms : sheet'[r] \in Row
    BY <1>7, <2>1, RowTypes
  <2> QED BY <1>7, <1>8, <2>1, <2>2, RowTypes
<1>10. oldIndex' \in [Rooms -> Readings \cup {0}]
  <2> DEFINE m == loads[n].period
             Last(r) == CHOOSE q \in Before(r, m) : \A o \in Before(r, m) : o <= q
  <2>1. oldIndex' = [r \in Rooms |-> IF HomeOf[r] # loads[n].house \/ Before(r, m) = {} THEN 0
                                    ELSE entries[r, Last(r)].value]
    BY DEF InvoicesLoaded
  <2>2. m \in Periods
    BY <1>4
  <2> HIDE DEF m
  <2>3. \A r \in Rooms : Before(r, m) # {} => Last(r) \in Periods
    <3> SUFFICES ASSUME NEW r \in Rooms, Before(r, m) # {} PROVE Last(r) \in Periods
      OBVIOUS
    <3>1. Periods \subseteq Nat \ {0}
      BY EntryAssumption
    <3>2. m \in Nat /\ Before(r, m) \subseteq Periods /\ \A q \in Before(r, m) : q < m
      BY <2>2, <3>1 DEF Before
    <3>3. Before(r, m) \subseteq 1..m
      <4> SUFFICES ASSUME NEW q \in Before(r, m) PROVE q \in 1..m
        OBVIOUS
      <4>1. q \in Nat \ {0} /\ q < m
        BY <3>1, <3>2
      <4> QED BY <3>2, <4>1
    <3>4. \E q \in Before(r, m) : \A o \in Before(r, m) : o <= q
      BY <3>2, <3>3, GreatestNumber
    <3>5. Last(r) \in Before(r, m)
      BY <3>4
    <3> QED BY <3>2, <3>5
  <2> HIDE DEF Last
  <2>4. \A r \in Rooms, q \in Periods : entries[r, q].value \in Readings \cup {0}
    BY <1>2 DEF SheetEntries
  <2> QED BY <2>1, <2>3, <2>4
<1>11. QuickTypeOK'
  <2>1. /\ patient' \in BOOLEAN /\ entries' \in SheetEntries /\ batch' \in Batches /\ failed' \in BOOLEAN
        /\ suggesting' \in BOOLEAN
    BY <1>1, QuickTypes DEF InvoicesLoaded
  <2> QED BY <1>3, <1>6, <1>9, <1>10, <2>1 DEF QuickTypeOK, LoadRecords, SheetEntries, Modals, Requests, Batches
<1>12. ASSUME patient', ~failed' PROVE CalmInv'
  <2>1. CalmInv /\ ~modal.saving /\ batch.left = {}
    BY <1>1, <1>12 DEF TickInv, InvoicesLoaded, CalmInv, LoadsInv, BatchInv
  <2>2. Loading = {n} /\ p = modal.period
    BY <1>1, <1>4, <2>1 DEF CalmInv, LoadsInv
  <2>3. Loading' = {}
    BY <1>3, <2>2 DEF LoadMoved
  <2>4. LoadsInv'
    BY <1>6, <2>1, <2>3 DEF LoadsInv, CalmInv, InvoicesLoaded
  <2>5. SheetInv'
    <3>1. entries' = entries
      BY DEF InvoicesLoaded
    <3> QED BY <1>6, <1>9, <2>2, <3>1 DEF SheetInv
  <2>6. BatchInv' /\ DatesInv'
    BY <1>6, <2>1 DEF BatchInv, DatesInv, CalmInv, InvoicesLoaded
  <2> QED BY <2>4, <2>5, <2>6 DEF CalmInv
<1> QED BY <1>11, <1>12 DEF TickInv

LEMMA LoadFailsStep == ASSUME TickInv, NEW n \in DOMAIN loads, LoadFails(n) PROVE TickInv'
<1>1. n \in Loading /\ QuickTypeOK /\ failed'
  BY DEF LoadFails, Loading, TickInv
<1>2. loads \in Seq(LoadRecords) /\ modal \in Modals
  BY <1>1, QuickTypes
<1>3. loads' \in Seq(LoadRecords)
  BY <1>1, <1>2, LoadEnding DEF LoadFails
<1>4. modal' \in Modals
  BY <1>2 DEF LoadFails, Modals
<1>5. QuickTypeOK'
  <2>1. /\ patient' \in BOOLEAN /\ entries' \in SheetEntries /\ batch' \in Batches /\ failed' \in BOOLEAN
        /\ sheet' \in [Rooms -> Row] /\ oldIndex' \in [Rooms -> Readings \cup {0}] /\ suggesting' \in BOOLEAN
    BY <1>1, QuickTypes DEF LoadFails
  <2> QED BY <1>3, <1>4, <2>1 DEF QuickTypeOK, LoadRecords, SheetEntries, Modals, Requests, Batches
<1> QED BY <1>1, <1>5 DEF TickInv

LEMMA TypeStep == ASSUME TickInv, NEW r \in Rooms, NEW v \in Readings \cup {0}, Type(r, v) PROVE TickInv'
<1>1. QuickTypeOK /\ modal \in Modals /\ sheet \in [Rooms -> Row]
  BY QuickTypes DEF TickInv
<1> DEFINE row == [[[sheet[r] EXCEPT !.value = v] EXCEPT !.saved = FALSE] EXCEPT !.error = FALSE]
<1>2. sheet' = [sheet EXCEPT ![r] = row]
  BY <1>1 DEF Type
<1>3. row \in Row /\ row.saved = FALSE
  BY <1>1 DEF Row
<1> HIDE DEF row
<1>4. sheet' \in [Rooms -> Row] /\ sheet'[r].saved = FALSE /\ \A s \in Rooms \ {r} : sheet'[s] = sheet[s]
  BY <1>1, <1>2, <1>3
<1>5. /\ modal' \in Modals /\ modal'.house = modal.house /\ modal'.period = modal.period
      /\ modal'.saving = modal.saving /\ modal'.typed = modal.period /\ modal'.rooms = modal.rooms
  BY <1>1 DEF Type, Modals
<1>6. QuickTypeOK'
  <2>1. /\ patient' \in BOOLEAN /\ entries' \in SheetEntries /\ batch' \in Batches /\ failed' \in BOOLEAN
        /\ oldIndex' \in [Rooms -> Readings \cup {0}] /\ loads' \in Seq(LoadRecords) /\ suggesting' \in BOOLEAN
    BY <1>1, QuickTypes DEF Type
  <2> QED BY <1>4, <1>5, <2>1 DEF QuickTypeOK, LoadRecords, SheetEntries, Modals, Requests, Batches
<1>7. ASSUME patient', ~failed' PROVE CalmInv'
  <2>1. CalmInv /\ Loading = {} /\ ~modal.saving /\ UNCHANGED <<loads, entries, batch, suggesting>>
    BY <1>7 DEF TickInv, Type, AtSheet, Settled
  <2>2. Loading' = {}
    BY <2>1 DEF Loading
  <2>3. LoadsInv'
    BY <1>5, <2>1, <2>2 DEF LoadsInv
  <2>4. SheetInv'
    <3>1. \A s \in Rooms : sheet'[s].saved => s # r /\ sheet'[s] = sheet[s]
      BY <1>4
    <3> QED BY <1>5, <2>1, <3>1 DEF SheetInv, CalmInv
  <2>5. BatchInv' /\ DatesInv'
    BY <1>5, <2>1 DEF BatchInv, DatesInv, CalmInv
  <2> QED BY <2>3, <2>4, <2>5 DEF CalmInv
<1> QED BY <1>6, <1>7 DEF TickInv

LEMMA ClosingStep ==
  ASSUME TickInv, Close \/ \E leave \in BOOLEAN : AnswerClose(leave)
  PROVE  TickInv'
<1>1. QuickTypeOK /\ modal \in Modals
  BY QuickTypes DEF TickInv
<1>2. UNCHANGED <<patient, entries, sheet, oldIndex, loads, batch, suggesting, failed>>
  BY DEF Close, AnswerClose
<1>3. /\ modal' \in Modals /\ modal'.house = modal.house /\ modal'.period = modal.period
      /\ modal'.saving = modal.saving /\ modal'.typed = modal.typed /\ modal'.rooms = modal.rooms
  BY <1>1 DEF Close, AnswerClose, Modals
<1>4. QuickTypeOK'
  BY <1>1, <1>2, <1>3 DEF QuickTypeOK, Modals
<1>5. CalmInv => CalmInv'
  <2>1. LoadsInv => LoadsInv'
    BY <1>2, <1>3 DEF LoadsInv, Loading
  <2>2. SheetInv => SheetInv'
    BY <1>2, <1>3 DEF SheetInv, Loading
  <2>3. BatchInv => BatchInv'
    BY <1>2, <1>3 DEF BatchInv, RequestInv
  <2>4. DatesInv => DatesInv'
    BY <1>2 DEF DatesInv
  <2> QED BY <2>1, <2>2, <2>3, <2>4 DEF CalmInv
<1> QED BY <1>2, <1>4, <1>5 DEF TickInv

LEMMA CollectStep == ASSUME TickInv, NEW r \in Rooms, NEW p \in Periods, Collect(r, p) PROVE TickInv'
<1>1. QuickTypeOK /\ entries \in SheetEntries
  BY QuickTypes DEF TickInv
<1>2. UNCHANGED <<patient, modal, sheet, oldIndex, loads, batch, suggesting, failed>>
  BY DEF Collect
<1>3. /\ entries' \in SheetEntries
      /\ \A s \in Rooms, q \in Periods : /\ entries'[s, q].value = entries[s, q].value
                                         /\ entries'[s, q].typed = entries[s, q].typed
  <2> DEFINE e == [entries[r, p] EXCEPT !.paid = TRUE]
  <2>0. entries[r, p] \in [value : Readings \cup {0}, typed : Periods \cup {0}, paid : BOOLEAN]
    BY <1>1 DEF SheetEntries
  <2>1. /\ e \in [value : Readings \cup {0}, typed : Periods \cup {0}, paid : BOOLEAN]
        /\ e.value = entries[r, p].value /\ e.typed = entries[r, p].typed
    BY <2>0
  <2>2. entries' = [entries EXCEPT ![<<r, p>>] = e]
    BY DEF Collect
  <2> HIDE DEF e
  <2> QED BY <1>1, <2>1, <2>2 DEF SheetEntries
<1>4. QuickTypeOK'
  <2>1. entries' \in SheetEntries
    BY <1>3
  <2> QED BY <1>1, <1>2, <2>1 DEF QuickTypeOK, SheetEntries
<1>5. CalmInv => CalmInv'
  <2> SUFFICES ASSUME CalmInv PROVE CalmInv'
    OBVIOUS
  <2>1. modal.period \in Periods /\ \A q \in batch.left : q.room \in Rooms /\ q.period \in Periods
    BY <1>1, QuickTypes DEF Modals, Batches, Requests
  <2>2. LoadsInv' /\ DatesInv'
    BY <1>2, <1>3 DEF CalmInv, LoadsInv, DatesInv, Loading
  <2>3. SheetInv'
    BY <1>2, <1>3, <2>1 DEF CalmInv, SheetInv, Loading
  <2>4. BatchInv'
    <3>1. BatchInv /\ batch' = batch
      BY <1>2 DEF CalmInv
    <3>2. \A q \in batch.left : RequestInv(q)'
      <4> SUFFICES ASSUME NEW q \in batch.left PROVE RequestInv(q)'
        OBVIOUS
      <4>1. RequestInv(q)
        BY <3>1 DEF BatchInv
      <4>2. entries'[q.room, q.period].value = entries[q.room, q.period].value
        BY <1>3, <2>1
      <4> QED BY <1>2, <4>1, <4>2 DEF RequestInv
    <3> QED BY <1>2, <3>1, <3>2 DEF BatchInv
  <2> QED BY <2>2, <2>3, <2>4 DEF CalmInv
<1> QED BY <1>2, <1>4, <1>5 DEF TickInv

LEMMA SaveAllStep == ASSUME TickInv, SaveAll PROVE TickInv'
<1>1. QuickTypeOK /\ modal \in Modals /\ sheet \in [Rooms -> Row] /\ batch \in Batches
  BY QuickTypes DEF TickInv
<1>2. UNCHANGED <<patient, entries, oldIndex, loads, suggesting, failed>>
  BY DEF SaveAll
<1>3. /\ modal' \in Modals /\ modal'.house = modal.house /\ modal'.period = modal.period
      /\ modal'.saving = TRUE /\ modal'.typed = modal.typed /\ modal'.rooms = modal.rooms
  BY <1>1 DEF SaveAll, Modals
<1>4. /\ sheet' \in [Rooms -> Row]
      /\ \A r \in Rooms : sheet'[r].value = sheet[r].value /\ sheet'[r].saved = sheet[r].saved
  <2>1. sheet' = [r \in Rooms |-> IF Ready(r) /\ TooLow(r) THEN [sheet[r] EXCEPT !.error = TRUE] ELSE sheet[r]]
    BY DEF SaveAll
  <2>2. \A r \in Rooms : [sheet[r] EXCEPT !.error = TRUE] \in Row
    BY <1>1 DEF Row
  <2>3. \A r \in Rooms : /\ [sheet[r] EXCEPT !.error = TRUE].value = sheet[r].value
                         /\ [sheet[r] EXCEPT !.error = TRUE].saved = sheet[r].saved
    BY <1>1 DEF Row
  <2> QED BY <1>1, <2>1, <2>2, <2>3
<1> DEFINE good == {r \in Rooms : Ready(r) /\ ~TooLow(r)}
           req(r) == [room |-> r, period |-> modal.period, value |-> sheet[r].value,
                      typed |-> modal.typed, stored |-> FALSE]
<1>5. batch' = [left |-> {req(r) : r \in good}, errors |-> \E r \in Rooms : Ready(r) /\ TooLow(r),
                count |-> batch.count + 1]
  BY DEF SaveAll
<1>6. \A r \in good : req(r) \in Requests
  <2> SUFFICES ASSUME NEW r \in good PROVE req(r) \in Requests
    OBVIOUS
  <2>1. sheet[r].value \in Readings
    BY <1>1 DEF Ready, Row
  <2>2. modal.period \in Periods /\ modal.typed \in Periods
    BY <1>1 DEF Modals
  <2> QED BY <2>1, <2>2 DEF Requests
<1>7. batch' \in Batches
  <2>1. batch.count + 1 \in 0..MaxBatches
    <3>1. batch.count \in 0..MaxBatches /\ batch.count < MaxBatches /\ MaxBatches \in Nat
      BY <1>1, EntryAssumption DEF Batches, SaveAll
    <3> QED BY <3>1
  <2>2. {req(r) : r \in good} \in SUBSET Requests
    BY <1>6
  <2>3. (\E r \in Rooms : Ready(r) /\ TooLow(r)) \in BOOLEAN
    OBVIOUS
  <2> QED BY <1>5, <2>1, <2>2, <2>3 DEF Batches
<1>8. QuickTypeOK'
  BY <1>1, <1>2, <1>3, <1>4, <1>7 DEF QuickTypeOK, Modals, Batches, Requests
<1>9. ASSUME patient', ~failed' PROVE CalmInv'
  <2>1. CalmInv /\ Loading = {} /\ ~modal.saving /\ ~suggesting /\ modal.house # NoHome
    BY <1>2, <1>9 DEF TickInv, SaveAll, AtSheet, Settled
  <2>2. Loading' = {} /\ modal.typed = modal.period
    BY <1>2, <2>1 DEF Loading, CalmInv, SheetInv
  <2>3. LoadsInv'
    BY <1>2, <1>3, <2>1, <2>2 DEF LoadsInv
  <2>4. SheetInv'
    BY <1>2, <1>3, <1>4, <2>1, <2>2 DEF SheetInv, CalmInv
  <2>5. DatesInv'
    BY <1>2, <2>1 DEF DatesInv, CalmInv
  <2>6. BatchInv'
    <3>1. batch'.left = {req(r) : r \in good} /\ (batch'.errors <=> \E r \in Rooms : Ready(r) /\ TooLow(r))
      BY <1>5
    <3>2. \A r \in good : /\ req(r).room = r /\ req(r).period = modal.period /\ req(r).typed = modal.typed
                          /\ req(r).value = sheet[r].value /\ req(r).stored = FALSE
      OBVIOUS
    <3>3. \A r \in good : r \in Rooms /\ ~sheet[r].saved
      BY DEF Ready
    <3> HIDE DEF req
    <3>4. \A q \in batch'.left : RequestInv(q)'
      <4> SUFFICES ASSUME NEW q \in batch'.left PROVE RequestInv(q)'
        OBVIOUS
      <4>1. PICK r \in good : q = req(r)
        BY <3>1
      <4>2. /\ q.room = r /\ q.period = modal.period /\ q.typed = modal.period
            /\ q.value = sheet[r].value /\ q.stored = FALSE
        BY <2>2, <3>2, <4>1
      <4>3. r \in Rooms /\ ~sheet[r].saved
        BY <3>3
      <4> QED BY <1>3, <1>4, <4>2, <4>3 DEF RequestInv
    <3>5. \A q, s \in batch'.left : q.room = s.room => q = s
      BY <3>1, <3>2
    <3>6. ASSUME ~batch'.errors, NEW r \in Rooms, HomeOf[r] = modal.rooms, sheet[r].value # 0
          PROVE sheet[r].saved \/ \E q \in batch'.left : q.room = r
      <4>1. sheet[r].saved \/ r \in good
        BY <3>1, <3>6 DEF Ready
      <4> QED BY <3>1, <3>2, <4>1
    <3>7. modal'.saving
      BY <1>3
    <3> QED BY <1>3, <1>4, <3>4, <3>5, <3>6, <3>7 DEF BatchInv
  <2> QED BY <2>3, <2>4, <2>5, <2>6 DEF CalmInv
<1> QED BY <1>8, <1>9 DEF TickInv

LEMMA RequestIn == ASSUME QuickTypeOK, NEW q \in batch.left PROVE q \in Requests
BY QuickTypes DEF Batches

LEMMA ServerStoresStep == ASSUME TickInv, NEW q \in batch.left, ServerStores(q) PROVE TickInv'
<1>1. QuickTypeOK /\ entries \in SheetEntries /\ batch \in Batches /\ q \in Requests
  BY QuickTypes, RequestIn DEF TickInv
<1>2. UNCHANGED <<patient, modal, sheet, oldIndex, loads, suggesting, failed>> /\ ~q.stored
  BY DEF ServerStores
<1> DEFINE s == [q EXCEPT !.stored = TRUE]
<1>3. s \in Requests /\ s.room = q.room /\ s.period = q.period /\ s.value = q.value /\ s.typed = q.typed /\ s.stored
  BY <1>1 DEF Requests
<1>4. q.room \in Rooms /\ q.period \in Periods /\ q.value \in Readings /\ q.typed \in Periods
  BY <1>1 DEF Requests
<1>5. batch' = [batch EXCEPT !.left = (@ \ {q}) \cup {s}]
  BY DEF ServerStores
<1> HIDE DEF s
<1>6. batch' \in Batches /\ batch'.left = (batch.left \ {q}) \cup {s} /\ batch'.errors = batch.errors
  BY <1>1, <1>3, <1>5 DEF Batches
<1>7. /\ entries' \in SheetEntries
      /\ entries'[q.room, q.period].value = q.value /\ entries'[q.room, q.period].typed = q.typed
      /\ \A r \in Rooms, p \in Periods : <<r, p>> # <<q.room, q.period>> => entries'[r, p] = entries[r, p]
  <2> DEFINE e == [value |-> q.value, typed |-> q.typed, paid |-> FALSE]
  <2>1. e \in [value : Readings \cup {0}, typed : Periods \cup {0}, paid : BOOLEAN]
        /\ e.value = q.value /\ e.typed = q.typed
    BY <1>4
  <2>2. entries' = [entries EXCEPT ![<<q.room, q.period>>] = e]
    BY DEF ServerStores
  <2> HIDE DEF e
  <2>3. entries'[q.room, q.period] = e
    BY <1>1, <1>4, <2>2 DEF SheetEntries
  <2> QED BY <1>1, <1>4, <2>1, <2>2, <2>3 DEF SheetEntries
<1>8. QuickTypeOK'
  BY <1>1, <1>2, <1>6, <1>7 DEF QuickTypeOK, SheetEntries, Batches, Requests
<1>9. ASSUME patient', ~failed' PROVE CalmInv'
  <2>1. CalmInv /\ RequestInv(q) /\ modal.saving
    BY <1>2, <1>9 DEF TickInv, CalmInv, BatchInv
  <2>2. q.period = modal.period /\ q.typed = modal.period /\ ~sheet[q.room].saved /\ q.value = sheet[q.room].value
    BY <2>1 DEF RequestInv
  <2>3. LoadsInv'
    BY <1>2, <2>1 DEF LoadsInv, CalmInv, Loading
  <2>4. SheetInv'
    <3>1. modal.period \in Periods
      BY <1>4, <2>2
    <3>2. \A r \in Rooms : sheet[r].saved => entries'[r, modal.period] = entries[r, modal.period]
      BY <1>7, <2>2, <3>1
    <3> QED BY <1>2, <2>1, <3>2 DEF SheetInv, CalmInv, Loading
  <2>5. DatesInv'
    <3> SUFFICES ASSUME NEW r \in Rooms, NEW p \in Periods PROVE entries'[r, p].typed \in {0, p}
      BY DEF DatesInv
    <3>1. CASE <<r, p>> = <<q.room, q.period>>
      BY <1>7, <2>2, <3>1
    <3>2. CASE <<r, p>> # <<q.room, q.period>>
      BY <1>7, <2>1, <3>2 DEF CalmInv, DatesInv
    <3> QED BY <3>1, <3>2
  <2>6. BatchInv'
    <3>1. \A t \in batch.left : t # q => t.room # q.room /\ t.room \in Rooms /\ t.period \in Periods
      BY <1>1, <2>1, RequestIn DEF CalmInv, BatchInv, Requests
    <3>2. \A t \in batch'.left : RequestInv(t)'
      <4> SUFFICES ASSUME NEW t \in batch'.left PROVE RequestInv(t)'
        OBVIOUS
      <4>1. CASE t = s
        BY <1>2, <1>3, <1>7, <2>2, <4>1 DEF RequestInv
      <4>2. CASE t # s
        <5>1. t \in batch.left /\ t # q
          BY <1>6, <4>2
        <5>2. RequestInv(t)
          BY <2>1, <5>1 DEF CalmInv, BatchInv
        <5>3. t.room # q.room /\ t.room \in Rooms /\ t.period \in Periods
          BY <3>1, <5>1
        <5>4. entries'[t.room, t.period] = entries[t.room, t.period]
          BY <1>7, <5>3
        <5> QED BY <1>2, <5>2, <5>4 DEF RequestInv
      <4> QED BY <4>1, <4>2
    <3>3. \A t, u \in batch'.left : t.room = u.room => t = u
      BY <1>3, <1>6, <2>1, <3>1 DEF CalmInv, BatchInv
    <3>4. \A r : (\E t \in batch.left : t.room = r) => \E t \in batch'.left : t.room = r
      BY <1>3, <1>6
    <3> QED BY <1>2, <1>6, <2>1, <3>2, <3>3, <3>4 DEF CalmInv, BatchInv
  <2> QED BY <2>3, <2>4, <2>5, <2>6 DEF CalmInv
<1> QED BY <1>8, <1>9 DEF TickInv

LEMMA RowSavedStep == ASSUME TickInv, NEW q \in batch.left, RowSaved(q) PROVE TickInv'
<1>1. QuickTypeOK /\ sheet \in [Rooms -> Row] /\ batch \in Batches /\ q \in Requests
  BY QuickTypes, RequestIn DEF TickInv
<1>2. UNCHANGED <<patient, entries, modal, oldIndex, loads, suggesting, failed>> /\ q.stored
  BY DEF RowSaved
<1>3. q.room \in Rooms /\ q.period \in Periods
  BY <1>1 DEF Requests
<1>4. batch' \in Batches /\ batch'.left = batch.left \ {q} /\ batch'.errors = batch.errors
  BY <1>1 DEF RowSaved, Batches
<1>5. /\ sheet' \in [Rooms -> Row] /\ sheet'[q.room].saved = TRUE /\ sheet'[q.room].value = sheet[q.room].value
      /\ \A r \in Rooms \ {q.room} : sheet'[r] = sheet[r]
  <2> DEFINE row == [[sheet[q.room] EXCEPT !.saved = TRUE] EXCEPT !.error = FALSE]
  <2>1. row \in Row /\ row.saved = TRUE /\ row.value = sheet[q.room].value
    BY <1>1, <1>3 DEF Row
  <2>2. sheet' = [sheet EXCEPT ![q.room] = row]
    BY <1>1, <1>3 DEF RowSaved
  <2> HIDE DEF row
  <2> QED BY <1>1, <1>3, <2>1, <2>2
<1>6. QuickTypeOK'
  BY <1>1, <1>2, <1>4, <1>5 DEF QuickTypeOK, Batches, Requests
<1>7. ASSUME patient', ~failed' PROVE CalmInv'
  <2>1. CalmInv /\ RequestInv(q) /\ modal.saving
    BY <1>2, <1>7 DEF TickInv, CalmInv, BatchInv
  <2>2. entries[q.room, modal.period].value = sheet[q.room].value
    BY <1>2, <2>1 DEF RequestInv
  <2>3. LoadsInv' /\ DatesInv'
    BY <1>2, <2>1 DEF LoadsInv, CalmInv, Loading, DatesInv
  <2>4. SheetInv'
    <3>1. \A r \in Rooms : sheet'[r].value = sheet[r].value
      BY <1>5
    <3>2. \A r \in Rooms : sheet'[r].saved => r = q.room \/ sheet[r].saved
      BY <1>5
    <3> QED BY <1>2, <2>1, <2>2, <3>1, <3>2 DEF SheetInv, CalmInv, Loading
  <2>5. BatchInv'
    <3>1. \A t \in batch'.left : t \in batch.left /\ t.room # q.room /\ t.room \in Rooms
      BY <1>1, <1>4, <2>1, RequestIn DEF CalmInv, BatchInv, Requests
    <3>2. \A t \in batch'.left : RequestInv(t)'
      <4> SUFFICES ASSUME NEW t \in batch'.left PROVE RequestInv(t)'
        OBVIOUS
      <4>1. RequestInv(t) /\ sheet'[t.room] = sheet[t.room]
        BY <1>5, <2>1, <3>1 DEF CalmInv, BatchInv
      <4> QED BY <1>2, <4>1 DEF RequestInv
    <3>3. \A r \in Rooms \ {q.room} : (\E t \in batch.left : t.room = r) => \E t \in batch'.left : t.room = r
      BY <1>4
    <3> QED BY <1>2, <1>4, <1>5, <2>1, <3>2, <3>3 DEF CalmInv, BatchInv
  <2> QED BY <2>3, <2>4, <2>5 DEF CalmInv
<1> QED BY <1>6, <1>7 DEF TickInv

LEMMA RowFailsStep == ASSUME TickInv, NEW q \in batch.left, RowFails(q) PROVE TickInv'
<1>1. QuickTypeOK /\ sheet \in [Rooms -> Row] /\ batch \in Batches /\ q \in Requests
  BY QuickTypes, RequestIn DEF TickInv
<1>2. UNCHANGED <<patient, entries, modal, oldIndex, loads, suggesting, failed>>
  BY DEF RowFails
<1>3. batch' \in Batches /\ batch'.left = batch.left \ {q} /\ batch'.errors = TRUE
  BY <1>1 DEF RowFails, Batches
<1>4. /\ sheet' \in [Rooms -> Row]
      /\ \A r \in Rooms : sheet'[r].saved = sheet[r].saved /\ sheet'[r].value = sheet[r].value
  <2> DEFINE row == [sheet[q.room] EXCEPT !.error = TRUE]
  <2>0. q.room \in Rooms
    BY <1>1 DEF Requests
  <2>1. row \in Row /\ row.saved = sheet[q.room].saved /\ row.value = sheet[q.room].value
    BY <1>1, <2>0 DEF Row
  <2>2. sheet' = [sheet EXCEPT ![q.room] = row]
    BY <1>1, <2>0 DEF RowFails
  <2> HIDE DEF row
  <2> QED BY <1>1, <2>0, <2>1, <2>2
<1>5. QuickTypeOK'
  BY <1>1, <1>2, <1>3, <1>4 DEF QuickTypeOK, Batches, Requests
<1>6. CalmInv => CalmInv'
  <2> SUFFICES ASSUME CalmInv PROVE CalmInv'
    OBVIOUS
  <2>1. LoadsInv' /\ DatesInv' /\ SheetInv'
    BY <1>2, <1>4 DEF CalmInv, LoadsInv, Loading, DatesInv, SheetInv
  <2>2. \A t \in batch'.left : t \in batch.left /\ t.room \in Rooms
    BY <1>1, <1>3, RequestIn DEF Requests
  <2>3. \A t \in batch'.left : RequestInv(t)'
    BY <1>2, <1>4, <2>2 DEF CalmInv, BatchInv, RequestInv
  <2>4. BatchInv'
    BY <1>2, <1>3, <2>2, <2>3 DEF CalmInv, BatchInv
  <2> QED BY <2>1, <2>4 DEF CalmInv
<1> QED BY <1>2, <1>5, <1>6 DEF TickInv

LEMMA BatchEndsStep == ASSUME TickInv, BatchEnds PROVE TickInv'
<1>1. QuickTypeOK /\ modal \in Modals
  BY QuickTypes DEF TickInv
<1>2. UNCHANGED <<patient, entries, sheet, oldIndex, loads, batch, suggesting, failed>> /\ batch.left = {}
  BY DEF BatchEnds
<1>3. /\ modal' \in Modals /\ modal'.house = modal.house /\ modal'.period = modal.period
      /\ modal'.saving = FALSE /\ modal'.typed = modal.typed /\ modal'.rooms = modal.rooms
  BY <1>1 DEF BatchEnds, Modals
<1>4. QuickTypeOK'
  BY <1>1, <1>2, <1>3 DEF QuickTypeOK, Modals
<1>5. CalmInv => CalmInv'
  <2> SUFFICES ASSUME CalmInv PROVE CalmInv'
    OBVIOUS
  <2>1. LoadsInv' /\ DatesInv' /\ SheetInv'
    BY <1>2, <1>3 DEF CalmInv, LoadsInv, Loading, DatesInv, SheetInv
  <2>2. BatchInv'
    BY <1>2, <1>3 DEF BatchInv
  <2> QED BY <2>1, <2>2 DEF CalmInv
<1> QED BY <1>2, <1>4, <1>5 DEF TickInv

LEMMA TickInvStep == TickInv /\ [QuickNext]_quickVars => TickInv'
<1> SUFFICES ASSUME TickInv, [QuickNext]_quickVars PROVE TickInv'
  OBVIOUS
<1>1. CASE UNCHANGED quickVars
  <2>1. QuickTypeOK'
    BY <1>1 DEF quickVars, TickInv, QuickTypeOK
  <2>2. CalmInv => CalmInv'
    BY <1>1 DEF quickVars, CalmInv, LoadsInv, SheetInv, BatchInv, DatesInv, Loading, RequestInv
  <2> QED BY <1>1, <2>1, <2>2 DEF quickVars, TickInv
<1>2. CASE QuickNext
  BY <1>2, ChooseHouseStep, ChoosePeriodStep, CollectStep, SuggestStep, InvoicesLoadedStep, LoadFailsStep,
     RoomsLoadedStep, TypeStep, SaveAllStep, ServerStoresStep, RowSavedStep, RowFailsStep, BatchEndsStep,
     ClosingStep DEF QuickNext
<1> QED BY <1>1, <1>2

LEMMA TickInvInit == QuickInit => TickInv
<1> SUFFICES ASSUME QuickInit PROVE TickInv
  OBVIOUS
<1>1. Loading = {} /\ batch.left = {} /\ ~modal.saving /\ modal.house = NoHome
  BY DEF QuickInit, Loading
<1>2. \A r \in Rooms : sheet[r] = NoRow /\ ~sheet[r].saved
  BY RowTypes DEF QuickInit
<1>3. QuickTypeOK
  <2>1. patient \in BOOLEAN /\ suggesting \in BOOLEAN /\ failed \in BOOLEAN /\ entries \in SheetEntries
    BY EntryAssumption DEF QuickInit, SheetEntries
  <2>2. modal \in Modals
    BY EntryAssumption DEF QuickInit, Modals
  <2>3. sheet \in [Rooms -> Row] /\ oldIndex \in [Rooms -> Readings \cup {0}] /\ loads \in Seq(LoadRecords)
    BY RowTypes DEF QuickInit
  <2>4. batch \in Batches
    <3>0. MaxBatches \in Nat
      BY EntryAssumption
    <3>1. 0 \in 0..MaxBatches
      BY <3>0
    <3> QED BY <3>1 DEF QuickInit, Batches
  <2> QED BY <2>1, <2>2, <2>3, <2>4, QuickTypes
<1>4. DatesInv
  BY EntryAssumption DEF DatesInv, QuickInit
<1>5. LoadsInv /\ BatchInv /\ SheetInv
  BY <1>1, <1>2 DEF LoadsInv, BatchInv, SheetInv
<1> QED BY <1>3, <1>4, <1>5 DEF TickInv, CalmInv

LEMMA TickInvHolds == TickInv => TicksHold
BY DEF TickInv, CalmInv, SheetInv, DatesInv, TicksHold, TickMeansStored, StoredUnderItsPeriod, Settled

\* Only the end of a save ends a save.
LEMMA ClosesWhenAllStoredStep ==
  TickInv /\ [QuickNext]_quickVars =>
    [patient /\ ~failed /\ modal.open /\ ~modal'.open /\ modal.saving /\ ~modal'.saving =>
       \A r \in Rooms : HomeOf[r] = modal.rooms /\ sheet[r].value # 0 =>
          entries[r, modal.period].value = sheet[r].value]_quickVars
<1> SUFFICES ASSUME TickInv, QuickNext, patient, ~failed, modal.saving, modal.open, ~modal'.open, ~modal'.saving,
                    NEW r \in Rooms, HomeOf[r] = modal.rooms, sheet[r].value # 0
             PROVE entries[r, modal.period].value = sheet[r].value
  OBVIOUS
<1>1. CalmInv /\ modal \in Modals /\ Loading = {} /\ ~suggesting
  BY QuickTypes DEF TickInv, CalmInv, LoadsInv
<1>2. BatchEnds
  <2>1. ~AtSheet
    BY DEF AtSheet, Settled
  <2>2. \A n \in DOMAIN loads : loads[n].stage = "done"
    BY <1>1 DEF Loading
  <2>3. UNCHANGED modal \/ BatchEnds \/ Close \/ \E leave \in BOOLEAN : AnswerClose(leave)
    BY <1>1, <2>1, <2>2 DEF QuickNext, ChooseHouse, ChoosePeriod, Collect, Suggest, InvoicesLoaded, LoadFails,
       RoomsLoaded, Type, SaveAll, ServerStores, RowSaved, RowFails
  <2>4. Close \/ (\E leave \in BOOLEAN : AnswerClose(leave)) => modal'.saving = modal.saving
    BY <1>1 DEF Close, AnswerClose, Modals
  <2> QED BY <2>3, <2>4
<1>3. batch.left = {} /\ ~batch.errors
  BY <1>1, <1>2 DEF BatchEnds, Modals
<1>4. sheet[r].saved
  BY <1>1, <1>3 DEF CalmInv, BatchInv
<1> QED BY <1>1, <1>4 DEF CalmInv, SheetInv

(* A ticked row of the sheet shows the reading stored for its room and period *)
(* and no reading is stored under a period it was not typed for, whatever was *)
(* saved in part and reopened: as long as every load succeeds and nothing is  *)
(* typed or chosen during one.                                                *)
THEOREM TicksAreStored == Spec => []TicksHold
<1>1. Init => TickInv
  BY PartsInit, TickInvInit
<1>2. TickInv /\ [Next]_vars => TickInv'
  BY PartsStep, TickInvStep
<1>3. TickInv => TicksHold
  BY TickInvHolds
<1> QED BY <1>1, <1>2, <1>3, PTL DEF Spec

(* The sheet closes by itself only when every row that had a reading has been *)
(* stored for the period that was saved.                                      *)
THEOREM SaveClosesComplete == Spec => ClosesWhenAllStored
<1>1. Init => TickInv
  BY PartsInit, TickInvInit
<1>2. TickInv /\ [Next]_vars => TickInv'
  BY PartsStep, TickInvStep
<1>3. TickInv /\ [Next]_vars =>
        [patient /\ ~failed /\ modal.open /\ ~modal'.open /\ modal.saving /\ ~modal'.saving =>
           \A r \in Rooms : HomeOf[r] = modal.rooms /\ sheet[r].value # 0 =>
              entries[r, modal.period].value = sheet[r].value]_quickVars
  BY PartsStep, ClosesWhenAllStoredStep
<1> QED BY <1>1, <1>2, <1>3, PTL DEF Spec, ClosesWhenAllStored

-----------------------------------------------------------------------------
(* The form for one invoice.                                                  *)

HasRooms(h) == \E d \in Dwellings : OwnerOf[d] = h
RoomsComing == \E n \in Fetching : fetches[n].what = "rooms"
ReadingsComing == {n \in Fetching : fetches[n].what # "rooms"}

\* A list of rooms is of the chosen house, and nothing that was asked for before
\* it is still to come; nor before an answer's second half.
TurnInv ==
  \A n \in Fetching :
    /\ fetches[n].what \in {"rooms", "tenants"} => \A m \in Fetching : n <= m
    /\ fetches[n].what = "rooms" => fetches[n].for = form.house

\* The search for a room is one for the house whose rooms are there; before a
\* house is chosen, nothing goes on.
AdviceInv ==
  /\ homeAsked => form.house = Unset /\ Fetching = {}
  /\ form.house = Unset => advice.room = Unset /\ ~advice.asked
  /\ form.house # Unset /\ ~RoomsComing =>
       /\ offered = form.house
       /\ advice.asked => advice.of = form.house
       /\ ~advice.asked => advice.room = IF HasRooms(form.house) THEN Preferred[form.house] ELSE Unset

\* The room in the form is of the house the last advice was about, and either
\* the form has its readings and tenants or they are the last to come.
LastComing(n) ==
  /\ \A m \in ReadingsComing : m <= n
  /\ fetches[n].for = form.room
  /\ fetches[n].what = "tenants" => form.readings = form.room
ChosenInv ==
  form.room # Unset =>
    /\ advice.room # Unset /\ OwnerOf[form.room] = OwnerOf[advice.room]
    /\ \/ ReadingsComing = {} /\ form.readings = form.room /\ form.tenants = form.room
       \/ \E n \in ReadingsComing : LastComing(n)

\* A search is made for a house that has rooms.
AskedInv == advice.asked => advice.of \in Owners /\ HasRooms(advice.of)

\* Lists of rooms are fetched for houses, all else for rooms.
KindInv == \A n \in Fetching : IF fetches[n].what = "rooms" THEN fetches[n].for \in Owners
                                                         ELSE fetches[n].for \in Dwellings

PayloadInv == \A c \in created : OwnerOf[c.room] = c.house /\ c.readings = c.room /\ c.tenants = c.room
OrderInv == TurnInv /\ AdviceInv /\ ChosenInv /\ PayloadInv
FormInv == FormTypeOK /\ AskedInv /\ KindInv /\ (mode = "orderly" => OrderInv)

Homes0 == Owners \cup {Unset}
Choices0 == Dwellings \cup {Unset}
FormRecords == [house : Homes0, room : Choices0, readings : Choices0, tenants : Choices0, sending : BOOLEAN, open : BOOLEAN]
Advices == [asked : BOOLEAN, of : Homes0, room : Choices0]
FetchRecords == [what : {"rooms", "readings", "tenants", "done"}, for : Owners \cup Dwellings]
Payloads == [house : Owners, room : Dwellings, readings : Choices0, tenants : Choices0]

LEMMA FormTypes ==
  FormTypeOK <=>
    /\ mode \in Modes /\ form \in FormRecords /\ offered \in Homes0 /\ homeAsked \in BOOLEAN
    /\ advice \in Advices /\ fetches \in Seq(FetchRecords) /\ created \in SUBSET Payloads
BY DEF FormTypeOK, FormRecords, Advices, FetchRecords, Payloads, Homes0, Choices0

LEMMA Places ==
  /\ \A d \in Dwellings : /\ d # Unset /\ OwnerOf[d] \in Owners /\ OwnerOf[d] # Unset
                          /\ Preferred[OwnerOf[d]] \in Dwellings /\ OwnerOf[Preferred[OwnerOf[d]]] = OwnerOf[d]
  /\ \A h \in Owners : h # Unset
  /\ ~HasRooms(Unset)
BY FormAssumption DEF HasRooms

\* How the list of fetches changes.
FetchAdded(what, for) ==
  \E n \in Nat :
    /\ Fetching' = Fetching \cup {n} /\ n \notin Fetching
    /\ \A m \in Fetching : m \in Nat /\ m <= n /\ fetches'[m] = fetches[m]
    /\ fetches'[n].what = what /\ fetches'[n].for = for

LEMMA FetchAdding ==
  ASSUME fetches \in Seq(FetchRecords), NEW what \in {"rooms", "readings"}, NEW for \in Owners \cup Dwellings,
         fetches' = Append(fetches, [what |-> what, for |-> for])
  PROVE  fetches' \in Seq(FetchRecords) /\ FetchAdded(what, for)
<1> DEFINE q == [what |-> what, for |-> for]
<1>0. q \in FetchRecords /\ q.what = what /\ q.for = for
  BY DEF FetchRecords
<1> HIDE DEF q
<1>1. PICK k \in Nat : k = Len(fetches)
  OBVIOUS
<1>2. /\ fetches' \in Seq(FetchRecords) /\ Len(fetches') = k + 1 /\ fetches'[k + 1] = q
      /\ \A n \in 1..k : fetches'[n] = fetches[n]
  BY <1>0, <1>1 DEF q
<1>3. DOMAIN fetches = 1..k /\ DOMAIN fetches' = 1..(k + 1)
  BY <1>1, <1>2
<1>4. \A n : n \in Fetching <=> n \in 1..k /\ fetches[n].what # "done"
  BY <1>3 DEF Fetching
<1>5. \A n : n \in Fetching' <=> n \in 1..(k + 1) /\ fetches'[n].what # "done"
  BY <1>3 DEF Fetching
<1>6. Fetching \subseteq 1..k /\ k + 1 \notin Fetching
  BY <1>4
<1>7. k + 1 \in Fetching'
  BY <1>0, <1>2, <1>5
<1>8. \A n \in 1..k : n \in Fetching' <=> n \in Fetching
  BY <1>2, <1>4, <1>5
<1>9. Fetching' = Fetching \cup {k + 1}
  <2>1. \A n : n \in 1..(k + 1) <=> n \in 1..k \/ n = k + 1
    OBVIOUS
  <2> QED BY <1>5, <1>6, <1>7, <1>8, <2>1
<1>10. \A m \in Fetching : m \in Nat /\ m <= k + 1 /\ fetches'[m] = fetches[m]
  BY <1>2, <1>6
<1>11. k + 1 \in Nat
  OBVIOUS
<1> QED BY <1>0, <1>2, <1>6, <1>9, <1>10, <1>11 DEF FetchAdded

FetchMoved(n, what) ==
  /\ fetches'[n].what = what /\ fetches'[n].for = fetches[n].for
  /\ Fetching' = IF what = "done" THEN Fetching \ {n} ELSE Fetching
  /\ \A m \in Fetching : m # n => fetches'[m] = fetches[m]
  /\ Fetching \subseteq Nat

LEMMA FetchMoving ==
  ASSUME fetches \in Seq(FetchRecords), NEW n \in Fetching, NEW what \in {"tenants", "done"},
         fetches' = [fetches EXCEPT ![n].what = what]
  PROVE  fetches' \in Seq(FetchRecords) /\ FetchMoved(n, what)
<1> DEFINE q == [fetches[n] EXCEPT !.what = what]
<1>0. n \in DOMAIN fetches /\ fetches[n] \in FetchRecords
  BY DEF Fetching
<1>1. q \in FetchRecords /\ q.for = fetches[n].for /\ q.what = what
  BY <1>0 DEF FetchRecords
<1>2. fetches' = [fetches EXCEPT ![n] = q]
  BY <1>0
<1> HIDE DEF q
<1>3. fetches' \in Seq(FetchRecords) /\ DOMAIN fetches' = DOMAIN fetches /\ fetches'[n] = q
  <2>1. DOMAIN fetches' = DOMAIN fetches /\ fetches'[n] = q
    BY <1>0, <1>2
  <2>2. q \in FetchRecords /\ fetches \in Seq(FetchRecords)
    BY <1>1
  <2>3. [fetches EXCEPT ![n] = q] \in Seq(FetchRecords)
    BY ONLY <1>0, <2>2, UpdatedSeq
  <2> QED BY ONLY <1>2, <2>1, <2>3
<1>4. \A m \in DOMAIN fetches : m # n => fetches'[m] = fetches[m]
  BY <1>2
<1>5. \A m : m \in Fetching <=> m \in DOMAIN fetches /\ fetches[m].what # "done"
  BY DEF Fetching
<1>6. \A m : m \in Fetching' <=> m \in DOMAIN fetches /\ fetches'[m].what # "done"
  BY <1>3 DEF Fetching
<1>7. Fetching' = IF what = "done" THEN Fetching \ {n} ELSE Fetching
  BY <1>1, <1>3, <1>4, <1>5, <1>6
<1>8. \A m \in Fetching : m # n => fetches'[m] = fetches[m]
  BY <1>4, <1>5
<1>9. Fetching \subseteq Nat
  BY <1>5
<1> QED BY <1>1, <1>3, <1>7, <1>8, <1>9 DEF FetchMoved

LEMMA FetchIn ==
  ASSUME FormTypeOK, NEW n \in Fetching
  PROVE  n \in DOMAIN fetches /\ n \in Nat /\ fetches[n] \in FetchRecords /\ fetches[n].what # "done"
BY FormTypes DEF Fetching

LEMMA KindStep ==
  ASSUME KindInv,
         \/ fetches' = fetches
         \/ \E h \in Owners : FetchAdded("rooms", h)
         \/ \E d \in Dwellings : FetchAdded("readings", d)
         \/ \E n \in Fetching : FetchMoved(n, "done")
         \/ \E n \in Fetching : fetches[n].what = "readings" /\ FetchMoved(n, "tenants")
  PROVE  KindInv'
<1>1. CASE fetches' = fetches
  BY <1>1 DEF KindInv, Fetching
<1>2. ASSUME NEW h \in Owners, FetchAdded("rooms", h) PROVE KindInv'
  BY <1>2 DEF KindInv, FetchAdded
<1>3. ASSUME NEW d \in Dwellings, FetchAdded("readings", d) PROVE KindInv'
  BY <1>3 DEF KindInv, FetchAdded
<1>4. ASSUME NEW n \in Fetching, FetchMoved(n, "done") PROVE KindInv'
  BY <1>4 DEF KindInv, FetchMoved
<1>5. ASSUME NEW n \in Fetching, fetches[n].what = "readings", FetchMoved(n, "tenants") PROVE KindInv'
  BY <1>5 DEF KindInv, FetchMoved
<1> QED BY <1>1, <1>2, <1>3, <1>4, <1>5

\* What a search and its advice do to the form.
LEMMA SearchEffect ==
  ASSUME FormTypeOK, NEW h \in Homes0, NEW rooms \in Homes0
  PROVE  LET a == Search(h, rooms) IN
           /\ a \in Advices
           /\ a.asked = (h # Unset /\ HasRooms(rooms))
           /\ a.asked => a.of = rooms /\ a.room = advice.room
           /\ ~a.asked => a.room = Unset
<1> DEFINE a == Search(h, rooms)
<1>1. advice.room \in Choices0 /\ Unset \in Homes0 /\ Unset \in Choices0
  BY FormTypes DEF Advices, Homes0, Choices0
<1>2. CASE h = Unset \/ ~HasRooms(rooms)
  <2>1. a = [asked |-> FALSE, of |-> Unset, room |-> Unset]
    BY <1>2 DEF Search, HasRooms
  <2> HIDE DEF a
  <2>2. a \in Advices /\ a.asked = FALSE /\ a.room = Unset
    BY <1>1, <2>1 DEF Advices
  <2>3. a.asked = (h # Unset /\ HasRooms(rooms))
    BY <1>2, <2>2
  <2> QED BY <2>2, <2>3 DEF a
<1>3. CASE ~(h = Unset \/ ~HasRooms(rooms))
  <2>1. a = [asked |-> TRUE, of |-> rooms, room |-> advice.room]
    BY <1>3 DEF Search, HasRooms
  <2> HIDE DEF a
  <2>2. a \in Advices /\ a.asked = TRUE /\ a.of = rooms /\ a.room = advice.room
    BY <1>1, <2>1 DEF Advices
  <2>3. a.asked = (h # Unset /\ HasRooms(rooms))
    BY <1>3, <2>2
  <2> QED BY <2>2, <2>3 DEF a
<1> QED BY <1>2, <1>3

LEMMA AdvisedEffect ==
  ASSUME NEW f \in FormRecords, NEW a \in Advices
  PROVE  LET g == Advised(f, a) IN
           /\ g \in FormRecords /\ g.house = f.house /\ g.tenants = f.tenants
           /\ a.room = advice.room => g = f
           /\ a.room # advice.room => g.room = a.room
           /\ a.room # Unset => g.readings = f.readings
<1>1. a.room \in Choices0
  BY DEF Advices
<1>2. CASE a.room = advice.room
  BY <1>2 DEF Advised
<1>3. CASE a.room # advice.room /\ a.room = Unset
  <2>1. Advised(f, a) = [f EXCEPT !.room = a.room, !.readings = Unset]
    BY <1>3 DEF Advised, WithRoom
  <2> QED BY <1>1, <1>3, <2>1 DEF FormRecords
<1>4. CASE a.room # advice.room /\ a.room # Unset
  <2>1. Advised(f, a) = [f EXCEPT !.room = a.room]
    BY <1>4 DEF Advised, WithRoom
  <2> QED BY <1>1, <1>4, <2>1 DEF FormRecords
<1> QED BY <1>2, <1>3, <1>4
Putting(h) ==
  /\ advice' \in Advices /\ form' \in FormRecords /\ fetches' \in Seq(FetchRecords)
  /\ form'.house = h /\ form'.tenants = form.tenants
  /\ advice'.asked = (h # Unset /\ HasRooms(offered))
  /\ advice'.asked => advice'.of = offered /\ advice'.room = advice.room
  /\ ~advice'.asked => advice'.room = Unset
  /\ advice'.room = advice.room => form'.room = form.room /\ form'.readings = form.readings
  /\ advice'.room # advice.room => form'.room = Unset
  /\ IF h = Unset THEN fetches' = fetches ELSE FetchAdded("rooms", h)

LEMMA PutEffect ==
  ASSUME FormTypeOK, NEW h \in Homes0, PutHouse(h)
  PROVE  Putting(h)
<1> DEFINE a == Search(h, offered)
           f == [form EXCEPT !.house = h]
<1>1. form \in FormRecords /\ offered \in Homes0 /\ fetches \in Seq(FetchRecords)
  BY FormTypes
<1>2. /\ a \in Advices /\ a.asked = (h # Unset /\ HasRooms(offered))
      /\ a.asked => a.of = offered /\ a.room = advice.room
      /\ ~a.asked => a.room = Unset
  BY <1>1, SearchEffect
<1>3. /\ f \in FormRecords /\ f.house = h /\ f.tenants = form.tenants /\ f.room = form.room
      /\ f.readings = form.readings
  BY <1>1 DEF FormRecords
<1>4. advice' = a /\ form' = Advised(f, a)
      /\ fetches' = fetches \o AdvisedFetch(form, a) \o IF h = Unset THEN <<>> ELSE <<[what |-> "rooms", for |-> h]>>
  BY DEF PutHouse
<1> HIDE DEF a, f
<1>5. /\ form' \in FormRecords /\ form'.house = f.house /\ form'.tenants = f.tenants
      /\ a.room = advice.room => form' = f
      /\ a.room # advice.room => form'.room = a.room
  BY <1>2, <1>3, <1>4, AdvisedEffect
<1>6. AdvisedFetch(form, a) = <<>>
  BY <1>2 DEF AdvisedFetch, ReadingsOf
<1>7. fetches \o <<>> = fetches
  BY <1>1
<1>8. CASE h = Unset
  <2>1. fetches' = fetches
    BY <1>4, <1>6, <1>7, <1>8
  <2> QED BY <1>1, <1>2, <1>3, <1>4, <1>5, <1>8, <2>1 DEF Putting
<1>9. CASE h # Unset
  <2>1. fetches' = fetches \o <<[what |-> "rooms", for |-> h]>>
    BY <1>4, <1>6, <1>7, <1>9
  <2>2. fetches' = Append(fetches, [what |-> "rooms", for |-> h])
    BY <1>1, <2>1
  <2>3. h \in Owners
    BY <1>9 DEF Homes0
  <2>4. fetches' \in Seq(FetchRecords) /\ FetchAdded("rooms", h)
    BY <1>1, <2>2, <2>3, FetchAdding
  <2> QED BY <1>2, <1>3, <1>4, <1>5, <1>9, <2>4 DEF Putting
<1> QED BY <1>8, <1>9

\* A house put into a form at rest.
LEMMA PutStep ==
  ASSUME FormInv, NEW h \in Homes0, PutHouse(h), UNCHANGED <<mode, offered, created>>, homeAsked' = FALSE,
         mode = "orderly" => Fetching = {}
  PROVE  FormInv'
<1>1. FormTypeOK /\ Putting(h)
  BY PutEffect DEF FormInv
<1>2. FormTypeOK'
  <2>1. /\ mode' \in Modes /\ offered' \in Homes0 /\ homeAsked' \in BOOLEAN /\ created' \in SUBSET Payloads
    BY <1>1, FormTypes
  <2>2. form' \in FormRecords /\ advice' \in Advices /\ fetches' \in Seq(FetchRecords)
    BY <1>1 DEF Putting
  <2> QED BY <2>1, <2>2 DEF FormTypeOK, FormRecords, Advices, FetchRecords, Payloads, Homes0, Choices0
<1>3. ASSUME mode = "orderly" PROVE OrderInv'
  <2>1. OrderInv /\ Fetching = {}
    BY <1>3 DEF FormInv
  <2>2. PayloadInv'
    BY <2>1 DEF OrderInv, PayloadInv
  <2>3. form'.room # Unset => /\ form.room # Unset /\ form'.room = form.room /\ form'.readings = form.readings
                              /\ advice'.room = advice.room /\ advice.room # Unset
    BY <1>1, <2>1 DEF Putting, OrderInv, ChosenInv
  <2>4. form'.room # Unset => /\ form'.readings = form'.room /\ form'.tenants = form'.room
                              /\ advice'.room # Unset /\ OwnerOf[form'.room] = OwnerOf[advice'.room]
    BY <1>1, <2>1, <2>3 DEF Putting, OrderInv, ChosenInv, ReadingsComing
  <2>6. CASE h = Unset
    <3>1. Fetching' = {}
      BY <1>1, <2>1, <2>6 DEF Putting, Fetching
    <3>2. form'.house = Unset /\ advice'.room = Unset /\ ~advice'.asked
      BY <1>1, <2>6 DEF Putting
    <3>3. TurnInv' /\ AdviceInv'
      BY <3>1, <3>2 DEF TurnInv, AdviceInv
    <3>4. ChosenInv'
      BY <2>4, <3>1 DEF ChosenInv, ReadingsComing
    <3> QED BY <2>2, <3>3, <3>4 DEF OrderInv
  <2>7. CASE h # Unset
    <3>1. PICK n \in Nat : Fetching' = {n} /\ fetches'[n].what = "rooms" /\ fetches'[n].for = h
      BY <1>1, <2>1, <2>7 DEF Putting, FetchAdded
    <3>2. form'.house = h /\ h \in Owners
      BY <1>1, <2>7 DEF Putting, Homes0
    <3>3. TurnInv'
      BY <3>1, <3>2 DEF TurnInv
    <3>4. RoomsComing' /\ ReadingsComing' = {}
      BY <3>1 DEF RoomsComing, ReadingsComing
    <3>5. AdviceInv'
      BY <2>7, <3>2, <3>4 DEF AdviceInv
    <3>6. ChosenInv'
      BY <2>4, <3>4 DEF ChosenInv
    <3> QED BY <2>2, <3>3, <3>5, <3>6 DEF OrderInv
  <2> QED BY <2>6, <2>7
<1>4. AskedInv'
  BY <1>1, FormTypes, Places DEF Putting, Homes0, AskedInv
<1>5. KindInv'
  BY <1>1, KindStep DEF FormInv, Putting, Homes0
<1> QED BY <1>2, <1>3, <1>4, <1>5 DEF FormInv

LEMMA ChooseOwnerStep == ASSUME FormInv, NEW h \in Homes0, ChooseOwner(h) PROVE FormInv'
<1>1. homeAsked' = FALSE
  BY FormTypes DEF ChooseOwner, FormInv
<1>2. mode = "orderly" => Fetching = {}
  BY DEF ChooseOwner, AtFields, Quiescent
<1> QED BY <1>1, <1>2, PutStep DEF ChooseOwner

\* What leaves the fetches, the room and the advice alone.
LEMMA FormRests ==
  ASSUME FormInv, form' \in FormRecords, homeAsked' \in BOOLEAN, created' \in SUBSET Payloads,
         UNCHANGED <<mode, offered, advice, fetches>>, homeAsked' => homeAsked,
         form'.house = form.house, form'.room = form.room, form'.readings = form.readings,
         form'.tenants = form.tenants, mode = "orderly" => PayloadInv'
  PROVE  FormInv'
<1>1. FormTypeOK'
  BY FormTypes DEF FormInv, FormTypeOK, FormRecords, Payloads, Homes0, Choices0
<1>2. ASSUME OrderInv, PayloadInv' PROVE OrderInv'
  <2>1. Fetching' = Fetching /\ RoomsComing' = RoomsComing /\ ReadingsComing' = ReadingsComing
    BY DEF Fetching, RoomsComing, ReadingsComing
  <2>2. TurnInv' /\ AdviceInv'
    BY <1>2, <2>1 DEF OrderInv, TurnInv, AdviceInv
  <2>3. ChosenInv'
    BY <1>2, <2>1 DEF OrderInv, ChosenInv, LastComing
  <2> QED BY <1>2, <2>2, <2>3 DEF OrderInv
<1>3. AskedInv' /\ KindInv'
  BY KindStep DEF FormInv, AskedInv
<1> QED BY <1>1, <1>2, <1>3 DEF FormInv

LEMMA OwnerAdvisedStep == ASSUME FormInv, NEW h \in Owners, OwnerAdvised(h) PROVE FormInv'
<1>1. homeAsked' = FALSE /\ homeAsked /\ UNCHANGED <<mode, offered, created>> /\ h \in Homes0
  BY DEF OwnerAdvised, Homes0
<1>2. CASE form.house = Unset
  <2>1. mode = "orderly" => Fetching = {}
    BY <1>1 DEF FormInv, OrderInv, AdviceInv
  <2>2. PutHouse(h)
    BY <1>2 DEF OwnerAdvised
  <2> QED BY <1>1, <2>1, <2>2, PutStep
<1>3. CASE form.house # Unset
  <2>1. UNCHANGED <<form, advice, fetches>>
    BY <1>3 DEF OwnerAdvised
  <2>2. mode = "orderly" => PayloadInv'
    BY <1>1 DEF FormInv, OrderInv, PayloadInv
  <2> QED BY <1>1, <2>1, <2>2, FormRests, FormTypes DEF FormInv
<1> QED BY <1>2, <1>3

LEMMA CreateStep == ASSUME FormInv, Create PROVE FormInv'
<1>1. FormTypeOK /\ form \in FormRecords
  BY FormTypes DEF FormInv
<1>2. form' = [form EXCEPT !.sending = TRUE] /\ UNCHANGED <<mode, offered, homeAsked, advice, fetches>>
  BY DEF Create
<1>3. /\ form' \in FormRecords /\ form'.house = form.house /\ form'.room = form.room
      /\ form'.readings = form.readings /\ form'.tenants = form.tenants
  BY <1>1, <1>2 DEF FormRecords
<1> DEFINE c == [house |-> form.house, room |-> form.room, readings |-> form.readings, tenants |-> form.tenants]
<1>4. created' = created \cup {c}
  BY DEF Create
<1>5. c \in Payloads /\ c.house = form.house /\ c.room = form.room /\ c.readings = form.readings
      /\ c.tenants = form.tenants
  BY <1>1 DEF Payloads, FormRecords, Create, Homes0, Choices0
<1> HIDE DEF c
<1>6. created' \in SUBSET Payloads
  BY <1>1, <1>4, <1>5, FormTypes
<1>7. ASSUME mode = "orderly" PROVE PayloadInv'
  <2>1. OrderInv /\ Fetching = {} /\ ~advice.asked
    BY <1>7 DEF FormInv, Create, AtFields, Quiescent
  <2>2. ~RoomsComing /\ ReadingsComing = {}
    BY <2>1 DEF RoomsComing, ReadingsComing
  <2>3. form.house # Unset /\ form.room # Unset /\ form.house \in Owners /\ form.room \in Dwellings
    BY <1>1 DEF Create, FormRecords, Homes0, Choices0
  <2>4. advice.room = Preferred[form.house] /\ advice.room # Unset /\ HasRooms(form.house)
    BY <2>1, <2>2, <2>3 DEF OrderInv, AdviceInv, ChosenInv
  <2>5. OwnerOf[advice.room] = form.house
    BY <2>3, <2>4, Places DEF HasRooms
  <2>6. OwnerOf[form.room] = form.house /\ form.readings = form.room /\ form.tenants = form.room
    BY <2>1, <2>2, <2>3, <2>5 DEF OrderInv, ChosenInv
  <2> QED BY <1>4, <1>5, <2>1, <2>6 DEF OrderInv, PayloadInv
<1> QED BY <1>1, <1>2, <1>3, <1>6, <1>7, FormRests, FormTypes

LEMMA EndFormStep == ASSUME FormInv, GiveUp \/ \E success \in BOOLEAN : Created(success) PROVE FormInv'
<1>1. FormTypeOK /\ form \in FormRecords
  BY FormTypes DEF FormInv
<1>2. UNCHANGED <<mode, offered, homeAsked, advice, fetches, created>>
  BY DEF GiveUp, Created
<1>3. /\ form' \in FormRecords /\ form'.house = form.house /\ form'.room = form.room
      /\ form'.readings = form.readings /\ form'.tenants = form.tenants
  BY <1>1 DEF FormRecords, GiveUp, Created
<1>4. mode = "orderly" => PayloadInv'
  BY <1>2 DEF FormInv, OrderInv, PayloadInv
<1> QED BY <1>1, <1>2, <1>3, <1>4, FormRests, FormTypes

\* A room put into the form.
RoomPutting(d) ==
  /\ form' \in FormRecords /\ fetches' \in Seq(FetchRecords)
  /\ form'.house = form.house /\ form'.tenants = form.tenants /\ form'.room = d
  /\ d # Unset => form'.readings = form.readings
  /\ IF d = Unset \/ d = form.room THEN fetches' = fetches ELSE FetchAdded("readings", d)

LEMMA RoomPut ==
  ASSUME FormTypeOK, NEW d \in Choices0, form' = WithRoom(form, d), fetches' = fetches \o ReadingsOf(form, d)
  PROVE  RoomPutting(d)
<1>1. form \in FormRecords /\ fetches \in Seq(FetchRecords)
  BY FormTypes
<1>2. /\ form' \in FormRecords /\ form'.house = form.house /\ form'.tenants = form.tenants /\ form'.room = d
      /\ d # Unset => form'.readings = form.readings
  <2>1. CASE d = Unset
    BY <1>1, <2>1 DEF WithRoom, FormRecords, Choices0
  <2>2. CASE d # Unset
    BY <1>1, <2>2 DEF WithRoom, FormRecords
  <2> QED BY <2>1, <2>2
<1>3. CASE d = Unset \/ d = form.room
  <2>1. fetches' = fetches
    BY <1>1, <1>3 DEF ReadingsOf
  <2> QED BY <1>1, <1>2, <1>3, <2>1 DEF RoomPutting
<1>4. CASE ~(d = Unset \/ d = form.room)
  <2>1. fetches' = Append(fetches, [what |-> "readings", for |-> d])
    BY <1>1, <1>4 DEF ReadingsOf
  <2>2. d \in Owners \cup Dwellings
    BY <1>4 DEF Choices0
  <2>3. fetches' \in Seq(FetchRecords) /\ FetchAdded("readings", d)
    BY <1>1, <2>1, <2>2, FetchAdding
  <2> QED BY <1>2, <1>4, <2>3 DEF RoomPutting
<1> QED BY <1>3, <1>4

\* A room that agrees with the advice keeps what holds of fetches and rooms.
LEMMA RoomPutKeeps ==
  ASSUME FormTypeOK, OrderInv, NEW d \in Choices0, RoomPutting(d),
         d # Unset => advice'.room # Unset /\ OwnerOf[d] = OwnerOf[advice'.room]
  PROVE  TurnInv' /\ ChosenInv' /\ (RoomsComing' <=> RoomsComing) /\ (Fetching = {} /\ d = Unset => Fetching' = {})
<1>1. TurnInv /\ ChosenInv /\ form'.house = form.house /\ form'.room = d /\ form'.tenants = form.tenants
      /\ (d # Unset => form'.readings = form.readings)
  BY DEF OrderInv, RoomPutting
<1>2. CASE d = Unset \/ d = form.room
  <2>1. fetches' = fetches
    BY <1>2 DEF RoomPutting
  <2>2. Fetching' = Fetching /\ ReadingsComing' = ReadingsComing /\ (RoomsComing' <=> RoomsComing)
    BY <2>1 DEF Fetching, RoomsComing, ReadingsComing
  <2>3. TurnInv'
    BY <1>1, <2>1, <2>2 DEF TurnInv
  <2>4. ChosenInv'
    BY <1>1, <1>2, <2>1, <2>2 DEF ChosenInv, LastComing
  <2> QED BY <2>2, <2>3, <2>4
<1>3. CASE ~(d = Unset \/ d = form.room)
  <2>1. PICK n \in Nat : /\ Fetching' = Fetching \cup {n} /\ n \notin Fetching
                         /\ \A m \in Fetching : m \in Nat /\ m <= n /\ fetches'[m] = fetches[m]
                         /\ fetches'[n].what = "readings" /\ fetches'[n].for = d
    BY <1>3 DEF RoomPutting, FetchAdded
  <2>2. d \in Dwellings
    BY <1>3 DEF Choices0
  <2>3. TurnInv'
    BY <1>1, <2>1, <2>2 DEF TurnInv
  <2>4. RoomsComing' <=> RoomsComing
    BY <2>1 DEF RoomsComing
  <2>5. n \in ReadingsComing' /\ \A m \in ReadingsComing' : m <= n
    BY <2>1 DEF ReadingsComing
  <2>6. LastComing(n)'
    BY <1>1, <2>1, <2>5 DEF LastComing
  <2>7. ChosenInv'
    BY <1>1, <2>5, <2>6 DEF ChosenInv
  <2> QED BY <1>3, <2>3, <2>4, <2>7
<1> QED BY <1>2, <1>3

LEMMA ChooseRoomStep == ASSUME FormInv, NEW d \in Choices0, ChooseRoom(d) PROVE FormInv'
<1>1. FormTypeOK /\ UNCHANGED <<mode, offered, homeAsked, advice, created>>
  BY DEF FormInv, ChooseRoom
<1>2. RoomPutting(d)
  BY <1>1, RoomPut DEF ChooseRoom
<1>3. FormTypeOK'
  BY <1>1, <1>2, FormTypes DEF RoomPutting, FormTypeOK, FormRecords, FetchRecords, Homes0, Choices0
<1>4. ASSUME mode = "orderly" PROVE OrderInv'
  <2>1. OrderInv /\ Fetching = {} /\ ~advice.asked /\ form.house # Unset /\ ~homeAsked
    BY <1>4 DEF FormInv, ChooseRoom, AtFields, Quiescent
  <2>2. ~RoomsComing
    BY <2>1 DEF RoomsComing
  <2>3. offered = form.house /\ advice.room = IF HasRooms(form.house) THEN Preferred[form.house] ELSE Unset
    BY <2>1, <2>2 DEF OrderInv, AdviceInv
  <2>4. d # Unset => advice'.room # Unset /\ OwnerOf[d] = OwnerOf[advice'.room]
    <3> SUFFICES ASSUME d # Unset PROVE advice.room # Unset /\ OwnerOf[d] = OwnerOf[advice.room]
      BY <1>1
    <3>1. d \in Dwellings /\ OwnerOf[d] = form.house
      BY <2>3 DEF Choices0, ChooseRoom
    <3>2. advice.room = Preferred[OwnerOf[d]]
      BY <2>3, <3>1 DEF HasRooms
    <3> QED BY <3>1, <3>2, Places
  <2>5. TurnInv' /\ ChosenInv' /\ ~RoomsComing'
    BY <1>1, <1>2, <2>1, <2>2, <2>4, RoomPutKeeps
  <2>6. AdviceInv'
    BY <1>1, <1>2, <2>1, <2>2, <2>5 DEF OrderInv, AdviceInv, RoomPutting
  <2>7. PayloadInv'
    BY <1>1, <2>1 DEF OrderInv, PayloadInv
  <2> QED BY <2>5, <2>6, <2>7 DEF OrderInv
<1>5. AskedInv' /\ KindInv'
  BY <1>1, <1>2, KindStep DEF FormInv, AskedInv, RoomPutting, Choices0
<1> QED BY <1>1, <1>3, <1>4, <1>5 DEF FormInv

LEMMA RoomAdvisedStep == ASSUME FormInv, RoomAdvised PROVE FormInv'
<1>1. FormTypeOK /\ UNCHANGED <<mode, offered, homeAsked, created>> /\ advice.asked /\ advice \in Advices
      /\ form \in FormRecords /\ fetches \in Seq(FetchRecords)
  BY FormTypes DEF FormInv, RoomAdvised
<1>2. PICK p \in Dwellings : p = Preferred[advice.of] /\ OwnerOf[p] = advice.of
  BY <1>1, Places DEF FormInv, AskedInv, HasRooms
<1> DEFINE a == [advice EXCEPT !.asked = FALSE, !.room = p]
<1>3. advice' = a /\ form' = Advised(form, a) /\ fetches' = fetches \o AdvisedFetch(form, a)
  BY <1>2 DEF RoomAdvised
<1>4. a \in Advices /\ a.asked = FALSE /\ a.room = p /\ a.of = advice.of /\ p # Unset
  BY <1>1, Places DEF Advices, Choices0
<1> HIDE DEF a
<1>5. p = advice.room => form' = form /\ fetches' = fetches
  BY <1>1, <1>3, <1>4 DEF Advised, AdvisedFetch
<1>6. p # advice.room => RoomPutting(p)
  <2> SUFFICES ASSUME p # advice.room PROVE RoomPutting(p)
    OBVIOUS
  <2>1. form' = WithRoom(form, p) /\ fetches' = fetches \o ReadingsOf(form, p)
    BY <1>3, <1>4 DEF Advised, AdvisedFetch
  <2>2. p \in Choices0
    BY DEF Choices0
  <2> QED BY <1>1, <2>1, <2>2, RoomPut
<1>7. FormTypeOK' /\ AskedInv' /\ KindInv'
  <2>1. mode' \in Modes /\ offered' \in Homes0 /\ homeAsked' \in BOOLEAN /\ created' \in SUBSET Payloads
    BY <1>1, FormTypes
  <2>2. form' \in FormRecords /\ fetches' \in Seq(FetchRecords) /\ advice' \in Advices
    BY <1>1, <1>3, <1>4, <1>5, <1>6 DEF RoomPutting
  <2>3. AskedInv' /\ KindInv'
    BY <1>3, <1>4, <1>5, <1>6, KindStep DEF FormInv, AskedInv, RoomPutting
  <2> QED BY <2>1, <2>2, <2>3 DEF FormTypeOK, FormRecords, Advices, FetchRecords, Payloads, Homes0, Choices0
<1>8. ASSUME mode = "orderly" PROVE OrderInv'
  <2>1. OrderInv
    BY <1>8 DEF FormInv
  <2>2. TurnInv' /\ ChosenInv' /\ (RoomsComing' <=> RoomsComing) /\ form'.house = form.house
    <3>1. CASE p = advice.room
      <4>1. form' = form /\ fetches' = fetches /\ advice'.room = advice.room
        BY <1>3, <1>4, <1>5, <3>1
      <4>2. Fetching' = Fetching /\ RoomsComing' = RoomsComing /\ ReadingsComing' = ReadingsComing
        BY <4>1 DEF Fetching, RoomsComing, ReadingsComing
      <4> QED BY <2>1, <4>1, <4>2 DEF OrderInv, TurnInv, ChosenInv, LastComing
    <3>2. CASE p # advice.room
      <4>1. RoomPutting(p) /\ p \in Choices0 /\ advice'.room = p
        BY <1>3, <1>4, <1>6, <3>2 DEF Choices0
      <4>2. TurnInv' /\ ChosenInv' /\ (RoomsComing' <=> RoomsComing)
        BY <1>1, <1>4, <2>1, <4>1, RoomPutKeeps
      <4> QED BY <4>1, <4>2 DEF RoomPutting
    <3> QED BY <3>1, <3>2
  <2>3. form.house # Unset /\ ~homeAsked
    BY <1>1, <2>1 DEF OrderInv, AdviceInv
  <2>4. AdviceInv'
    <3>1. ~RoomsComing => offered = form.house /\ advice.of = form.house
      BY <1>1, <2>1, <2>3 DEF OrderInv, AdviceInv
    <3>2. ~RoomsComing => p = Preferred[form.house] /\ HasRooms(form.house)
      BY <1>2, <3>1 DEF HasRooms
    <3> QED BY <1>1, <1>3, <1>4, <2>2, <2>3, <3>1, <3>2 DEF AdviceInv
  <2>5. PayloadInv'
    BY <1>1, <2>1 DEF OrderInv, PayloadInv
  <2> QED BY <2>2, <2>4, <2>5 DEF OrderInv
<1> QED BY <1>1, <1>7, <1>8 DEF FormInv

LEMMA HastyStep ==
  ASSUME FormInv, AdviceFails \/ \E n \in DOMAIN fetches : FormFetchFails(n)
  PROVE  FormInv'
<1>1. /\ FormTypeOK /\ mode = "hasty" /\ UNCHANGED <<mode, offered, homeAsked, created>>
      /\ form \in FormRecords /\ advice \in Advices /\ fetches \in Seq(FetchRecords)
  BY FormTypes DEF FormInv, AdviceFails, FormFetchFails
<1>2. CASE AdviceFails
  <2> DEFINE a == [advice EXCEPT !.asked = FALSE, !.room = Unset]
  <2>1. a \in Advices /\ a.asked = FALSE
    BY <1>1 DEF Advices, Choices0
  <2>2. advice' = a /\ form' = Advised(form, a) /\ fetches' = fetches
    BY <1>2 DEF AdviceFails
  <2> HIDE DEF a
  <2>3. form' \in FormRecords
    BY <1>1, <2>1, <2>2, AdvisedEffect
  <2>4. FormTypeOK'
    BY <1>1, <2>1, <2>2, <2>3, FormTypes DEF FormTypeOK, FormRecords, Advices, Homes0, Choices0
  <2>5. AskedInv' /\ KindInv'
    BY <2>1, <2>2, KindStep DEF AskedInv, FormInv
  <2> QED BY <1>1, <2>4, <2>5 DEF FormInv
<1>3. ASSUME NEW n \in DOMAIN fetches, FormFetchFails(n) PROVE FormInv'
  <2>1. n \in Fetching /\ UNCHANGED <<form, advice>>
    BY <1>3 DEF FormFetchFails, Fetching
  <2>2. fetches' \in Seq(FetchRecords) /\ FetchMoved(n, "done")
    BY <1>1, <1>3, <2>1, FetchMoving DEF FormFetchFails, FetchDone
  <2>3. FormTypeOK' /\ AskedInv' /\ KindInv'
    BY <1>1, <2>1, <2>2, FormTypes, KindStep DEF FormTypeOK, FetchRecords, FormInv, AskedInv
  <2> QED BY <1>1, <2>3 DEF FormInv
<1> QED BY <1>2, <1>3


LEMMA RoomsFetchedStep == ASSUME FormInv, NEW n \in DOMAIN fetches, RoomsFetched(n) PROVE FormInv'
<1>1. /\ FormTypeOK /\ UNCHANGED <<mode, homeAsked, created>> /\ n \in Fetching
      /\ form \in FormRecords /\ fetches \in Seq(FetchRecords) /\ fetches[n].what = "rooms"
  BY FormTypes DEF FormInv, RoomsFetched, Turn
<1>2. PICK o \in Owners : o = fetches[n].for
  BY <1>1 DEF FormInv, KindInv
<1>3. PICK h \in Homes0 : h = form.house
  BY <1>1 DEF FormRecords
<1> DEFINE a == Search(h, o)
<1>4. advice' = a /\ form' = Advised(form, a) /\ fetches' = FetchDone(n) /\ offered' = o
  BY <1>2, <1>3 DEF RoomsFetched
<1>5. fetches' \in Seq(FetchRecords) /\ FetchMoved(n, "done")
  BY <1>1, <1>4, FetchMoving DEF FetchDone
<1>6. /\ a \in Advices /\ a.asked = (h # Unset /\ HasRooms(o))
      /\ a.asked => a.of = o /\ a.room = advice.room
      /\ ~a.asked => a.room = Unset
  BY <1>1, SearchEffect DEF Homes0
<1> HIDE DEF a
<1>7. /\ form' \in FormRecords /\ form'.house = h /\ form'.tenants = form.tenants
      /\ a.room = advice.room => form' = form
      /\ a.room # advice.room => form'.room = a.room
  BY <1>1, <1>3, <1>4, <1>6, AdvisedEffect
<1>8. FormTypeOK'
  <2>1. mode' \in Modes /\ offered' \in Homes0 /\ homeAsked' \in BOOLEAN /\ created' \in SUBSET Payloads
    BY <1>1, <1>4, FormTypes DEF Homes0
  <2> QED BY <1>4, <1>5, <1>6, <1>7, <2>1 DEF FormTypeOK, FormRecords, Advices, FetchRecords, Payloads, Homes0, Choices0
<1>9. AskedInv' /\ KindInv'
  BY <1>1, <1>4, <1>5, <1>6, KindStep DEF FormInv, AskedInv
<1>10. ASSUME mode = "orderly" PROVE OrderInv'
  <2>1. OrderInv /\ o = h /\ form.house = h /\ h # Unset
    BY <1>1, <1>2, <1>3, <1>10, Places DEF FormInv, OrderInv, TurnInv
  <2>2. \A m \in Fetching : m # n => fetches[m].what = "readings"
    <3> SUFFICES ASSUME NEW m \in Fetching, m # n, fetches[m].what \in {"rooms", "tenants"} PROVE FALSE
      BY <1>1, FetchIn DEF FetchRecords
    <3>1. m <= n /\ n <= m
      BY <1>1, <2>1 DEF OrderInv, TurnInv
    <3> QED BY <1>1, <3>1, FetchIn
  <2>3. Fetching' = Fetching \ {n} /\ (\A m \in Fetching : m # n => fetches'[m] = fetches[m])
    BY <1>5 DEF FetchMoved
  <2>4. ~RoomsComing' /\ ReadingsComing' = ReadingsComing
    BY <1>1, <2>2, <2>3 DEF RoomsComing, ReadingsComing
  <2>5. TurnInv'
    BY <2>2, <2>3 DEF TurnInv
  <2>6. ~homeAsked
    BY <1>1, <2>1 DEF OrderInv, AdviceInv
  <2>7. AdviceInv'
    <3>1. ~a.asked => ~HasRooms(h)
      BY <1>6, <2>1
    <3> QED BY <1>1, <1>4, <1>6, <1>7, <2>1, <2>4, <2>6, <3>1 DEF AdviceInv
  <2>8. form'.room # Unset => form' = form /\ advice'.room = advice.room
    BY <1>4, <1>6, <1>7, <2>1 DEF OrderInv, ChosenInv
  <2>9. ChosenInv'
    <3> SUFFICES ASSUME form'.room # Unset PROVE ChosenInv'
      BY DEF ChosenInv
    <3>1. ChosenInv /\ form' = form /\ advice'.room = advice.room
      BY <2>1, <2>8 DEF OrderInv
    <3>2. \A m \in ReadingsComing : fetches'[m] = fetches[m]
      BY <1>1, <2>3 DEF ReadingsComing
    <3> QED BY <2>4, <3>1, <3>2 DEF ChosenInv, LastComing
  <2>10. PayloadInv'
    BY <1>1, <2>1 DEF OrderInv, PayloadInv
  <2> QED BY <2>5, <2>7, <2>9, <2>10 DEF OrderInv
<1> QED BY <1>1, <1>8, <1>9, <1>10 DEF FormInv

LEMMA ReadingsFetchedStep == ASSUME FormInv, NEW n \in DOMAIN fetches, ReadingsFetched(n) PROVE FormInv'
<1>1. /\ FormTypeOK /\ UNCHANGED <<mode, offered, homeAsked, advice, created>> /\ n \in Fetching
      /\ form \in FormRecords /\ fetches \in Seq(FetchRecords) /\ fetches[n].what = "readings"
  BY FormTypes DEF FormInv, ReadingsFetched, Turn
<1>2. PICK d \in Dwellings : d = fetches[n].for
  BY <1>1 DEF FormInv, KindInv
<1>3. fetches' \in Seq(FetchRecords) /\ FetchMoved(n, "tenants")
  BY <1>1, FetchMoving DEF ReadingsFetched
<1>4. form' = [form EXCEPT !.readings = d]
  BY <1>2 DEF ReadingsFetched
<1>5. /\ form' \in FormRecords /\ form'.house = form.house /\ form'.room = form.room
      /\ form'.tenants = form.tenants /\ form'.readings = d
  BY <1>1, <1>4 DEF FormRecords, Choices0
<1>6. FormTypeOK'
  BY <1>1, <1>3, <1>5, FormTypes DEF FormTypeOK, FormRecords, FetchRecords, Homes0, Choices0
<1>7. AskedInv' /\ KindInv'
  BY <1>1, <1>3, KindStep DEF FormInv, AskedInv
<1>8. ASSUME mode = "orderly" PROVE OrderInv'
  <2>1. OrderInv /\ \A m \in Fetching : n <= m
    BY <1>8 DEF FormInv, ReadingsFetched, Turn
  <2>2. /\ Fetching' = Fetching /\ fetches'[n].what = "tenants" /\ fetches'[n].for = d
        /\ \A m \in Fetching : m # n => fetches'[m] = fetches[m]
    BY <1>2, <1>3 DEF FetchMoved
  <2>3. ReadingsComing' = ReadingsComing /\ (RoomsComing' <=> RoomsComing)
    BY <1>1, <2>2 DEF ReadingsComing, RoomsComing
  <2>4. TurnInv'
    BY <1>5, <2>1, <2>2 DEF OrderInv, TurnInv
  <2>5. AdviceInv' /\ PayloadInv'
    BY <1>1, <1>5, <2>1, <2>2, <2>3 DEF OrderInv, AdviceInv, PayloadInv
  <2>6. ChosenInv'
    <3> SUFFICES ASSUME form.room # Unset PROVE ChosenInv'
      BY <1>5 DEF ChosenInv
    <3>1. n \in ReadingsComing
      BY <1>1 DEF ReadingsComing
    <3>2. PICK k \in ReadingsComing : LastComing(k)
      BY <2>1, <3>1 DEF OrderInv, ChosenInv
    <3>3. LastComing(k)'
      <4>1. CASE k = n
        BY <1>2, <1>5, <2>2, <2>3, <3>2, <4>1 DEF LastComing
      <4>2. CASE k # n
        <5>1. k \in Fetching /\ k \in Nat /\ n \in Nat
          BY <1>1, FetchIn DEF ReadingsComing
        <5>2. fetches[k].what # "tenants"
          BY <1>1, <2>1, <4>2, <5>1 DEF OrderInv, TurnInv
        <5> QED BY <1>5, <2>2, <2>3, <3>2, <4>2, <5>1, <5>2 DEF LastComing
      <4> QED BY <4>1, <4>2
    <3> QED BY <1>1, <1>5, <2>1, <2>3, <3>3 DEF OrderInv, ChosenInv
  <2> QED BY <2>4, <2>5, <2>6 DEF OrderInv
<1> QED BY <1>1, <1>6, <1>7, <1>8 DEF FormInv

LEMMA TenantsFetchedStep == ASSUME FormInv, NEW n \in DOMAIN fetches, TenantsFetched(n) PROVE FormInv'
<1>1. /\ FormTypeOK /\ UNCHANGED <<mode, offered, homeAsked, advice, created>> /\ n \in Fetching
      /\ form \in FormRecords /\ fetches \in Seq(FetchRecords) /\ fetches[n].what = "tenants"
  BY FormTypes DEF FormInv, TenantsFetched, Turn
<1>2. PICK d \in Dwellings : d = fetches[n].for
  BY <1>1 DEF FormInv, KindInv
<1>3. fetches' \in Seq(FetchRecords) /\ FetchMoved(n, "done")
  BY <1>1, FetchMoving DEF TenantsFetched, FetchDone
<1>4. form' = [form EXCEPT !.tenants = d]
  BY <1>2 DEF TenantsFetched
<1>5. /\ form' \in FormRecords /\ form'.house = form.house /\ form'.room = form.room
      /\ form'.tenants = d /\ form'.readings = form.readings
  BY <1>1, <1>4 DEF FormRecords, Choices0
<1>6. FormTypeOK'
  BY <1>1, <1>3, <1>5, FormTypes DEF FormTypeOK, FormRecords, FetchRecords, Homes0, Choices0
<1>7. AskedInv' /\ KindInv'
  BY <1>1, <1>3, KindStep DEF FormInv, AskedInv
<1>8. ASSUME mode = "orderly" PROVE OrderInv'
  <2>1. OrderInv /\ \A m \in Fetching : n <= m
    BY <1>8 DEF FormInv, TenantsFetched, Turn
  <2>2. /\ Fetching' = Fetching \ {n} /\ \A m \in Fetching : m # n => fetches'[m] = fetches[m]
    BY <1>3 DEF FetchMoved
  <2>3. ReadingsComing' = ReadingsComing \ {n} /\ (RoomsComing' <=> RoomsComing)
    BY <1>1, <2>2 DEF ReadingsComing, RoomsComing
  <2>4. TurnInv'
    BY <1>5, <2>1, <2>2 DEF OrderInv, TurnInv
  <2>5. AdviceInv' /\ PayloadInv'
    BY <1>1, <1>5, <2>1, <2>2, <2>3 DEF OrderInv, AdviceInv, PayloadInv
  <2>6. ChosenInv'
    <3> SUFFICES ASSUME form.room # Unset PROVE ChosenInv'
      BY <1>5 DEF ChosenInv
    <3>1. n \in ReadingsComing
      BY <1>1 DEF ReadingsComing
    <3>2. PICK k \in ReadingsComing : LastComing(k)
      BY <2>1, <3>1 DEF OrderInv, ChosenInv
    <3>3. \A m \in ReadingsComing : m \in Nat /\ m \in Fetching
      BY <1>1, FetchIn DEF ReadingsComing
    <3>4. CASE k = n
      <4>1. \A m \in ReadingsComing : m <= n /\ n <= m
        BY <2>1, <3>2, <3>3, <3>4 DEF LastComing
      <4>2. ReadingsComing' = {}
        <5>1. \A m \in ReadingsComing : m = n
          BY <3>1, <3>3, <4>1
        <5> QED BY <2>3, <5>1
      <4>3. form.readings = form.room /\ d = form.room
        BY <1>1, <1>2, <3>2, <3>4 DEF LastComing
      <4> QED BY <1>1, <1>5, <2>1, <4>2, <4>3 DEF OrderInv, ChosenInv
    <3>5. CASE k # n
      <4>1. LastComing(k)' /\ k \in ReadingsComing'
        BY <1>5, <2>2, <2>3, <3>2, <3>3, <3>5 DEF LastComing
      <4> QED BY <1>1, <1>5, <2>1, <4>1 DEF OrderInv, ChosenInv
    <3> QED BY <3>4, <3>5
  <2> QED BY <2>4, <2>5, <2>6 DEF OrderInv
<1> QED BY <1>1, <1>6, <1>7, <1>8 DEF FormInv

LEMMA FormInvStep == FormInv /\ [FormNext]_formVars => FormInv'
<1> SUFFICES ASSUME FormInv, [FormNext]_formVars PROVE FormInv'
  OBVIOUS
<1>1. CASE UNCHANGED formVars
  <2>1. form \in FormRecords /\ homeAsked \in BOOLEAN /\ created \in SUBSET Payloads
    BY FormTypes DEF FormInv
  <2>2. mode = "orderly" => PayloadInv'
    BY <1>1 DEF formVars, FormInv, OrderInv, PayloadInv
  <2> QED BY <1>1, <2>1, <2>2, FormRests DEF formVars
<1>2. CASE FormNext
  BY <1>2, OwnerAdvisedStep, ChooseOwnerStep, ChooseRoomStep, RoomAdvisedStep, HastyStep, RoomsFetchedStep,
     ReadingsFetchedStep, TenantsFetchedStep, CreateStep, EndFormStep DEF FormNext, Homes0, Choices0
<1> QED BY <1>1, <1>2

LEMMA FormInvInit == FormInit => FormInv
<1> SUFFICES ASSUME FormInit PROVE FormInv
  OBVIOUS
<1>1. Fetching = {} /\ ReadingsComing = {} /\ ~RoomsComing
  BY DEF FormInit, Fetching, ReadingsComing, RoomsComing
<1>2. form \in FormRecords /\ advice \in Advices /\ offered \in Homes0 /\ fetches \in Seq(FetchRecords)
  BY DEF FormInit, FormRecords, Advices, Homes0, Choices0
<1>3. mode \in Modes /\ homeAsked \in BOOLEAN /\ created \in SUBSET Payloads
  BY DEF FormInit
<1>4. FormTypeOK
  BY <1>2, <1>3, FormTypes
<1>5. AskedInv /\ KindInv
  BY <1>1 DEF FormInit, AskedInv, KindInv
<1>6. OrderInv
  BY <1>1 DEF FormInit, OrderInv, TurnInv, AdviceInv, ChosenInv, PayloadInv
<1> QED BY <1>4, <1>5, <1>6 DEF FormInv

LEMMA FormInvHolds == FormInv => PayloadAgrees
BY DEF FormInv, OrderInv, PayloadInv, PayloadAgrees

(* An invoice is created for a room of the chosen house, with that room's own *)
(* readings and tenants: when the form is awaited and answers come in order,  *)
(* whatever houses, rooms, lists, advice and failures come before.            *)
THEOREM FormAgrees == Spec => []PayloadAgrees
<1>1. Init => FormInv
  BY PartsInit, FormInvInit
<1>2. FormInv /\ [Next]_vars => FormInv'
  BY PartsStep, FormInvStep
<1>3. FormInv => PayloadAgrees
  BY FormInvHolds
<1> QED BY <1>1, <1>2, <1>3, PTL DEF Spec

-----------------------------------------------------------------------------
(* The stores of houses, rooms and tenants.                                   *)

StoreCalls == [op : {"none", "fetch", "create", "update", "delete"}, id : Entered \cup {0}, home : StoreHouses,
               value : Values \cup {Absent}, before : Seq(Entries), listed : BOOLEAN,
               stage : {"sent", "served"}, reply : Seq(Entries)]

\* What a request may be about.
AboutInv(c) ==
  /\ c.op = "create" => -c.id \in 1..creations /\ c.value \in Values
  /\ c.op \in {"update", "delete"} => /\ c.id \in Entered /\ Len(c.before) = 1 /\ c.before[1].id = c.id
                                      /\ c.op = "update" => c.value \in Values
                                      /\ c.op = "delete" => c.value = Absent
StoreTypes ==
  /\ kind \in StoreKinds /\ orderly \in BOOLEAN
  /\ table \in [Ids -> Values \cup {Absent}] /\ homeOf \in [Ids -> StoreHouses]
  /\ lists \in [StoreHouses -> Seq(Entries)] /\ shown \in StoreHouses
  /\ creations \in 0..MaxNew /\ storeCalls \in [Slots -> StoreCalls]
  /\ begun \in 0..MaxHasty /\ missedRows \in BOOLEAN
  /\ \A s \in Slots : AboutInv(storeCalls[s])
  /\ \A i \in Ids : i > Len(First) + creations => table[i] = Absent

\* The rows of a set as the server has them, but one that says something else;
\* and a list with an entry for each of some rows.
View(S, i, v) == [j \in S |-> IF j = i THEN v ELSE table[j]]
Server(h) == View(OfHome(h), 0, Absent)
Has(l, i) == \E n \in DOMAIN l : l[n].id = i
Shows(l, R) ==
  /\ \A n \in DOMAIN l : l[n].id \in DOMAIN R /\ l[n].value = R[l[n].id]
  /\ \A i \in DOMAIN R : Has(l, i)
  /\ \A n, m \in DOMAIN l : l[n].id = l[m].id => n = m

\* What a user who awaits every answer has under way, and what his list shows
\* meanwhile: the rows of the server with the change he made.
FetchInv(c) == c.op = "fetch" /\ c.stage = "served" => c.reply = Listed(shown)
CreateInv(c) ==
  LET i == Len(First) - c.id
      l == lists[shown]
  IN  c.op = "create" =>
        /\ c.stage = "sent" => table[i] = Absent
        /\ c.stage = "served" => table[i] = c.value /\ i \in OfHome(shown)
        /\ ~missedRows /\ c.listed => Shows(l, View((OfHome(shown) \ {i}) \cup {c.id}, c.id, c.value))
        /\ ~missedRows /\ ~c.listed /\ c.stage = "sent" => Shows(l, Server(shown))
UpdateInv(c) ==
  c.op = "update" /\ ~missedRows =>
    /\ c.id \in OfHome(shown) /\ Shows(lists[shown], View(OfHome(shown), c.id, c.value))
    /\ IF c.stage = "sent" THEN c.before = <<Entry(c.id, table[c.id])>> ELSE table[c.id] = c.value
DeleteInv(c) ==
  c.op = "delete" /\ ~missedRows =>
    /\ Shows(lists[shown], View(OfHome(shown) \ {c.id}, 0, Absent))
    /\ IF c.stage = "sent" THEN c.id \in OfHome(shown) /\ c.before = <<Entry(c.id, table[c.id])>>
                           ELSE c.id \notin OfHome(shown)
OrderlyInv ==
  /\ \A s, r \in UnderWay : s = r
  /\ \A s \in UnderWay : LET c == storeCalls[s] IN
       c.home = shown /\ FetchInv(c) /\ CreateInv(c) /\ UpdateInv(c) /\ DeleteInv(c)
  /\ UnderWay = {} /\ ~missedRows => Shows(lists[shown], Server(shown))

\* A house or a tenant of the server that is not listed is being deleted, and
\* the request holds the entry; a list on its way has it.
HoldsRow(c, i) == c.op = "delete" /\ c.id = i /\ (kind = "house" \/ c.home = homeOf[i])
VanishInv ==
  /\ kind = "house" => \A g, h \in StoreHouses : lists[g] = lists[h]
  /\ \A i \in 1..Len(First) : table[i] # Absent =>
       Has(lists[homeOf[i]], i) \/ \E s \in Slots : HoldsRow(storeCalls[s], i)
  /\ \A s \in Slots : LET c == storeCalls[s] IN c.stage = "served" =>
       /\ c.op = "fetch" => \A i \in 1..Len(First) :
            table[i] # Absent /\ (kind = "house" \/ homeOf[i] = c.home) => Has(c.reply, i)
       /\ c.op = "delete" /\ c.id \in 1..Len(First) => table[c.id] = Absent

StoreInv == StoreTypes /\ (orderly => OrderlyInv) /\ (kind # "room" => VanishInv)

-----------------------------------------------------------------------------
\* A list without an id: the other entries, each once.
LEMMA WithoutIdKeeps ==
  ASSUME NEW l \in Seq(Entries), NEW i
  PROVE  /\ WithoutId(l, i) \in Seq(Entries)
         /\ \A k \in DOMAIN WithoutId(l, i) : \E n \in DOMAIN l : l[n].id # i /\ WithoutId(l, i)[k] = l[n]
         /\ \A n \in DOMAIN l : l[n].id # i => \E k \in DOMAIN WithoutId(l, i) : WithoutId(l, i)[k] = l[n]
         /\ (\A n, m \in DOMAIN l : l[n].id = l[m].id => n = m) =>
              \A j, k \in DOMAIN WithoutId(l, i) : WithoutId(l, i)[j].id = WithoutId(l, i)[k].id => j = k
<1> DEFINE S == {n \in DOMAIN l : l[n].id # i}
           w == WithoutId(l, i)
<1>1. /\ w \in Seq(Entries)
      /\ \E at \in [DOMAIN w -> S] :
           /\ \A k \in DOMAIN w : w[k] = l[at[k]]
           /\ \A n \in S : \E k \in DOMAIN w : at[k] = n
           /\ \A j, k \in DOMAIN w : j < k => at[j] < at[k]
  <2>1. S \in SUBSET DOMAIN l
    OBVIOUS
  <2> HIDE DEF S
  <2>2. w = Filtered(l, S)
    BY DEF WithoutId, S
  <2> QED BY <2>1, <2>2, FilteredIs
<1>2. PICK at \in [DOMAIN w -> S] :
           /\ \A k \in DOMAIN w : w[k] = l[at[k]]
           /\ \A n \in S : \E k \in DOMAIN w : at[k] = n
           /\ \A j, k \in DOMAIN w : j < k => at[j] < at[k]
  BY <1>1
<1>3. \A n \in S : n \in DOMAIN l /\ l[n].id # i /\ n \in Int
  OBVIOUS
<1>4. \A n \in DOMAIN l : l[n].id # i => n \in S
  OBVIOUS
<1> HIDE DEF S, w
<1>5. \A j, k \in DOMAIN w : j \in Int /\ k \in Int /\ (at[j] = at[k] => j = k)
  <2> SUFFICES ASSUME NEW j \in DOMAIN w, NEW k \in DOMAIN w
               PROVE  j \in Int /\ k \in Int /\ (at[j] = at[k] => j = k)
    OBVIOUS
  <2>1. at[j] \in S /\ at[k] \in S
    OBVIOUS
  <2>2. at[j] \in Int /\ at[k] \in Int
    BY <1>3, <2>1
  <2>3. w \in Seq(Entries)
    BY <1>1
  <2>4. DOMAIN w \subseteq Int
    BY <2>3
  <2>5. j \in Int /\ k \in Int
    BY <2>4
  <2> QED BY <1>2, <2>2, <2>5
<1>6. \A k \in DOMAIN w : \E n \in DOMAIN l : l[n].id # i /\ w[k] = l[n]
  BY <1>2, <1>3
<1>7. \A n \in DOMAIN l : l[n].id # i => \E k \in DOMAIN w : w[k] = l[n]
  BY <1>2, <1>4
<1>8. ASSUME \A n, m \in DOMAIN l : l[n].id = l[m].id => n = m
      PROVE  \A j, k \in DOMAIN w : w[j].id = w[k].id => j = k
  <2> SUFFICES ASSUME NEW j \in DOMAIN w, NEW k \in DOMAIN w, w[j].id = w[k].id PROVE j = k
    OBVIOUS
  <2>1. at[j] \in S /\ at[k] \in S /\ w[j] = l[at[j]] /\ w[k] = l[at[k]]
    BY <1>2
  <2>2. at[j] = at[k]
    BY <1>3, <1>8, <2>1
  <2> QED BY <1>5, <2>2
<1> QED BY <1>1, <1>6, <1>7, <1>8 DEF w

\* Entries and the lists made of them.
LEMMA EntryFields == \A i, v : Entry(i, v).id = i /\ Entry(i, v).value = v
BY DEF Entry

LEMMA EntryIn == ASSUME NEW i \in Entered, NEW v \in Values PROVE Entry(i, v) \in Entries
BY DEF Entry, Entries, Entered

LEMMA EntryOf ==
  ASSUME NEW e \in Entries
  PROVE  e.id \in Entered /\ e.value \in Values /\ e = Entry(e.id, e.value)
BY DEF Entry, Entries, Entered

LEMMA IdsAre ==
  /\ Len(First) \in Nat /\ Ids \subseteq Nat \ {0} /\ Ids \subseteq Entered /\ 0 \notin Entered /\ MaxNew \in Nat
  /\ \A i \in Ids : i <= Len(First) + MaxNew
  /\ \A i \in Nat \ {0} : i <= Len(First) + MaxNew => i \in Ids
  /\ \A k \in 1..MaxNew : -k \in Entered /\ -k \notin Ids /\ -k \notin Nat
  /\ Values \subseteq Nat /\ Absent \notin Values /\ Values # {} /\ Absent = 0
BY StoreAssumption DEF Ids, Entered, Absent

-----------------------------------------------------------------------------
\* What the changes to a list make of what it shows.
LEMMA AppendShows ==
  ASSUME NEW l \in Seq(Entries), NEW e \in Entries, NEW R, Shows(l, R), e.id \notin DOMAIN R,
         NEW Q, DOMAIN Q = DOMAIN R \cup {e.id}, Q[e.id] = e.value, \A j \in DOMAIN R : Q[j] = R[j]
  PROVE  Shows(Append(l, e), Q)
<1> DEFINE a == Append(l, e)
<1>1. /\ Len(l) \in Nat /\ DOMAIN l = 1..Len(l) /\ DOMAIN a = 1..(Len(l) + 1)
      /\ \A n \in DOMAIN l : n \in DOMAIN a /\ a[n] = l[n]
      /\ a[Len(l) + 1] = e
  OBVIOUS
<1>2. \A n \in DOMAIN a : n \in DOMAIN l \/ n = Len(l) + 1
  BY <1>1
<1> HIDE DEF a
<1>3. \A n \in DOMAIN l : l[n].id \in DOMAIN R /\ l[n].value = R[l[n].id] /\ l[n].id # e.id
  BY DEF Shows
<1>4. \A n \in DOMAIN a : a[n].id \in DOMAIN Q /\ a[n].value = Q[a[n].id]
  BY <1>1, <1>2, <1>3
<1>5. \A i \in DOMAIN Q : Has(a, i)
  <2> SUFFICES ASSUME NEW i \in DOMAIN Q PROVE \E n \in DOMAIN a : a[n].id = i
    BY DEF Has
  <2>1. CASE i = e.id
    <3>1. Len(l) + 1 \in DOMAIN a
      BY <1>1
    <3> QED BY <1>1, <2>1, <3>1
  <2>2. CASE i \in DOMAIN R
    <3>1. PICK n \in DOMAIN l : l[n].id = i
      BY <2>2 DEF Shows, Has
    <3> QED BY <1>1, <3>1
  <2> QED BY <2>1, <2>2
<1>6. \A n, m \in DOMAIN a : a[n].id = a[m].id => n = m
  <2> SUFFICES ASSUME NEW n \in DOMAIN a, NEW m \in DOMAIN a, a[n].id = a[m].id PROVE n = m
    OBVIOUS
  <2>1. CASE n \in DOMAIN l /\ m \in DOMAIN l
    BY <1>1, <2>1 DEF Shows
  <2>2. CASE n \in DOMAIN l /\ m = Len(l) + 1
    BY <1>1, <1>3, <2>2
  <2>3. CASE n = Len(l) + 1 /\ m \in DOMAIN l
    BY <1>1, <1>3, <2>3
  <2> QED BY <1>2, <2>1, <2>2, <2>3
<1> QED BY <1>4, <1>5, <1>6 DEF Shows, a

LEMMA ReplacedShows ==
  ASSUME NEW l \in Seq(Entries), NEW e \in Entries, NEW R, Shows(l, R),
         NEW i, i \in DOMAIN R, e.id \in DOMAIN R => e.id = i,
         NEW Q, \A j : j \in DOMAIN Q <=> (j \in DOMAIN R /\ j # i) \/ j = e.id, Q[e.id] = e.value,
         \A j \in DOMAIN R : j # i => Q[j] = R[j]
  PROVE  Shows(Replaced(l, i, e), Q)
<1> DEFINE r == Replaced(l, i, e)
<1>1. DOMAIN r = DOMAIN l /\ \A n \in DOMAIN l : r[n] = IF l[n].id = i THEN e ELSE l[n]
  BY DEF Replaced
<1> HIDE DEF r
<1>2. \A n \in DOMAIN l : (l[n].id = i => r[n] = e) /\ (l[n].id # i => r[n] = l[n])
  BY <1>1
<1>3. \A n \in DOMAIN l : l[n].id \in DOMAIN R /\ l[n].value = R[l[n].id]
  BY DEF Shows
<1>4. \A n \in DOMAIN r : r[n].id \in DOMAIN Q /\ r[n].value = Q[r[n].id]
  <2> SUFFICES ASSUME NEW n \in DOMAIN l PROVE r[n].id \in DOMAIN Q /\ r[n].value = Q[r[n].id]
    BY <1>1
  <2>1. CASE l[n].id = i
    BY <1>2, <2>1
  <2>2. CASE l[n].id # i
    BY <1>2, <1>3, <2>2
  <2> QED BY <2>1, <2>2
<1>5. \A j \in DOMAIN Q : Has(r, j)
  <2> SUFFICES ASSUME NEW j \in DOMAIN Q PROVE \E n \in DOMAIN r : r[n].id = j
    BY DEF Has
  <2>1. CASE j = e.id
    <3>1. PICK n \in DOMAIN l : l[n].id = i
      BY DEF Shows, Has
    <3> QED BY <1>1, <1>2, <2>1, <3>1
  <2>2. CASE j # e.id
    <3>1. PICK n \in DOMAIN l : l[n].id = j
      BY <2>2 DEF Shows, Has
    <3> QED BY <1>1, <1>2, <2>2, <3>1
  <2> QED BY <2>1, <2>2
<1>6. \A n, m \in DOMAIN r : r[n].id = r[m].id => n = m
  <2> SUFFICES ASSUME NEW n \in DOMAIN l, NEW m \in DOMAIN l, r[n].id = r[m].id PROVE n = m
    BY <1>1
  <2>1. l[n].id = l[m].id => n = m
    BY DEF Shows
  <2>2. CASE l[n].id = i /\ l[m].id = i
    BY <2>1, <2>2
  <2>3. CASE l[n].id # i /\ l[m].id # i
    BY <1>2, <2>1, <2>3
  <2>4. CASE l[n].id = i /\ l[m].id # i
    BY <1>2, <1>3, <2>4
  <2>5. CASE l[n].id # i /\ l[m].id = i
    BY <1>2, <1>3, <2>5
  <2> QED BY <2>2, <2>3, <2>4, <2>5
<1> QED BY <1>4, <1>5, <1>6 DEF Shows, r

LEMMA WithoutIdShows ==
  ASSUME NEW l \in Seq(Entries), NEW R, Shows(l, R), NEW i,
         NEW Q, \A j : j \in DOMAIN Q <=> j \in DOMAIN R /\ j # i, \A j \in DOMAIN Q : Q[j] = R[j]
  PROVE  Shows(WithoutId(l, i), Q)
<1> DEFINE w == WithoutId(l, i)
<1>1. /\ \A k \in DOMAIN w : \E n \in DOMAIN l : l[n].id # i /\ w[k] = l[n]
      /\ \A n \in DOMAIN l : l[n].id # i => \E k \in DOMAIN w : w[k] = l[n]
      /\ \A j, k \in DOMAIN w : w[j].id = w[k].id => j = k
  BY WithoutIdKeeps DEF Shows
<1> HIDE DEF w
<1>2. \A k \in DOMAIN w : w[k].id \in DOMAIN Q /\ w[k].value = Q[w[k].id]
  BY <1>1 DEF Shows
<1>3. \A j \in DOMAIN Q : Has(w, j)
  BY <1>1 DEF Shows, Has
<1> QED BY <1>1, <1>2, <1>3 DEF Shows, w

\* find has the first entry of an id that is listed.
LEMMA FoundIs ==
  ASSUME NEW l \in Seq(Entries), NEW i, Has(l, i)
  PROVE  \E n \in DOMAIN l : l[n].id = i /\ Found(l, i) = <<l[n]>>
<1>1. At(l, i) \subseteq Nat /\ At(l, i) # {}
  BY DEF At, Has
<1>2. PICK n \in At(l, i) : \A m \in At(l, i) : n <= m
  BY <1>1, LeastNumber
<1> DEFINE k == CHOOSE n_1 \in At(l, i) : \A m \in At(l, i) : n_1 <= m
<1>3. k \in At(l, i)
  BY <1>2
<1>4. Found(l, i) = <<l[k]>>
  BY <1>1 DEF Found
<1> HIDE DEF k
<1> QED BY <1>3, <1>4 DEF At

LEMMA HasAt == ASSUME NEW l, NEW i PROVE Has(l, i) <=> At(l, i) # {}
BY DEF Has, At

\* The answer to a fetch lists the rows of the server.
LEMMA ListedShows ==
  ASSUME table \in [Ids -> Values \cup {Absent}], NEW h \in StoreHouses
  PROVE  Listed(h) \in Seq(Entries) /\ Shows(Listed(h), Server(h))
<1> DEFINE S == OfHome(h)
           C == Cardinality(S)
           l == Listed(h)
<1>1. /\ C \in Nat /\ DOMAIN InOrder(S) = 1..C
      /\ \A k \in 1..C : InOrder(S)[k] \in S
      /\ \A n \in S : \E k \in 1..C : InOrder(S)[k] = n
      /\ \A j, k \in 1..C : InOrder(S)[j] = InOrder(S)[k] => j = k
  <2>1. S \in SUBSET (1..(Len(First) + MaxNew)) /\ Len(First) + MaxNew \in Nat
    BY IdsAre DEF OfHome, Ids
  <2> HIDE DEF S
  <2> QED BY <2>1, InOrderEnumerates
<1>2. l = [k \in 1..C |-> Entry(InOrder(S)[k], table[InOrder(S)[k]])]
  BY <1>1 DEF Listed
<1>3. \A i \in S : i # 0 /\ table[i] \in Values /\ Entry(i, table[i]) \in Entries
  BY IdsAre, EntryIn DEF OfHome
<1>4. DOMAIN Server(h) = S /\ \A i \in S : Server(h)[i] = table[i]
  BY <1>3 DEF Server, View
<1> HIDE DEF S, C, l
<1>5. DOMAIN l = 1..C /\ \A k \in 1..C : l[k].id = InOrder(S)[k] /\ l[k].value = table[InOrder(S)[k]]
  BY <1>2, EntryFields
<1>6. l \in Seq(Entries)
  BY <1>1, <1>2, <1>3
<1>7. Shows(l, Server(h))
  BY <1>1, <1>4, <1>5 DEF Shows, Has
<1> QED BY <1>6, <1>7 DEF l

-----------------------------------------------------------------------------
\* The changes to a list keep the entries of the other ids.
LEMMA ReplacedKeeps ==
  ASSUME NEW l \in Seq(Entries), NEW e \in Entries, NEW i
  PROVE  /\ Replaced(l, i, e) \in Seq(Entries)
         /\ \A j : j # i /\ Has(l, j) => Has(Replaced(l, i, e), j)
         /\ e.id = i /\ Has(l, i) => Has(Replaced(l, i, e), i)
<1> DEFINE r == Replaced(l, i, e)
<1>1. r = [n \in 1..Len(l) |-> IF l[n].id = i THEN e ELSE l[n]] /\ DOMAIN l = 1..Len(l) /\ Len(l) \in Nat
  BY DEF Replaced
<1> HIDE DEF r
<1>2. r \in Seq(Entries) /\ DOMAIN r = DOMAIN l
  BY <1>1
<1>3. \A n \in DOMAIN l : (l[n].id = i => r[n] = e) /\ (l[n].id # i => r[n] = l[n])
  BY <1>1
<1>4. \A j : j # i /\ Has(l, j) => Has(r, j)
  BY <1>2, <1>3 DEF Has
<1>5. e.id = i /\ Has(l, i) => Has(r, i)
  BY <1>2, <1>3 DEF Has
<1> QED BY <1>2, <1>4, <1>5 DEF r

LEMMA WithoutIdHas ==
  ASSUME NEW l \in Seq(Entries), NEW i
  PROVE  WithoutId(l, i) \in Seq(Entries) /\ \A j : j # i /\ Has(l, j) => Has(WithoutId(l, i), j)
<1>1. WithoutId(l, i) \in Seq(Entries)
      /\ \A n \in DOMAIN l : l[n].id # i => \E k \in DOMAIN WithoutId(l, i) : WithoutId(l, i)[k] = l[n]
  BY WithoutIdKeeps
<1> QED BY <1>1 DEF Has

LEMMA AppendHas ==
  ASSUME NEW l \in Seq(Entries), NEW e \in Entries
  PROVE  Append(l, e) \in Seq(Entries) /\ Has(Append(l, e), e.id) /\ \A j : Has(l, j) => Has(Append(l, e), j)
<1> DEFINE a == Append(l, e)
<1>1. /\ a \in Seq(Entries) /\ Len(l) + 1 \in DOMAIN a /\ a[Len(l) + 1] = e
      /\ \A n \in DOMAIN l : n \in DOMAIN a /\ a[n] = l[n]
  OBVIOUS
<1> HIDE DEF a
<1>2. Has(a, e.id) /\ \A j : Has(l, j) => Has(a, j)
  BY <1>1 DEF Has
<1> QED BY <1>1, <1>2 DEF a

\* The entry a deletion took off the list, put back.
LEMMA OneMore ==
  ASSUME NEW l \in Seq(Entries), NEW b \in Seq(Entries), Len(b) = 1
  PROVE  b[1] \in Entries /\ b = <<b[1]>> /\ l \o b = Append(l, b[1])
<1>1. b[1] \in Entries
  OBVIOUS
<1>2. b = <<b[1]>>
  <2>1. <<b[1]>> \in Seq(Entries) /\ Len(<<b[1]>>) = 1 /\ <<b[1]>>[1] = b[1]
    BY <1>1
  <2> QED BY <2>1, SeqEqual
<1>3. \A e \in Entries : l \o <<e>> = Append(l, e)
  OBVIOUS
<1> QED BY <1>1, <1>2, <1>3

LEMMA PutIs ==
  ASSUME NEW h \in StoreHouses, NEW l \in Seq(Entries), StoreTypes
  PROVE  /\ Put(h, l) \in [StoreHouses -> Seq(Entries)] /\ Put(h, l)[h] = l
         /\ \A g \in StoreHouses : g # h => Put(h, l)[g] = IF OneList THEN l ELSE lists[g]
BY DEF Put, StoreTypes

\* Requests, and the slots they are in.
LEMMA Requested ==
  \A op, i, h, v, b :
    Call(op, i, h, v, b) = [op |-> op, id |-> i, home |-> h, value |-> v, before |-> b, listed |-> TRUE,
                            stage |-> "sent", reply |-> <<>>]
<1> SUFFICES ASSUME NEW op, NEW i, NEW h, NEW v, NEW b
             PROVE  Call(op, i, h, v, b) =
                      [op |-> op, id |-> i, home |-> h, value |-> v, before |-> b, listed |-> TRUE,
                       stage |-> "sent", reply |-> <<>>]
  OBVIOUS
<1> DEFINE g == CHOOSE f \in StoreHouses : TRUE
<1>1. Call(op, i, h, v, b) =
        [[op |-> "none", id |-> 0, home |-> g, value |-> Absent, before |-> <<>>,
          listed |-> TRUE, stage |-> "sent", reply |-> <<>>]
           EXCEPT !.op = op, !.id = i, !.home = h, !.value = v, !.before = b]
  BY DEF Call, NoStoreCall
<1> HIDE DEF g
<1> QED BY <1>1

LEMMA Idle ==
  ASSUME StoreTypes
  PROVE  NoStoreCall \in StoreCalls /\ NoStoreCall.op = "none" /\ NoStoreCall.stage = "sent"
<1>1. (CHOOSE g \in StoreHouses : TRUE) \in StoreHouses
  BY DEF StoreTypes
<1>2. <<>> \in Seq(Entries)
  OBVIOUS
<1> QED BY <1>1, <1>2 DEF NoStoreCall, StoreCalls

LEMMA SlotIsFree ==
  ASSUME StoreTypes, MayCall
  PROVE  Free \in Slots /\ storeCalls[Free].op = "none" /\ (orderly => UnderWay = {})
<1>1. Slots \ UnderWay # {} /\ Slots \ UnderWay \subseteq Nat
  BY DEF MayCall, UnderWay, Slots
<1>2. PICK s \in Slots \ UnderWay : \A r \in Slots \ UnderWay : s <= r
  BY <1>1, LeastNumber
<1>3. Free \in Slots \ UnderWay
  BY <1>2 DEF Free
<1> QED BY <1>3 DEF MayCall, UnderWay

-----------------------------------------------------------------------------
LEMMA StoreInvInit == StoreInit => StoreInv
<1> SUFFICES ASSUME StoreInit PROVE StoreInv
  OBVIOUS
<1>1. (CHOOSE v \in Values : TRUE) \in Values
  BY IdsAre
<1>2. /\ kind \in StoreKinds /\ orderly \in BOOLEAN /\ shown \in StoreHouses
      /\ creations = 0 /\ begun = 0 /\ missedRows = FALSE
      /\ table = [i \in Ids |-> IF i <= Len(First) THEN CHOOSE v \in Values : TRUE ELSE Absent]
      /\ homeOf = [i \in Ids |-> IF i <= Len(First) THEN First[i] ELSE CHOOSE h \in StoreHouses : TRUE]
      /\ lists = [h \in StoreHouses |-> Listed(IF kind = "room" THEN shown ELSE h)]
      /\ storeCalls = [s \in Slots |-> NoStoreCall]
  BY DEF StoreInit
<1>3. table \in [Ids -> Values \cup {Absent}] /\ \A i \in Ids : i > Len(First) => table[i] = Absent
  BY <1>1, <1>2, IdsAre
<1>4. homeOf \in [Ids -> StoreHouses]
  <2>1. \A i \in Ids : i <= Len(First) => First[i] \in StoreHouses
    BY IdsAre, StoreAssumption
  <2>2. (CHOOSE h \in StoreHouses : TRUE) \in StoreHouses
    BY <1>2
  <2> QED BY <1>2, <2>1, <2>2
<1>5. lists \in [StoreHouses -> Seq(Entries)]
  BY <1>2, <1>3, ListedShows
<1>6. NoStoreCall \in StoreCalls /\ NoStoreCall.op = "none" /\ NoStoreCall.stage = "sent"
  <2>1. (CHOOSE h \in StoreHouses : TRUE) \in StoreHouses
    BY <1>2
  <2>2. <<>> \in Seq(Entries)
    OBVIOUS
  <2> QED BY <2>1, <2>2 DEF NoStoreCall, StoreCalls
<1>7. \A s \in Slots : storeCalls[s] = NoStoreCall
  BY <1>2
<1>8. StoreTypes
  <2>1. \A s \in Slots : AboutInv(storeCalls[s])
    BY <1>6, <1>7 DEF AboutInv
  <2>2. 0 \in 0..MaxNew /\ 0 \in 0..MaxHasty /\ Len(First) + 0 = Len(First)
    BY IdsAre, StoreAssumption
  <2>3. storeCalls \in [Slots -> StoreCalls]
    BY <1>2, <1>6
  <2> QED BY <1>2, <1>3, <1>4, <1>5, <2>1, <2>2, <2>3 DEF StoreTypes
<1>9. OrderlyInv
  <2>1. UnderWay = {}
    BY <1>6, <1>7 DEF UnderWay
  <2>2. lists[shown] = Listed(shown)
    BY <1>2
  <2>3. Shows(lists[shown], Server(shown))
    BY <1>2, <1>3, <2>2, ListedShows
  <2> QED BY <2>1, <2>3 DEF OrderlyInv
<1>10. ASSUME kind # "room" PROVE VanishInv
  <2>1. \A h \in StoreHouses : lists[h] = Listed(h)
    BY <1>2, <1>10
  <2>2. \A i \in 1..Len(First) : table[i] # Absent => Has(lists[homeOf[i]], i)
    <3> SUFFICES ASSUME NEW i \in 1..Len(First), table[i] # Absent PROVE Has(lists[homeOf[i]], i)
      OBVIOUS
    <3>1. i \in Ids
      BY IdsAre
    <3>2. homeOf[i] \in StoreHouses /\ i \in OfHome(homeOf[i])
      BY <1>4, <3>1 DEF OfHome
    <3>3. i \in DOMAIN Server(homeOf[i])
      BY <3>2 DEF Server, View
    <3>4. Shows(Listed(homeOf[i]), Server(homeOf[i]))
      BY <1>3, <3>2, ListedShows
    <3> QED BY <2>1, <3>2, <3>3, <3>4 DEF Shows
  <2>3. kind = "house" => \A g, h \in StoreHouses : Listed(g) = Listed(h)
    BY DEF Listed, OfHome
  <2> QED BY <1>6, <1>7, <2>1, <2>2, <2>3 DEF VanishInv
<1> QED BY <1>8, <1>9, <1>10 DEF StoreInv

-----------------------------------------------------------------------------
\* One request changes at a time.
LEMMA TypesKept ==
  ASSUME StoreTypes, NEW s \in Slots, NEW d \in StoreCalls, storeCalls' = [storeCalls EXCEPT ![s] = d],
         UNCHANGED <<kind, orderly>>, creations' \in creations..MaxNew, AboutInv(d)',
         table' \in [Ids -> Values \cup {Absent}], homeOf' \in [Ids -> StoreHouses],
         \A i \in Ids : i > Len(First) + creations' => table'[i] = Absent,
         lists' \in [StoreHouses -> Seq(Entries)], shown' \in StoreHouses, begun' \in 0..MaxHasty,
         missedRows' \in BOOLEAN
  PROVE  /\ StoreTypes' /\ storeCalls'[s] = d
         /\ \A r \in Slots : r # s => storeCalls'[r] = storeCalls[r]
<1>1. creations \in 0..MaxNew /\ storeCalls \in [Slots -> StoreCalls] /\ MaxNew \in Nat
  BY IdsAre DEF StoreTypes
<1>2. storeCalls' \in [Slots -> StoreCalls] /\ storeCalls'[s] = d
      /\ \A r \in Slots : r # s => storeCalls'[r] = storeCalls[r]
  BY <1>1
<1>3. creations' \in 0..MaxNew
  BY <1>1
<1>4. \A r \in Slots : AboutInv(storeCalls[r])'
  <2> SUFFICES ASSUME NEW r \in Slots, r # s PROVE AboutInv(storeCalls[r])'
    BY <1>2
  <2>1. AboutInv(storeCalls[r])
    BY DEF StoreTypes
  <2>2. storeCalls'[r] = storeCalls[r] /\ storeCalls[r] \in StoreCalls
    BY <1>1, <1>2
  <2>3. \A k : k \in 1..creations => k \in 1..creations'
    BY <1>1, <1>3
  <2> QED BY <2>1, <2>2, <2>3 DEF AboutInv
<1> QED BY <1>2, <1>3, <1>4 DEF StoreTypes

LEMMA OrderlyNext ==
  ASSUME StoreTypes, NEW s \in Slots, NEW d \in StoreCalls, storeCalls'[s] = d,
         \A r \in Slots : r # s => storeCalls'[r] = storeCalls[r],
         UnderWay \subseteq {s},
         d.op = "none" /\ ~missedRows' => Shows(lists[shown], Server(shown))',
         d.op # "none" => d.home = shown' /\ FetchInv(d)' /\ CreateInv(d)' /\ UpdateInv(d)' /\ DeleteInv(d)'
  PROVE  OrderlyInv'
<1>1. \A r \in UnderWay' : r = s
  BY DEF UnderWay
<1>2. UnderWay' = {} => d.op = "none"
  BY DEF UnderWay
<1>3. s \in UnderWay' => d.op # "none"
  BY DEF UnderWay
<1> QED BY <1>1, <1>2, <1>3 DEF OrderlyInv

LEMMA VanishNext ==
  ASSUME StoreTypes, VanishInv, NEW s \in Slots, NEW d \in StoreCalls, storeCalls'[s] = d,
         \A r \in Slots : r # s => storeCalls'[r] = storeCalls[r],
         kind' = kind, \A i \in 1..Len(First) : homeOf'[i] = homeOf[i] /\ (table'[i] # Absent => table[i] # Absent),
         kind = "house" => \A g, h \in StoreHouses : lists'[g] = lists'[h],
         \A i \in 1..Len(First) :
           table'[i] # Absent /\ (Has(lists[homeOf[i]], i) \/ HoldsRow(storeCalls[s], i)) =>
             Has(lists'[homeOf[i]], i) \/ HoldsRow(d, i),
         d.stage = "served" /\ d.op = "fetch" => \A i \in 1..Len(First) :
            table'[i] # Absent /\ (kind = "house" \/ homeOf[i] = d.home) => Has(d.reply, i),
         d.stage = "served" /\ d.op = "delete" /\ d.id \in 1..Len(First) => table'[d.id] = Absent
  PROVE  VanishInv'
<1>1. ASSUME NEW i \in 1..Len(First), table'[i] # Absent
      PROVE  Has(lists'[homeOf'[i]], i) \/ \E r \in Slots : HoldsRow(storeCalls[r], i)'
  <2>1. CASE Has(lists[homeOf[i]], i) \/ HoldsRow(storeCalls[s], i)
    <3>1. CASE Has(lists'[homeOf[i]], i)
      BY <3>1
    <3>2. CASE HoldsRow(d, i)
      <4>1. HoldsRow(storeCalls[s], i)'
        BY <3>2 DEF HoldsRow
      <4> QED BY <4>1
    <3> QED BY <1>1, <2>1, <3>1, <3>2
  <2>2. CASE \E r \in Slots : r # s /\ HoldsRow(storeCalls[r], i)
    <3>1. PICK r \in Slots : r # s /\ HoldsRow(storeCalls[r], i)
      BY <2>2
    <3>2. HoldsRow(storeCalls[r], i)'
      BY <3>1 DEF HoldsRow
    <3> QED BY <3>2
  <2>3. Has(lists[homeOf[i]], i) \/ \E r \in Slots : HoldsRow(storeCalls[r], i)
    BY <1>1 DEF VanishInv
  <2> QED BY <2>1, <2>2, <2>3
<1>2. ASSUME NEW r \in Slots, storeCalls'[r].stage = "served"
      PROVE  /\ storeCalls'[r].op = "fetch" => \A i \in 1..Len(First) :
                  table'[i] # Absent /\ (kind' = "house" \/ homeOf'[i] = storeCalls'[r].home) => Has(storeCalls'[r].reply, i)
             /\ storeCalls'[r].op = "delete" /\ storeCalls'[r].id \in 1..Len(First) => table'[storeCalls'[r].id] = Absent
  <2>1. CASE r = s
    BY <1>2, <2>1
  <2>2. CASE r # s
    <3>1. storeCalls'[r] = storeCalls[r]
      BY <2>2
    <3> QED BY <1>2, <3>1 DEF VanishInv
  <2> QED BY <2>1, <2>2
<1> QED BY <1>1, <1>2 DEF VanishInv

-----------------------------------------------------------------------------
LEMMA ViewIs ==
  \A S, i, v : /\ DOMAIN View(S, i, v) = S
               /\ i \in S => View(S, i, v)[i] = v
               /\ \A j \in S : j # i => View(S, i, v)[j] = table[j]
BY DEF View

LEMMA ServerIs ==
  ASSUME StoreTypes, NEW h
  PROVE  /\ DOMAIN Server(h) = OfHome(h)
         /\ \A j \in OfHome(h) : Server(h)[j] = table[j] /\ j \in Ids /\ table[j] \in Values /\ table[j] # Absent
<1>1. \A j \in OfHome(h) : j \in Ids /\ j # 0 /\ table[j] \in Values /\ table[j] # Absent
  BY IdsAre DEF OfHome, StoreTypes
<1> QED BY <1>1 DEF Server, View

LEMMA SameServer ==
  ASSUME UNCHANGED <<kind, table, homeOf>>
  PROVE  /\ \A h : (OfHome(h))' = OfHome(h) /\ (Listed(h))' = Listed(h) /\ (Server(h))' = Server(h)
         /\ \A S, i, v : (View(S, i, v))' = View(S, i, v)
BY DEF OfHome, Listed, Server, View

\* How a list that is put in place reaches the others.
LEMMA PutVanish ==
  ASSUME StoreTypes, VanishInv, kind # "room", NEW h \in StoreHouses, NEW l \in Seq(Entries), lists' = Put(h, l)
  PROVE  /\ lists' \in [StoreHouses -> Seq(Entries)]
         /\ kind = "house" => \A f, g \in StoreHouses : lists'[f] = lists'[g]
         /\ \A i, g : g \in StoreHouses /\ Has(lists[g], i) /\ (Has(lists[h], i) => Has(l, i)) => Has(lists'[g], i)
         /\ \A i, g : g \in StoreHouses /\ Has(l, i) /\ (kind = "house" \/ g = h) => Has(lists'[g], i)
<1>1. /\ lists' \in [StoreHouses -> Seq(Entries)] /\ lists'[h] = l
      /\ \A g \in StoreHouses : g # h => lists'[g] = IF OneList THEN l ELSE lists[g]
  BY PutIs
<1>2. OneList <=> kind = "house"
  BY DEF OneList
<1>3. CASE kind = "house"
  <2>1. \A g \in StoreHouses : lists'[g] = l /\ lists[g] = lists[h]
    BY <1>1, <1>2, <1>3 DEF VanishInv
  <2> QED BY <1>1, <2>1
<1>4. CASE kind # "house"
  <2>1. \A g \in StoreHouses : g # h => lists'[g] = lists[g]
    BY <1>1, <1>2, <1>4
  <2> QED BY <1>1, <1>4, <2>1
<1> QED BY <1>3, <1>4

\* The steps of the user.
LEMMA FetchListStep == ASSUME StoreInv, NEW h \in StoreHouses, FetchList(h) PROVE StoreInv'
<1> DEFINE d == Call("fetch", 0, h, Absent, <<>>)
<1>1. StoreTypes /\ (orderly => OrderlyInv) /\ (kind # "room" => VanishInv)
  BY DEF StoreInv
<1>2. /\ UNCHANGED <<kind, orderly, table, homeOf, lists, creations, missedRows>> /\ shown' = h
      /\ storeCalls' = [storeCalls EXCEPT ![Free] = d] /\ begun' = IF orderly THEN begun ELSE begun + 1
      /\ begun < MaxHasty
  BY DEF FetchList, Begin, MayCall
<1>3. PICK s \in Slots : s = Free /\ storeCalls[s].op = "none" /\ (orderly => UnderWay = {})
  BY <1>1, SlotIsFree DEF FetchList
<1>4. d \in StoreCalls /\ d.op = "fetch" /\ d.home = h /\ d.stage = "sent"
  <2>1. <<>> \in Seq(Entries)
    OBVIOUS
  <2> QED BY <2>1, Requested DEF StoreCalls
<1> HIDE DEF d
<1>5. /\ StoreTypes' /\ storeCalls'[s] = d /\ \A r \in Slots : r # s => storeCalls'[r] = storeCalls[r]
  <2>1. AboutInv(d)'
    BY <1>4 DEF AboutInv
  <2>2. begun' \in 0..MaxHasty /\ creations' \in creations..MaxNew
    BY <1>1, <1>2, StoreAssumption DEF StoreTypes
  <2> QED BY <1>1, <1>2, <1>3, <1>4, <2>1, <2>2, TypesKept DEF StoreTypes
<1>6. ASSUME orderly PROVE OrderlyInv'
  <2>1. FetchInv(d)' /\ CreateInv(d)' /\ UpdateInv(d)' /\ DeleteInv(d)'
    BY <1>4 DEF FetchInv, CreateInv, UpdateInv, DeleteInv
  <2> QED BY <1>1, <1>2, <1>3, <1>4, <1>5, <1>6, <2>1, OrderlyNext
<1>7. ASSUME kind # "room" PROVE VanishInv'
  <2>1. \A i : ~HoldsRow(storeCalls[s], i)
    BY <1>3 DEF HoldsRow
  <2>2. kind = "house" => \A f, g \in StoreHouses : lists'[f] = lists'[g]
    BY <1>1, <1>2, <1>7 DEF VanishInv
  <2> QED BY <1>1, <1>2, <1>4, <1>5, <1>7, <2>1, <2>2, VanishNext
<1> QED BY <1>2, <1>5, <1>6, <1>7 DEF StoreInv

LEMMA CreateEntityStep ==
  ASSUME StoreInv, NEW v \in Values, NEW listed \in BOOLEAN, CreateEntity(v, listed) PROVE StoreInv'
<1>1. StoreTypes /\ (orderly => OrderlyInv) /\ (kind # "room" => VanishInv)
  BY DEF StoreInv
<1>2. PICK k, d : k = creations + 1 /\ d = [Call("create", -k, shown, v, <<>>) EXCEPT !.listed = listed]
  OBVIOUS
<1>3. /\ UNCHANGED <<kind, orderly, table, homeOf, shown, missedRows>> /\ creations' = k /\ creations < MaxNew
      /\ lists' = IF listed THEN Put(shown, Append(lists[shown], Entry(-k, v))) ELSE lists
      /\ storeCalls' = [storeCalls EXCEPT ![Free] = d] /\ begun' = IF orderly THEN begun ELSE begun + 1
      /\ begun < MaxHasty
  BY <1>2 DEF CreateEntity, Begin, MayCall
<1>4. PICK s \in Slots : s = Free /\ storeCalls[s].op = "none" /\ (orderly => UnderWay = {})
  BY <1>1, SlotIsFree DEF CreateEntity
<1>5. /\ k \in 1..MaxNew /\ -k \in Entered /\ -(-k) = k /\ shown \in StoreHouses /\ lists[shown] \in Seq(Entries)
      /\ Len(First) - (-k) \in Ids /\ Len(First) - (-k) > Len(First) + creations /\ creations \in Nat
  <2>1. creations \in Nat /\ k \in 1..MaxNew /\ shown \in StoreHouses /\ lists[shown] \in Seq(Entries)
    BY <1>1, <1>2, <1>3, IdsAre DEF StoreTypes
  <2>2. -(-k) = k /\ Len(First) - (-k) = Len(First) + k
    BY <2>1, IdsAre
  <2>3. /\ Len(First) + k \in Nat \ {0} /\ Len(First) + k <= Len(First) + MaxNew
        /\ Len(First) + k > Len(First) + creations
    BY <1>2, <2>1, IdsAre
  <2> QED BY <2>1, <2>2, <2>3, IdsAre
<1>6. /\ d \in StoreCalls /\ d.op = "create" /\ d.home = shown /\ d.stage = "sent" /\ d.id = -k /\ d.value = v
      /\ (d.listed <=> listed)
  <2>1. <<>> \in Seq(Entries)
    OBVIOUS
  <2>2. d = [[op |-> "create", id |-> -k, home |-> shown, value |-> v, before |-> <<>>, listed |-> TRUE,
              stage |-> "sent", reply |-> <<>>] EXCEPT !.listed = listed]
    BY <1>2, Requested
  <2> QED BY <1>5, <2>1, <2>2 DEF StoreCalls
<1>7. PICK e \in Entries : e = Entry(-k, v) /\ e.id = -k /\ e.value = v
  BY <1>5, EntryIn, EntryFields
<1>8. /\ Append(lists[shown], e) \in Seq(Entries) /\ Has(Append(lists[shown], e), -k)
      /\ \A j : Has(lists[shown], j) => Has(Append(lists[shown], e), j)
  BY <1>5, <1>7, AppendHas
<1>9. /\ StoreTypes' /\ storeCalls'[s] = d /\ \A r \in Slots : r # s => storeCalls'[r] = storeCalls[r]
  <2>1. AboutInv(d)'
    <3>1. -d.id \in 1..creations'
      BY <1>3, <1>5, <1>6
    <3> QED BY <1>6, <3>1 DEF AboutInv
  <2>2. begun' \in 0..MaxHasty /\ creations' \in creations..MaxNew
    <3>1. begun \in 0..MaxHasty /\ creations \in 0..MaxNew
      BY <1>1 DEF StoreTypes
    <3> QED BY <1>2, <1>3, <1>5, <3>1, StoreAssumption
  <2>3. lists' \in [StoreHouses -> Seq(Entries)]
    BY <1>1, <1>3, <1>5, <1>7, <1>8, PutIs DEF StoreTypes
  <2>4. \A i \in Ids : i > Len(First) + creations' => table'[i] = Absent
    <3>1. \A i \in Ids : i > Len(First) + creations' => i > Len(First) + creations
      BY <1>2, <1>3, <1>5, IdsAre
    <3> QED BY <1>1, <1>3, <3>1 DEF StoreTypes
  <2>5. /\ kind \in StoreKinds /\ table' \in [Ids -> Values \cup {Absent}] /\ homeOf' \in [Ids -> StoreHouses]
        /\ shown' \in StoreHouses /\ missedRows' \in BOOLEAN
    BY <1>1, <1>3 DEF StoreTypes
  <2> QED BY <1>1, <1>3, <1>4, <1>6, <2>1, <2>2, <2>3, <2>4, <2>5, TypesKept
<1>10. ASSUME orderly PROVE OrderlyInv'
  <2>1. PICK i, Q : i = Len(First) - (-k) /\ Q = View((OfHome(shown) \ {i}) \cup {-k}, -k, v)
    OBVIOUS
  <2>2. table[i] = Absent /\ i \notin OfHome(shown) /\ i = Len(First) - d.id
    BY <1>1, <1>5, <1>6, <2>1 DEF StoreTypes, OfHome
  <2>3. ~missedRows => Shows(lists[shown], Server(shown))
    BY <1>1, <1>4, <1>10 DEF OrderlyInv
  <2>4. ASSUME ~missedRows, listed PROVE Shows(lists'[shown], Q)
    <3>1. PICK l \in Seq(Entries) : l = lists[shown]
      BY <1>5
    <3> DEFINE R == Server(shown)
    <3>2. lists'[shown] = Append(l, e)
      BY <1>1, <1>3, <1>5, <1>7, <1>8, <2>4, <3>1, PutIs
    <3>3. -k \notin OfHome(shown)
      BY <1>5, IdsAre DEF OfHome
    <3>4. DOMAIN Q = OfHome(shown) \cup {e.id} /\ Q[e.id] = v /\ \A j \in OfHome(shown) : Q[j] = table[j]
      <4>1. Q = View((OfHome(shown) \ {i}) \cup {e.id}, e.id, v)
        BY <1>7, <2>1
      <4>2. e.id \notin OfHome(shown) /\ OfHome(shown) \ {i} = OfHome(shown)
        BY <1>7, <2>2, <3>3
      <4>3. PICK S : S = (OfHome(shown) \ {i}) \cup {e.id}
        OBVIOUS
      <4>4. Q = View(S, e.id, v) /\ e.id \in S /\ S = OfHome(shown) \cup {e.id}
        BY <4>1, <4>2, <4>3
      <4>5. DOMAIN Q = S /\ Q[e.id] = v /\ \A j \in S : j # e.id => Q[j] = table[j]
        BY <4>4, ViewIs
      <4> QED BY <4>2, <4>4, <4>5
    <3>5. DOMAIN R = OfHome(shown) /\ \A j \in OfHome(shown) : R[j] = table[j]
      BY <1>1, <3>1, ServerIs
    <3>6. Shows(l, R)
      BY <2>3, <2>4, <3>1
    <3>7. e.id \notin DOMAIN R /\ DOMAIN Q = DOMAIN R \cup {e.id} /\ Q[e.id] = e.value
          /\ \A j \in DOMAIN R : Q[j] = R[j]
      BY <1>7, <3>3, <3>4, <3>5
    <3> QED BY <3>2, <3>6, <3>7, AppendShows
  <2>5. FetchInv(d)' /\ UpdateInv(d)' /\ DeleteInv(d)'
    BY <1>6 DEF FetchInv, UpdateInv, DeleteInv
  <2>6. CreateInv(d)'
    <3>1. (OfHome(shown))' = OfHome(shown) /\ (Server(shown))' = Server(shown)
      BY <1>3, SameServer
    <3>2. (View((OfHome(shown) \ {Len(First) - d.id}) \cup {d.id}, d.id, d.value))' = Q
      BY <1>3, <1>6, <2>1, <2>2, <3>1 DEF View
    <3>3. ~listed => lists' = lists
      BY <1>3
    <3> QED BY <1>3, <1>6, <2>2, <2>3, <2>4, <3>1, <3>2, <3>3 DEF CreateInv
  <2>7. UnderWay \subseteq {s}
    BY <1>4, <1>10
  <2>8. d.home = shown' /\ d.op # "none"
    BY <1>3, <1>6
  <2> QED BY <1>1, <1>6, <1>9, <2>5, <2>6, <2>7, <2>8, OrderlyNext
<1>11. ASSUME kind # "room" PROVE VanishInv'
  <2>1. \A i : ~HoldsRow(storeCalls[s], i)
    BY <1>4 DEF HoldsRow
  <2>2. /\ kind = "house" => \A f, g \in StoreHouses : lists'[f] = lists'[g]
        /\ \A i, g : g \in StoreHouses /\ Has(lists[g], i) => Has(lists'[g], i)
    <3>1. CASE listed
      <4>1. PICK l \in Seq(Entries) : l = Append(lists[shown], e)
        BY <1>8
      <4>2. lists' = Put(shown, l)
        BY <1>3, <1>7, <3>1, <4>1
      <4> QED BY <1>1, <1>5, <1>8, <1>11, <4>1, <4>2, PutVanish
    <3>2. CASE ~listed
      BY <1>1, <1>3, <1>11, <3>2 DEF VanishInv
    <3> QED BY <3>1, <3>2
  <2>3. \A i \in 1..Len(First) : homeOf[i] \in StoreHouses
    BY <1>1, IdsAre DEF StoreTypes
  <2> QED BY <1>1, <1>3, <1>6, <1>9, <1>11, <2>1, <2>2, <2>3, VanishNext
<1> QED BY <1>3, <1>9, <1>10, <1>11 DEF StoreInv

LEMMA FoundEntry ==
  ASSUME NEW l \in Seq(Entries), NEW i, Has(l, i)
  PROVE  /\ Found(l, i) \in Seq(Entries) /\ Len(Found(l, i)) = 1 /\ Found(l, i)[1].id = i /\ i \in Entered
         /\ \A R : Shows(l, R) => i \in DOMAIN R /\ Found(l, i) = <<Entry(i, R[i])>>
<1>1. PICK n \in DOMAIN l : l[n].id = i /\ Found(l, i) = <<l[n]>>
  BY FoundIs
<1>2. PICK e \in Entries : e = l[n] /\ e.id = i /\ Found(l, i) = <<e>>
  BY <1>1
<1>3. i \in Entered /\ e = Entry(i, e.value)
  BY <1>2, EntryOf
<1>4. \A R : Shows(l, R) => i \in DOMAIN R /\ e.value = R[i]
  BY <1>1, <1>2 DEF Shows
<1>5. <<e>> \in Seq(Entries) /\ Len(<<e>>) = 1 /\ <<e>>[1] = e
  BY <1>2
<1> QED BY <1>2, <1>3, <1>4, <1>5

LEMMA UpdateEntityStep ==
  ASSUME StoreInv, NEW v \in Values, NEW i \in Entered, UpdateEntity(i, v) PROVE StoreInv'
<1>1. StoreTypes /\ (orderly => OrderlyInv) /\ (kind # "room" => VanishInv)
  BY DEF StoreInv
<1>2. PICK l \in Seq(Entries) : l = lists[shown]
  BY <1>1 DEF StoreTypes
<1>3. PICK b, d : b = Found(l, i) /\ d = Call("update", i, shown, v, b)
  OBVIOUS
<1>4. /\ UNCHANGED <<kind, orderly, table, homeOf, shown, creations, missedRows>>
      /\ lists' = Put(shown, Replaced(l, i, Entry(i, v))) /\ Has(l, i)
      /\ storeCalls' = [storeCalls EXCEPT ![Free] = d] /\ begun' = IF orderly THEN begun ELSE begun + 1
      /\ begun < MaxHasty
  BY <1>2, <1>3, HasAt DEF UpdateEntity, Begin, MayCall
<1>5. PICK s \in Slots : s = Free /\ storeCalls[s].op = "none" /\ (orderly => UnderWay = {})
  BY <1>1, SlotIsFree DEF UpdateEntity
<1>6. b \in Seq(Entries) /\ Len(b) = 1 /\ b[1].id = i
  BY <1>3, <1>4, FoundEntry
<1>7. /\ d \in StoreCalls /\ d.op = "update" /\ d.home = shown /\ d.stage = "sent" /\ d.id = i /\ d.value = v
      /\ d.before = b
  <2>1. <<>> \in Seq(Entries) /\ shown \in StoreHouses
    BY <1>1 DEF StoreTypes
  <2>2. d = [op |-> "update", id |-> i, home |-> shown, value |-> v, before |-> b, listed |-> TRUE,
             stage |-> "sent", reply |-> <<>>]
    BY <1>3, Requested
  <2> QED BY <1>6, <2>1, <2>2 DEF StoreCalls
<1>8. PICK e \in Entries : e = Entry(i, v) /\ e.id = i /\ e.value = v
  BY EntryIn, EntryFields
<1>9. PICK r \in Seq(Entries) : /\ r = Replaced(l, i, e) /\ lists' = Put(shown, r)
                                /\ \A j : Has(l, j) => Has(r, j)
  <2>1. /\ Replaced(l, i, e) \in Seq(Entries)
        /\ \A j : j # i /\ Has(l, j) => Has(Replaced(l, i, e), j)
        /\ Has(l, i) => Has(Replaced(l, i, e), i)
    BY <1>8, ReplacedKeeps
  <2> QED BY <1>4, <1>8, <2>1
<1>10. /\ StoreTypes' /\ storeCalls'[s] = d /\ \A q \in Slots : q # s => storeCalls'[q] = storeCalls[q]
  <2>1. AboutInv(d)'
    BY <1>6, <1>7 DEF AboutInv
  <2>2. begun' \in 0..MaxHasty /\ creations' \in creations..MaxNew
    BY <1>1, <1>4, StoreAssumption DEF StoreTypes
  <2>3. lists' \in [StoreHouses -> Seq(Entries)]
    BY <1>1, <1>9, PutIs DEF StoreTypes
  <2>4. /\ \A j \in Ids : j > Len(First) + creations' => table'[j] = Absent
        /\ table' \in [Ids -> Values \cup {Absent}] /\ homeOf' \in [Ids -> StoreHouses]
        /\ shown' \in StoreHouses /\ missedRows' \in BOOLEAN
    BY <1>1, <1>4 DEF StoreTypes
  <2> QED BY <1>1, <1>4, <1>5, <1>7, <2>1, <2>2, <2>3, <2>4, TypesKept
<1>11. ASSUME orderly PROVE OrderlyInv'
  <2>1. ASSUME ~missedRows
        PROVE  /\ i \in OfHome(shown) /\ b = <<Entry(i, table[i])>>
               /\ Shows(lists'[shown], View(OfHome(shown), i, v))
    <3> DEFINE R == Server(shown)
               Q == View(OfHome(shown), i, v)
    <3>1. Shows(l, R)
      BY <1>1, <1>2, <1>5, <1>11, <2>1 DEF OrderlyInv
    <3>2. i \in DOMAIN R /\ Found(l, i) = <<Entry(i, R[i])>>
      BY <1>4, <3>1, FoundEntry
    <3>3. DOMAIN R = OfHome(shown) /\ \A j \in OfHome(shown) : R[j] = table[j]
      BY <1>1, ServerIs
    <3> HIDE DEF R
    <3>4. DOMAIN Q = OfHome(shown) /\ Q[i] = v /\ \A j \in OfHome(shown) : j # i => Q[j] = table[j]
      BY <3>2, <3>3, ViewIs
    <3> HIDE DEF Q
    <3>5. /\ e.id \in DOMAIN R => e.id = i
          /\ \A j : j \in DOMAIN Q <=> (j \in DOMAIN R /\ j # i) \/ j = e.id
          /\ Q[e.id] = e.value /\ \A j \in DOMAIN R : j # i => Q[j] = R[j]
      BY <1>8, <3>2, <3>3, <3>4
    <3>6. Shows(r, Q)
      <4>1. Shows(Replaced(l, i, e), Q)
        <5>1. i \in DOMAIN R
          BY <3>2
        <5> QED BY <3>1, <3>5, <5>1, ReplacedShows
      <4> QED BY <1>9, <4>1
    <3>7. lists'[shown] = r
      BY <1>1, <1>9, PutIs DEF StoreTypes
    <3> QED BY <1>3, <3>2, <3>3, <3>6, <3>7 DEF Q
  <2>2. FetchInv(d)' /\ CreateInv(d)' /\ DeleteInv(d)'
    BY <1>7 DEF FetchInv, CreateInv, DeleteInv
  <2>3. UpdateInv(d)'
    <3>1. (OfHome(shown))' = OfHome(shown) /\ (View(OfHome(shown), i, v))' = View(OfHome(shown), i, v)
      BY <1>4 DEF View, OfHome
    <3> QED BY <1>4, <1>7, <2>1, <3>1 DEF UpdateInv
  <2>4. UnderWay \subseteq {s} /\ d.home = shown' /\ d.op # "none"
    BY <1>4, <1>5, <1>7, <1>11
  <2> QED BY <1>1, <1>7, <1>10, <2>2, <2>3, <2>4, OrderlyNext
<1>12. ASSUME kind # "room" PROVE VanishInv'
  <2>1. \A j : ~HoldsRow(storeCalls[s], j)
    BY <1>5 DEF HoldsRow
  <2>2. /\ kind = "house" => \A f, g \in StoreHouses : lists'[f] = lists'[g]
        /\ \A j, g : g \in StoreHouses /\ Has(lists[g], j) => Has(lists'[g], j)
    <3>1. shown \in StoreHouses
      BY <1>1 DEF StoreTypes
    <3> QED BY <1>1, <1>2, <1>9, <1>12, <3>1, PutVanish
  <2>3. \A j \in 1..Len(First) : homeOf[j] \in StoreHouses
    BY <1>1, IdsAre DEF StoreTypes
  <2> QED BY <1>1, <1>4, <1>7, <1>10, <1>12, <2>1, <2>2, <2>3, VanishNext
<1> QED BY <1>4, <1>10, <1>11, <1>12 DEF StoreInv

LEMMA DeleteEntityStep ==
  ASSUME StoreInv, NEW i \in Entered, DeleteEntity(i) PROVE StoreInv'
<1>1. StoreTypes /\ (orderly => OrderlyInv) /\ (kind # "room" => VanishInv)
  BY DEF StoreInv
<1>2. PICK l \in Seq(Entries) : l = lists[shown]
  BY <1>1 DEF StoreTypes
<1>3. PICK b, d : b = Found(l, i) /\ d = Call("delete", i, shown, Absent, b)
  OBVIOUS
<1>4. /\ UNCHANGED <<kind, orderly, table, homeOf, shown, creations, missedRows>>
      /\ lists' = Put(shown, WithoutId(l, i)) /\ Has(l, i)
      /\ storeCalls' = [storeCalls EXCEPT ![Free] = d] /\ begun' = IF orderly THEN begun ELSE begun + 1
      /\ begun < MaxHasty
  BY <1>2, <1>3, HasAt DEF DeleteEntity, Begin, MayCall
<1>5. PICK s \in Slots : s = Free /\ storeCalls[s].op = "none" /\ (orderly => UnderWay = {})
  BY <1>1, SlotIsFree DEF DeleteEntity
<1>6. b \in Seq(Entries) /\ Len(b) = 1 /\ b[1].id = i
  BY <1>3, <1>4, FoundEntry
<1>7. /\ d \in StoreCalls /\ d.op = "delete" /\ d.home = shown /\ d.stage = "sent" /\ d.id = i /\ d.value = Absent
      /\ d.before = b
  <2>1. <<>> \in Seq(Entries) /\ shown \in StoreHouses
    BY <1>1 DEF StoreTypes
  <2>2. d = [op |-> "delete", id |-> i, home |-> shown, value |-> Absent, before |-> b, listed |-> TRUE,
             stage |-> "sent", reply |-> <<>>]
    BY <1>3, Requested
  <2> QED BY <1>6, <2>1, <2>2 DEF StoreCalls
<1>8. PICK w \in Seq(Entries) : /\ w = WithoutId(l, i) /\ lists' = Put(shown, w)
                                /\ \A j : j # i /\ Has(l, j) => Has(w, j)
  BY <1>4, WithoutIdHas
<1>9. /\ StoreTypes' /\ storeCalls'[s] = d /\ \A q \in Slots : q # s => storeCalls'[q] = storeCalls[q]
  <2>1. AboutInv(d)'
    BY <1>6, <1>7 DEF AboutInv
  <2>2. begun' \in 0..MaxHasty /\ creations' \in creations..MaxNew
    BY <1>1, <1>4, StoreAssumption DEF StoreTypes
  <2>3. lists' \in [StoreHouses -> Seq(Entries)]
    BY <1>1, <1>8, PutIs DEF StoreTypes
  <2>4. /\ \A j \in Ids : j > Len(First) + creations' => table'[j] = Absent
        /\ table' \in [Ids -> Values \cup {Absent}] /\ homeOf' \in [Ids -> StoreHouses]
        /\ shown' \in StoreHouses /\ missedRows' \in BOOLEAN
    BY <1>1, <1>4 DEF StoreTypes
  <2> QED BY <1>1, <1>4, <1>5, <1>7, <2>1, <2>2, <2>3, <2>4, TypesKept
<1>10. ASSUME orderly PROVE OrderlyInv'
  <2>1. ASSUME ~missedRows
        PROVE  /\ i \in OfHome(shown) /\ b = <<Entry(i, table[i])>>
               /\ Shows(lists'[shown], View(OfHome(shown) \ {i}, 0, Absent))
    <3> DEFINE R == Server(shown)
               Q == View(OfHome(shown) \ {i}, 0, Absent)
    <3>1. Shows(l, R)
      BY <1>1, <1>2, <1>5, <1>10, <2>1 DEF OrderlyInv
    <3>2. i \in DOMAIN R /\ Found(l, i) = <<Entry(i, R[i])>>
      BY <1>4, <3>1, FoundEntry
    <3>3. DOMAIN R = OfHome(shown) /\ \A j \in OfHome(shown) : R[j] = table[j] /\ j # 0
      BY <1>1, ServerIs, IdsAre
    <3> HIDE DEF R
    <3>4. DOMAIN Q = OfHome(shown) \ {i} /\ \A j \in OfHome(shown) \ {i} : Q[j] = table[j]
      BY <3>3, ViewIs
    <3> HIDE DEF Q
    <3>5. (\A j : j \in DOMAIN Q <=> j \in DOMAIN R /\ j # i) /\ \A j \in DOMAIN Q : Q[j] = R[j]
      BY <3>3, <3>4
    <3>6. Shows(w, Q)
      BY <1>8, <3>1, <3>5, WithoutIdShows
    <3>7. lists'[shown] = w
      BY <1>1, <1>8, PutIs DEF StoreTypes
    <3> QED BY <1>3, <3>2, <3>3, <3>6, <3>7 DEF Q
  <2>2. FetchInv(d)' /\ CreateInv(d)' /\ UpdateInv(d)'
    BY <1>7 DEF FetchInv, CreateInv, UpdateInv
  <2>3. DeleteInv(d)'
    <3>1. /\ (OfHome(shown))' = OfHome(shown)
          /\ (View(OfHome(shown) \ {i}, 0, Absent))' = View(OfHome(shown) \ {i}, 0, Absent)
      BY <1>4 DEF View, OfHome
    <3> QED BY <1>4, <1>7, <2>1, <3>1 DEF DeleteInv
  <2>4. UnderWay \subseteq {s} /\ d.home = shown' /\ d.op # "none"
    BY <1>4, <1>5, <1>7, <1>10
  <2> QED BY <1>1, <1>7, <1>9, <2>2, <2>3, <2>4, OrderlyNext
<1>11. ASSUME kind # "room" PROVE VanishInv'
  <2>1. \A j : ~HoldsRow(storeCalls[s], j)
    BY <1>5 DEF HoldsRow
  <2>2. /\ kind = "house" => \A f, g \in StoreHouses : lists'[f] = lists'[g]
        /\ \A j, g : g \in StoreHouses /\ Has(lists[g], j) /\ j # i => Has(lists'[g], j)
        /\ kind # "house" => \A g \in StoreHouses : g # shown => lists'[g] = lists[g]
    <3>1. shown \in StoreHouses
      BY <1>1 DEF StoreTypes
    <3>2. kind # "house" => \A g \in StoreHouses : g # shown => lists'[g] = lists[g]
      BY <1>1, <1>8, <1>11, <3>1, PutIs DEF OneList
    <3> QED BY <1>1, <1>2, <1>8, <1>11, <3>1, <3>2, PutVanish
  <2>3. \A j \in 1..Len(First) : homeOf[j] \in StoreHouses
    BY <1>1, IdsAre DEF StoreTypes
  <2>4. \A j \in 1..Len(First) : Has(lists[homeOf[j]], j) => Has(lists'[homeOf[j]], j) \/ HoldsRow(d, j)
    BY <1>7, <2>2, <2>3 DEF HoldsRow
  <2> QED BY <1>1, <1>4, <1>7, <1>9, <1>11, <2>1, <2>2, <2>4, VanishNext
<1> QED BY <1>4, <1>9, <1>10, <1>11 DEF StoreInv

-----------------------------------------------------------------------------
\* The server.
LEMMA CreatedId ==
  ASSUME StoreTypes, NEW c \in StoreCalls, AboutInv(c), c.op = "create"
  PROVE  /\ Len(First) - c.id \in Ids /\ Len(First) - c.id > Len(First) /\ Len(First) - c.id <= Len(First) + creations
         /\ c.id \notin Ids /\ c.id \notin Nat /\ c.id \in Entered /\ c.value \in Values
<1>1. PICK k \in 1..creations : k = -c.id
  BY DEF AboutInv
<1>2. c.id \in Int
  <2>1. \A i \in Entered \cup {0} : i \in Int
    BY IdsAre DEF Entered, Ids
  <2> QED BY <2>1 DEF StoreCalls
<1>3. c.id = -k /\ Len(First) - c.id = Len(First) + k /\ k \in 1..MaxNew
  <2>1. k \in 1..MaxNew
    BY <1>1, IdsAre DEF StoreTypes
  <2>2. PICK x \in Int : x = c.id
    BY <1>2
  <2>3. k = -x
    BY <1>1, <2>2
  <2>4. x = -k /\ Len(First) - x = Len(First) + k
    BY <2>1, <2>3, IdsAre
  <2> QED BY <2>1, <2>2, <2>4
<1>4. Len(First) + k \in Nat \ {0} /\ Len(First) + k <= Len(First) + MaxNew /\ Len(First) + k > Len(First)
      /\ Len(First) + k <= Len(First) + creations
  <2>1. creations \in Nat /\ k \in Nat /\ 1 <= k /\ k <= creations /\ k <= MaxNew /\ MaxNew \in Nat /\ Len(First) \in Nat
    BY <1>1, <1>3, IdsAre DEF StoreTypes
  <2> QED BY ONLY <2>1
<1> QED BY <1>3, <1>4, IdsAre DEF AboutInv

LEMMA ServeWrites ==
  ASSUME StoreTypes, NEW s \in Slots, ServeStore(s)
  PROVE  /\ table' \in [Ids -> Values \cup {Absent}] /\ homeOf' \in [Ids -> StoreHouses]
         /\ \A i \in Ids : i > Len(First) + creations => table'[i] = Absent
         /\ \A i \in 1..Len(First) : homeOf'[i] = homeOf[i] /\ (table'[i] # Absent => table[i] # Absent)
<1>1. PICK c \in StoreCalls : c = storeCalls[s] /\ AboutInv(c) /\ c.op \in {"fetch", "create", "update", "delete"}
  BY DEF StoreTypes, StoreCalls, ServeStore
<1>2. /\ table \in [Ids -> Values \cup {Absent}] /\ homeOf \in [Ids -> StoreHouses] /\ 1..Len(First) \subseteq Ids
      /\ \A i \in Ids : i > Len(First) + creations => table[i] = Absent
  BY IdsAre DEF StoreTypes
<1>3. CASE c.op = "fetch"
  BY <1>1, <1>2, <1>3 DEF ServeStore
<1>4. CASE c.op = "create"
  <2>1. PICK i \in Ids : i = Len(First) - c.id /\ i > Len(First) /\ i <= Len(First) + creations
    BY <1>1, <1>4, CreatedId
  <2>2. c.value \in Values /\ c.home \in StoreHouses
    BY <1>1, <1>4, CreatedId DEF StoreCalls
  <2>3. table' = [table EXCEPT ![i] = c.value] /\ homeOf' = [homeOf EXCEPT ![i] = c.home]
    BY <1>1, <1>4, <2>1 DEF ServeStore
  <2>4. \A j \in Ids : j # i => table'[j] = table[j] /\ homeOf'[j] = homeOf[j]
    BY <1>2, <2>3
  <2>5. \A j \in 1..Len(First) : j # i
    BY <2>1, IdsAre
  <2>6. \A j \in Ids : j > Len(First) + creations => j # i
    BY <2>1, IdsAre DEF StoreTypes
  <2>7. table' \in [Ids -> Values \cup {Absent}] /\ homeOf' \in [Ids -> StoreHouses]
    BY <1>2, <2>2, <2>3
  <2> QED BY <1>2, <2>4, <2>5, <2>6, <2>7
<1>5. CASE c.op \in {"update", "delete"}
  <2>1. table' = [table EXCEPT ![c.id] = c.value] /\ homeOf' = homeOf /\ c.id \in Ids /\ table[c.id] # Absent
    BY <1>1, <1>5 DEF ServeStore
  <2>2. c.value \in Values \cup {Absent}
    BY <1>1 DEF StoreCalls
  <2> QED BY <1>2, <2>1, <2>2
<1> QED BY <1>1, <1>3, <1>4, <1>5

LEMMA ServeStoreStep == ASSUME StoreInv, NEW s \in Slots, ServeStore(s) PROVE StoreInv'
<1>1. StoreTypes /\ (orderly => OrderlyInv) /\ (kind # "room" => VanishInv)
  BY DEF StoreInv
<1>2. PICK c \in StoreCalls : c = storeCalls[s] /\ AboutInv(c) /\ c.op \in {"fetch", "create", "update", "delete"}
                              /\ c.stage = "sent"
  BY <1>1 DEF StoreTypes, StoreCalls, ServeStore
<1>3. PICK a \in Seq(Entries) : a = IF c.op = "fetch" THEN Listed(c.home) ELSE <<>>
  <2>1. Listed(c.home) \in Seq(Entries) /\ <<>> \in Seq(Entries)
    BY <1>1, ListedShows DEF StoreTypes, StoreCalls
  <2> QED BY <2>1
<1>4. PICK d : d = [c EXCEPT !.stage = "served", !.reply = a]
  OBVIOUS
<1>5. /\ d \in StoreCalls /\ d.op = c.op /\ d.id = c.id /\ d.home = c.home /\ d.value = c.value
      /\ d.before = c.before /\ (d.listed <=> c.listed) /\ d.stage = "served" /\ d.reply = a
  BY <1>4 DEF StoreCalls
<1>6. storeCalls' = [storeCalls EXCEPT ![s] = d]
  BY <1>2, <1>3, <1>4 DEF ServeStore
<1>7. UNCHANGED <<begun, kind, orderly, lists, shown, creations, missedRows>>
  BY DEF ServeStore
<1>8. /\ StoreTypes' /\ storeCalls'[s] = d /\ \A q \in Slots : q # s => storeCalls'[q] = storeCalls[q]
  <2>1. AboutInv(d)'
    BY <1>2, <1>5, <1>7 DEF AboutInv
  <2>2. begun' \in 0..MaxHasty /\ creations' \in creations..MaxNew
    BY <1>1, <1>7 DEF StoreTypes
  <2>3. /\ lists' \in [StoreHouses -> Seq(Entries)] /\ shown' \in StoreHouses /\ missedRows' \in BOOLEAN
    BY <1>1, <1>7 DEF StoreTypes
  <2>4. /\ table' \in [Ids -> Values \cup {Absent}] /\ homeOf' \in [Ids -> StoreHouses]
        /\ \A i \in Ids : i > Len(First) + creations' => table'[i] = Absent
    BY <1>1, <1>7, ServeWrites
  <2> QED BY <1>1, <1>5, <1>6, <1>7, <2>1, <2>2, <2>3, <2>4, TypesKept
<1>9. ASSUME orderly PROVE OrderlyInv'
  <2>1. UnderWay \subseteq {s} /\ c.home = shown /\ CreateInv(c) /\ UpdateInv(c) /\ DeleteInv(c)
    BY <1>1, <1>2, <1>9 DEF OrderlyInv, UnderWay
  <2>2. CASE c.op = "fetch"
    <3>1. UNCHANGED <<kind, table, homeOf>>
      BY <1>2, <1>7, <2>2 DEF ServeStore
    <3>2. a = (Listed(shown))'
      <4>1. a = Listed(shown)
        BY <1>3, <2>1, <2>2
      <4>2. (Listed(shown))' = Listed(shown)
        BY <1>7, <3>1 DEF Listed, OfHome
      <4> QED BY <4>1, <4>2
    <3>3. FetchInv(d)' /\ CreateInv(d)' /\ UpdateInv(d)' /\ DeleteInv(d)'
      BY <1>5, <2>2, <3>2 DEF FetchInv, CreateInv, UpdateInv, DeleteInv
    <3> QED BY <1>1, <1>2, <1>5, <1>7, <1>8, <2>1, <3>3, OrderlyNext
  <2>3. CASE c.op = "create"
    <3>1. PICK i \in Ids : i = Len(First) - c.id
      BY <1>1, <1>2, <2>3, CreatedId
    <3>2. table' = [table EXCEPT ![i] = c.value] /\ homeOf' = [homeOf EXCEPT ![i] = shown]
      BY <1>2, <2>1, <2>3, <3>1 DEF ServeStore
    <3>3. table[i] = Absent /\ c.value # Absent
      BY <1>1, <1>2, <2>1, <2>3, <3>1, CreatedId, IdsAre DEF CreateInv
    <3>4. /\ table'[i] = c.value /\ homeOf'[i] = shown
          /\ \A j \in Ids : j # i => table'[j] = table[j] /\ homeOf'[j] = homeOf[j]
      BY <1>1, <3>2 DEF StoreTypes
    <3>5. (OfHome(shown))' = OfHome(shown) \cup {i} /\ i \notin OfHome(shown)
      BY <1>7, <3>3, <3>4 DEF OfHome
    <3>6. (View((OfHome(shown) \ {i}) \cup {c.id}, c.id, c.value))' = View((OfHome(shown) \ {i}) \cup {c.id}, c.id, c.value)
      <4>1. PICK S : S = (OfHome(shown) \ {i}) \cup {c.id}
        OBVIOUS
      <4>2. ((OfHome(shown))' \ {i}) \cup {c.id} = S
        BY <3>5, <4>1
      <4>3. \A j \in S : j # c.id => table'[j] = table[j]
        BY <3>4, <4>1 DEF OfHome
      <4>4. [j \in S |-> IF j = c.id THEN c.value ELSE table'[j]] = [j \in S |-> IF j = c.id THEN c.value ELSE table[j]]
        BY <4>3
      <4> QED BY <4>1, <4>2, <4>4 DEF View
    <3>7. CreateInv(d)'
      BY <1>2, <1>5, <1>7, <2>1, <2>3, <3>1, <3>4, <3>5, <3>6 DEF CreateInv
    <3>8. FetchInv(d)' /\ UpdateInv(d)' /\ DeleteInv(d)'
      BY <1>5, <2>3 DEF FetchInv, UpdateInv, DeleteInv
    <3> QED BY <1>1, <1>2, <1>5, <1>7, <1>8, <2>1, <3>7, <3>8, OrderlyNext
  <2>4. CASE c.op = "update"
    <3>1. table' = [table EXCEPT ![c.id] = c.value] /\ homeOf' = homeOf /\ c.id \in Ids /\ table[c.id] # Absent
          /\ c.value # Absent
      BY <1>2, <2>4, IdsAre DEF ServeStore, AboutInv
    <3>2. table'[c.id] = c.value /\ \A j \in Ids : j # c.id => table'[j] = table[j]
      BY <1>1, <3>1 DEF StoreTypes
    <3>3. (OfHome(shown))' = OfHome(shown)
      BY <1>7, <3>1, <3>2 DEF OfHome
    <3>4. (View(OfHome(shown), c.id, c.value))' = View(OfHome(shown), c.id, c.value)
      BY <1>7, <3>2, <3>3 DEF View, OfHome
    <3>5. UpdateInv(d)'
      BY <1>2, <1>5, <1>7, <2>1, <2>4, <3>2, <3>3, <3>4 DEF UpdateInv
    <3>6. FetchInv(d)' /\ CreateInv(d)' /\ DeleteInv(d)'
      BY <1>5, <2>4 DEF FetchInv, CreateInv, DeleteInv
    <3> QED BY <1>1, <1>2, <1>5, <1>7, <1>8, <2>1, <3>5, <3>6, OrderlyNext
  <2>5. CASE c.op = "delete"
    <3>1. table' = [table EXCEPT ![c.id] = Absent] /\ homeOf' = homeOf /\ c.id \in Ids
      BY <1>2, <2>5 DEF ServeStore, AboutInv
    <3>2. table'[c.id] = Absent /\ \A j \in Ids : j # c.id => table'[j] = table[j]
      BY <1>1, <3>1 DEF StoreTypes
    <3>3. (OfHome(shown))' = OfHome(shown) \ {c.id} /\ (OfHome(shown))' \ {c.id} = OfHome(shown) \ {c.id}
      BY <1>7, <3>1, <3>2 DEF OfHome
    <3>4. (View(OfHome(shown) \ {c.id}, 0, Absent))' = View(OfHome(shown) \ {c.id}, 0, Absent)
      BY <1>7, <3>2, <3>3 DEF View, OfHome
    <3>5. DeleteInv(d)'
      BY <1>2, <1>5, <1>7, <2>1, <2>5, <3>3, <3>4 DEF DeleteInv
    <3>6. FetchInv(d)' /\ CreateInv(d)' /\ UpdateInv(d)'
      BY <1>5, <2>5 DEF FetchInv, CreateInv, UpdateInv
    <3> QED BY <1>1, <1>2, <1>5, <1>7, <1>8, <2>1, <3>5, <3>6, OrderlyNext
  <2> QED BY <1>2, <2>2, <2>3, <2>4, <2>5
<1>10. ASSUME kind # "room" PROVE VanishInv'
  <2>1. \A i \in 1..Len(First) : homeOf'[i] = homeOf[i] /\ (table'[i] # Absent => table[i] # Absent)
    BY <1>1, ServeWrites
  <2>2. kind = "house" => \A g, h \in StoreHouses : lists'[g] = lists'[h]
    BY <1>1, <1>7, <1>10 DEF VanishInv
  <2>3. \A i : HoldsRow(storeCalls[s], i) => HoldsRow(d, i)
    BY <1>2, <1>5 DEF HoldsRow
  <2>4. ASSUME d.op = "fetch", NEW i \in 1..Len(First), table'[i] # Absent, kind = "house" \/ homeOf[i] = d.home
        PROVE  Has(d.reply, i)
    <3>1. i \in OfHome(c.home)
      BY <1>5, <2>1, <2>4, IdsAre DEF OfHome
    <3>2. c.home \in StoreHouses /\ a = Listed(c.home)
      BY <1>3, <1>5, <2>4 DEF StoreCalls
    <3>3. i \in DOMAIN Server(c.home) /\ Shows(Listed(c.home), Server(c.home))
      BY <1>1, <3>1, <3>2, ServerIs, ListedShows DEF StoreTypes
    <3> QED BY <1>5, <3>2, <3>3 DEF Shows
  <2>5. d.op = "delete" => table'[d.id] = Absent
    <3> SUFFICES ASSUME d.op = "delete" PROVE table'[d.id] = Absent
      OBVIOUS
    <3>1. table' = [table EXCEPT ![c.id] = Absent] /\ c.id \in Ids
      BY <1>2, <1>5 DEF ServeStore, AboutInv
    <3> QED BY <1>1, <1>5, <3>1 DEF StoreTypes
  <2> QED BY <1>1, <1>5, <1>7, <1>8, <1>10, <2>1, <2>2, <2>3, <2>4, <2>5, VanishNext
<1> QED BY <1>7, <1>8, <1>9, <1>10 DEF StoreInv

-----------------------------------------------------------------------------
\* An answer, or its failure, ends a request; a fetch may follow.
Ends(s, d) ==
  /\ storeCalls[s].op # "none" /\ (d.op = "none" \/ (d.op = "fetch" /\ d.stage = "sent"))
  /\ storeCalls' = [storeCalls EXCEPT ![s] = d]
  /\ UNCHANGED <<kind, orderly, table, homeOf, shown, creations, begun>>
\* No list loses a house or a tenant of the server by it.
NothingLost(s) ==
  /\ lists' \in [StoreHouses -> Seq(Entries)]
  /\ kind = "house" => \A f, g \in StoreHouses : lists'[f] = lists'[g]
  /\ kind # "room" => \A i \in 1..Len(First) :
       table[i] # Absent /\ (Has(lists[homeOf[i]], i) \/ HoldsRow(storeCalls[s], i)) => Has(lists'[homeOf[i]], i)

LEMMA AnswerStep ==
  ASSUME StoreInv, NEW s \in Slots, NEW d \in StoreCalls, Ends(s, d), NothingLost(s), missedRows' \in BOOLEAN,
         orderly /\ d.op = "none" /\ ~missedRows' => Shows(lists'[shown], Server(shown)),
         orderly /\ d.op = "fetch" => d.home = shown
  PROVE  StoreInv'
<1>1. StoreTypes /\ (orderly => OrderlyInv) /\ (kind # "room" => VanishInv)
  BY DEF StoreInv
<1> USE DEF Ends, NothingLost
<1>2. /\ StoreTypes' /\ storeCalls'[s] = d /\ \A q \in Slots : q # s => storeCalls'[q] = storeCalls[q]
  <2>1. AboutInv(d)'
    BY DEF AboutInv
  <2>2. /\ begun' \in 0..MaxHasty /\ creations' \in creations..MaxNew /\ shown' \in StoreHouses
        /\ table' \in [Ids -> Values \cup {Absent}] /\ homeOf' \in [Ids -> StoreHouses]
        /\ \A i \in Ids : i > Len(First) + creations' => table'[i] = Absent
    BY <1>1 DEF StoreTypes
  <2> QED BY <1>1, <2>1, <2>2, TypesKept
<1>3. ASSUME orderly PROVE OrderlyInv'
  <2>1. UnderWay \subseteq {s}
    BY <1>1, <1>3 DEF OrderlyInv, UnderWay
  <2>2. (Server(shown))' = Server(shown)
    BY SameServer
  <2>3. FetchInv(d)' /\ CreateInv(d)' /\ UpdateInv(d)' /\ DeleteInv(d)'
    BY DEF FetchInv, CreateInv, UpdateInv, DeleteInv
  <2>4. d.op = "none" /\ ~missedRows' => Shows(lists[shown], Server(shown))'
    BY <1>3, <2>2
  <2> QED BY <1>1, <1>2, <1>3, <2>1, <2>3, <2>4, OrderlyNext
<1>4. ASSUME kind # "room" PROVE VanishInv'
  BY <1>1, <1>2, <1>4, VanishNext
<1> QED BY <1>2, <1>3, <1>4 DEF StoreInv

LEMMA ListFetchedStep == ASSUME StoreInv, NEW s \in Slots, ListFetched(s) PROVE StoreInv'
<1>1. StoreTypes /\ (orderly => OrderlyInv) /\ (kind # "room" => VanishInv)
  BY DEF StoreInv
<1>2. PICK c \in StoreCalls : c = storeCalls[s] /\ c.op = "fetch" /\ c.stage = "served"
  BY <1>1 DEF StoreTypes, ListFetched, Answered
<1>3. PICK l \in Seq(Entries) : l = c.reply
  BY DEF StoreCalls
<1>4. PICK h \in StoreHouses : h = c.home
  BY DEF StoreCalls
<1>5. lists' = Put(h, l) /\ lists' \in [StoreHouses -> Seq(Entries)] /\ lists'[h] = l
  BY <1>1, <1>2, <1>3, <1>4, PutIs DEF ListFetched
<1>6. orderly => h = shown /\ Shows(lists'[shown], Server(shown))
  <2> SUFFICES ASSUME orderly PROVE h = shown /\ Shows(lists'[shown], Server(shown))
    OBVIOUS
  <2>1. h = shown /\ l = Listed(shown)
    BY <1>1, <1>2, <1>3, <1>4 DEF OrderlyInv, FetchInv, UnderWay
  <2> QED BY <1>1, <1>5, <2>1, ListedShows DEF StoreTypes
<1>7. ASSUME kind # "room"
      PROVE  /\ kind = "house" => \A f, g \in StoreHouses : lists'[f] = lists'[g]
             /\ \A i \in 1..Len(First) : table[i] # Absent /\ Has(lists[homeOf[i]], i) => Has(lists'[homeOf[i]], i)
  <2>1. \A i \in 1..Len(First) : table[i] # Absent /\ (kind = "house" \/ homeOf[i] = h) => Has(l, i)
    BY <1>1, <1>2, <1>3, <1>4, <1>7 DEF VanishInv
  <2>2. /\ kind = "house" => \A f, g \in StoreHouses : lists'[f] = lists'[g]
        /\ \A i, g : g \in StoreHouses /\ Has(l, i) /\ (kind = "house" \/ g = h) => Has(lists'[g], i)
    BY <1>1, <1>5, <1>7, PutVanish
  <2>3. kind # "house" => \A g \in StoreHouses : g # h => lists'[g] = lists[g]
    BY <1>1, <1>5, <1>7, PutIs DEF OneList
  <2>4. \A i \in 1..Len(First) : homeOf[i] \in StoreHouses
    BY <1>1, IdsAre DEF StoreTypes
  <2> QED BY <2>1, <2>2, <2>3, <2>4
<1>8. \A i : ~HoldsRow(storeCalls[s], i)
  BY <1>2 DEF HoldsRow
<1>9. NothingLost(s)
  BY <1>5, <1>7, <1>8 DEF NothingLost
<1>10. PICK d \in StoreCalls : d = NoStoreCall /\ d.op = "none"
  BY <1>1, Idle
<1>11. Ends(s, d) /\ missedRows' \in BOOLEAN
  BY <1>2, <1>10 DEF ListFetched, End, Ends
<1> QED BY <1>6, <1>9, <1>10, <1>11, AnswerStep

\* A request that fails is over.
LEMMA FailStep ==
  ASSUME StoreInv, NEW op \in {"fetch", "create", "update", "delete"}, NEW s \in Slots, Fails(op, s),
         NothingLost(s), orderly /\ ~missedRows' => Shows(lists'[shown], Server(shown))
  PROVE  StoreInv'
<1>1. PICK d \in StoreCalls : d = NoStoreCall /\ d.op = "none"
  BY Idle DEF StoreInv
<1>2. Ends(s, d) /\ missedRows' \in BOOLEAN
  BY <1>1 DEF Fails, End, Ends
<1> QED BY <1>1, <1>2, AnswerStep

LEMMA ListNotFetchedStep == ASSUME StoreInv, NEW s \in Slots, ListNotFetched(s) PROVE StoreInv'
<1>1. StoreTypes /\ (kind # "room" => VanishInv)
  BY DEF StoreInv
<1>2. Fails("fetch", s) /\ lists' = lists /\ missedRows' = TRUE /\ storeCalls[s].op = "fetch"
  BY DEF ListNotFetched, Fails
<1>3. \A i : ~HoldsRow(storeCalls[s], i)
  BY <1>2 DEF HoldsRow
<1>4. NothingLost(s)
  BY <1>1, <1>2, <1>3 DEF StoreTypes, VanishInv, NothingLost
<1> QED BY <1>2, <1>4, FailStep

\* A list of the request's house that keeps its entries, put in place.
LEMMA PutLosesNothing ==
  ASSUME StoreInv, NEW s \in Slots, NEW h \in StoreHouses, NEW l \in Seq(Entries), lists' = Put(h, l),
         storeCalls[s].home = h, \A i \in 1..Len(First) : Has(lists[h], i) => Has(l, i),
         \A i \in 1..Len(First) : HoldsRow(storeCalls[s], i) => Has(l, i)
  PROVE  NothingLost(s) /\ lists'[h] = l
<1>1. StoreTypes /\ (kind # "room" => VanishInv)
  BY DEF StoreInv
<1>2. lists' \in [StoreHouses -> Seq(Entries)] /\ lists'[h] = l
  BY <1>1, PutIs
<1>3. ASSUME kind # "room"
      PROVE  /\ kind = "house" => \A f, g \in StoreHouses : lists'[f] = lists'[g]
             /\ \A i \in 1..Len(First) :
                  Has(lists[homeOf[i]], i) \/ HoldsRow(storeCalls[s], i) => Has(lists'[homeOf[i]], i)
  <2>1. \A i \in 1..Len(First) : homeOf[i] \in StoreHouses
    BY <1>1, IdsAre DEF StoreTypes
  <2>2. /\ kind = "house" => \A f, g \in StoreHouses : lists'[f] = lists'[g]
        /\ \A i, g : g \in StoreHouses /\ Has(lists[g], i) /\ (Has(lists[h], i) => Has(l, i)) => Has(lists'[g], i)
        /\ \A i, g : g \in StoreHouses /\ Has(l, i) /\ (kind = "house" \/ g = h) => Has(lists'[g], i)
    BY <1>1, <1>3, PutVanish
  <2>3. \A i : HoldsRow(storeCalls[s], i) => kind = "house" \/ h = homeOf[i]
    BY DEF HoldsRow
  <2> QED BY <2>1, <2>2, <2>3
<1> QED BY <1>2, <1>3 DEF NothingLost

LEMMA CreateAnsweredStep == ASSUME StoreInv, NEW s \in Slots, CreateAnswered(s) PROVE StoreInv'
<1>1. StoreTypes /\ (orderly => OrderlyInv)
  BY DEF StoreInv
<1>2. PICK c \in StoreCalls : c = storeCalls[s] /\ AboutInv(c) /\ c.op = "create" /\ c.stage = "served"
  BY <1>1 DEF StoreTypes, CreateAnswered, Answered
<1>3. PICK h \in StoreHouses : h = c.home
  BY DEF StoreCalls
<1>4. PICK l \in Seq(Entries) : l = lists[h]
  BY <1>1 DEF StoreTypes
<1>5. /\ Len(First) - c.id \in Ids /\ Len(First) - c.id > Len(First) /\ c.id \notin Ids /\ c.id \notin Nat
      /\ c.value \in Values
  BY <1>1, <1>2, CreatedId
<1>6. PICK i \in Ids : i = Len(First) - c.id /\ i \in Entered
  BY <1>5, IdsAre
<1>7. PICK e \in Entries : e = Entry(i, c.value) /\ e.id = i /\ e.value = c.value
  BY <1>5, <1>6, EntryIn, EntryFields
<1>8. PICK r \in Seq(Entries) : r = Replaced(l, c.id, e) /\ \A j : j # c.id /\ Has(l, j) => Has(r, j)
  BY <1>7, ReplacedKeeps
<1>9. lists' = Put(h, r)
  BY <1>2, <1>3, <1>4, <1>6, <1>7, <1>8 DEF CreateAnswered
<1>10. NothingLost(s) /\ lists'[h] = r
  <2>1. \A j \in 1..Len(First) : j # c.id
    BY <1>5, IdsAre
  <2>2. \A j : ~HoldsRow(storeCalls[s], j)
    BY <1>2 DEF HoldsRow
  <2> QED BY <1>2, <1>3, <1>4, <1>8, <1>9, <2>1, <2>2, PutLosesNothing
<1>11. orderly => h = shown
  BY <1>1, <1>2, <1>3 DEF OrderlyInv, UnderWay
<1>12. CASE c.listed
  <2>1. orderly /\ ~missedRows => Shows(lists'[shown], Server(shown))
    <3> SUFFICES ASSUME orderly, ~missedRows PROVE Shows(lists'[shown], Server(shown))
      OBVIOUS
    <3> DEFINE Z == OfHome(shown)
               R == View((Z \ {i}) \cup {c.id}, c.id, c.value)
               Q == Server(shown)
    <3>1. Shows(l, R) /\ i \in Z /\ table[i] = c.value
      BY <1>1, <1>2, <1>4, <1>6, <1>11, <1>12 DEF OrderlyInv, CreateInv, UnderWay
    <3>2. DOMAIN Q = Z /\ \A j \in Z : Q[j] = table[j] /\ j \in Ids
      BY <1>1, ServerIs
    <3> HIDE DEF Q, Z
    <3>3. PICK S : S = (Z \ {i}) \cup {c.id}
      OBVIOUS
    <3>4. c.id \in S /\ \A j : j \in S <=> (j \in Z /\ j # i) \/ j = c.id
      BY <3>3
    <3>5. DOMAIN R = S /\ \A j \in S : j # c.id => R[j] = table[j]
      BY <3>3, ViewIs
    <3> HIDE DEF R
    <3>6. c.id \notin Z /\ i # c.id
      BY <1>5, <3>2
    <3>7. /\ c.id \in DOMAIN R /\ (e.id \in DOMAIN R => e.id = c.id)
          /\ \A j : j \in DOMAIN Q <=> (j \in DOMAIN R /\ j # c.id) \/ j = e.id
          /\ Q[e.id] = e.value /\ \A j \in DOMAIN R : j # c.id => Q[j] = R[j]
      BY <1>7, <3>1, <3>2, <3>4, <3>5, <3>6
    <3>8. Shows(Replaced(l, c.id, e), Q)
      BY <3>1, <3>7, ReplacedShows
    <3> QED BY <1>8, <1>10, <1>11, <3>8 DEF Q
  <2>2. PICK d \in StoreCalls : d = NoStoreCall /\ d.op = "none"
    BY <1>1, Idle
  <2>3. Ends(s, d) /\ missedRows' = missedRows /\ missedRows' \in BOOLEAN
    BY <1>1, <1>2, <1>12, <2>2 DEF CreateAnswered, End, Ends, StoreTypes
  <2> QED BY <1>10, <2>1, <2>2, <2>3, AnswerStep
<1>13. CASE ~c.listed
  <2>1. PICK d \in StoreCalls : d = Call("fetch", 0, h, Absent, <<>>) /\ d.op = "fetch" /\ d.home = h /\ d.stage = "sent"
    <3>1. <<>> \in Seq(Entries)
      OBVIOUS
    <3>2. PICK d : d = [op |-> "fetch", id |-> 0, home |-> h, value |-> Absent, before |-> <<>>, listed |-> TRUE,
                        stage |-> "sent", reply |-> <<>>]
      OBVIOUS
    <3>3. d \in StoreCalls /\ d.op = "fetch" /\ d.home = h /\ d.stage = "sent"
      BY <3>1, <3>2 DEF StoreCalls
    <3>4. d = Call("fetch", 0, h, Absent, <<>>)
      BY <3>2, Requested
    <3> QED BY <3>3, <3>4
  <2>2. Ends(s, d) /\ missedRows' \in BOOLEAN
    BY <1>1, <1>2, <1>3, <1>13, <2>1 DEF CreateAnswered, Follow, Ends, StoreTypes
  <2> QED BY <1>10, <1>11, <2>1, <2>2, AnswerStep
<1> QED BY <1>12, <1>13

LEMMA CreateFailsStep == ASSUME StoreInv, NEW s \in Slots, CreateFails(s) PROVE StoreInv'
<1>1. StoreTypes /\ (orderly => OrderlyInv)
  BY DEF StoreInv
<1>2. PICK c \in StoreCalls : c = storeCalls[s] /\ AboutInv(c) /\ c.op = "create"
  BY <1>1 DEF StoreTypes, CreateFails, Fails
<1>3. PICK h \in StoreHouses : h = c.home
  BY DEF StoreCalls
<1>4. PICK l \in Seq(Entries) : l = lists[h]
  BY <1>1 DEF StoreTypes
<1>5. c.id \notin Ids /\ c.id \notin Nat
  BY <1>1, <1>2, CreatedId
<1>6. PICK w \in Seq(Entries) : w = WithoutId(l, c.id) /\ \A j : j # c.id /\ Has(l, j) => Has(w, j)
  BY WithoutIdHas
<1>7. lists' = Put(h, w) /\ Fails("create", s)
  BY <1>2, <1>3, <1>4, <1>6 DEF CreateFails
<1>8. NothingLost(s) /\ lists'[h] = w
  <2>1. \A j \in 1..Len(First) : j # c.id
    BY <1>5, IdsAre
  <2>2. \A j : ~HoldsRow(storeCalls[s], j)
    BY <1>2 DEF HoldsRow
  <2> QED BY <1>2, <1>3, <1>4, <1>6, <1>7, <2>1, <2>2, PutLosesNothing
<1>9. orderly /\ ~missedRows' => Shows(lists'[shown], Server(shown))
  <2> SUFFICES ASSUME orderly, ~missedRows' PROVE Shows(lists'[shown], Server(shown))
    OBVIOUS
  <2>1. c.stage = "sent" /\ ~missedRows
    BY <1>2, <1>7 DEF Fails, StoreCalls
  <2>2. h = shown /\ CreateInv(c)
    BY <1>1, <1>2, <1>3 DEF OrderlyInv, UnderWay
  <2> DEFINE i == Len(First) - c.id
             Z == OfHome(shown)
             Q == Server(shown)
  <2>3. i \notin Z
    BY <1>2, <2>1, <2>2 DEF CreateInv, OfHome
  <2>4. DOMAIN Q = Z /\ \A j \in Z : Q[j] = table[j] /\ j \in Ids
    BY <1>1, ServerIs
  <2> HIDE DEF Q, Z, i
  <2>5. c.id \notin Z /\ Z \ {i} = Z
    BY <1>5, <2>3, <2>4
  <2>6. CASE c.listed
    <3> DEFINE R == View((Z \ {i}) \cup {c.id}, c.id, c.value)
    <3>1. Shows(l, R)
      BY <1>2, <1>4, <2>1, <2>2, <2>6 DEF CreateInv, Z, i
    <3>2. PICK S : S = (Z \ {i}) \cup {c.id}
      OBVIOUS
    <3>3. S \ {c.id} = Z
      BY <2>5, <3>2
    <3>4. DOMAIN R = S /\ \A j \in S : j # c.id => R[j] = table[j]
      BY <3>2, ViewIs
    <3> HIDE DEF R
    <3>5. (\A j : j \in DOMAIN Q <=> j \in DOMAIN R /\ j # c.id) /\ \A j \in DOMAIN Q : Q[j] = R[j]
      BY <2>4, <3>3, <3>4
    <3>6. Shows(w, Q)
      BY <1>6, <3>1, <3>5, WithoutIdShows
    <3> QED BY <1>8, <2>2, <3>6 DEF Q
  <2>7. CASE ~c.listed
    <3>1. Shows(l, Q)
      BY <1>2, <1>4, <2>1, <2>2, <2>7 DEF CreateInv, Q
    <3>2. (\A j : j \in DOMAIN Q <=> j \in DOMAIN Q /\ j # c.id) /\ \A j \in DOMAIN Q : Q[j] = Q[j]
      BY <2>4, <2>5
    <3>3. Shows(w, Q)
      BY <1>6, <3>1, <3>2, WithoutIdShows
    <3> QED BY <1>8, <2>2, <3>3 DEF Q
  <2> QED BY <2>6, <2>7
<1> QED BY <1>7, <1>8, <1>9, FailStep

\* An update ends with the row as it was written, or as it was before.
LEMMA RowShown ==
  ASSUME StoreInv, NEW l \in Seq(Entries), NEW e \in Entries, e.id \in OfHome(shown), e.value = table[e.id],
         NEW v, Shows(l, View(OfHome(shown), e.id, v))
  PROVE  Shows(Replaced(l, e.id, e), Server(shown))
<1> DEFINE R == View(OfHome(shown), e.id, v)
           Q == Server(shown)
<1>1. DOMAIN Q = OfHome(shown) /\ \A j \in OfHome(shown) : Q[j] = table[j]
  BY ServerIs DEF StoreInv
<1>2. DOMAIN R = OfHome(shown) /\ \A j \in OfHome(shown) : j # e.id => R[j] = table[j]
  BY ViewIs
<1>3. Shows(l, R)
  OBVIOUS
<1> HIDE DEF Q, R
<1>4. PICK i : i = e.id
  OBVIOUS
<1>5. /\ i \in DOMAIN R /\ (e.id \in DOMAIN R => e.id = i)
      /\ \A j : j \in DOMAIN Q <=> (j \in DOMAIN R /\ j # i) \/ j = e.id
      /\ Q[e.id] = e.value /\ \A j \in DOMAIN R : j # i => Q[j] = R[j]
  BY <1>1, <1>2, <1>4
<1>6. Shows(Replaced(l, i, e), Q)
  BY <1>3, <1>5, ReplacedShows
<1> QED BY <1>4, <1>6 DEF Q

LEMMA UpdateAnsweredStep == ASSUME StoreInv, NEW s \in Slots, UpdateAnswered(s) PROVE StoreInv'
<1>1. StoreTypes /\ (orderly => OrderlyInv)
  BY DEF StoreInv
<1>2. PICK c \in StoreCalls : c = storeCalls[s] /\ AboutInv(c) /\ c.op = "update" /\ c.stage = "served"
  BY <1>1 DEF StoreTypes, UpdateAnswered, Answered
<1>3. PICK h \in StoreHouses : h = c.home
  BY DEF StoreCalls
<1>4. PICK l \in Seq(Entries) : l = lists[h]
  BY <1>1 DEF StoreTypes
<1>5. PICK e \in Entries : e = Entry(c.id, c.value) /\ e.id = c.id /\ e.value = c.value
  BY <1>2, EntryIn, EntryFields DEF AboutInv
<1>6. PICK r \in Seq(Entries) : r = Replaced(l, c.id, e) /\ \A j : Has(l, j) => Has(r, j)
  BY <1>5, ReplacedKeeps
<1>7. lists' = Put(h, r)
  BY <1>2, <1>3, <1>4, <1>5, <1>6 DEF UpdateAnswered
<1>8. NothingLost(s) /\ lists'[h] = r
  <2>1. \A j : ~HoldsRow(storeCalls[s], j)
    BY <1>2 DEF HoldsRow
  <2> QED BY <1>2, <1>3, <1>4, <1>6, <1>7, <2>1, PutLosesNothing
<1>9. orderly /\ ~missedRows => Shows(lists'[shown], Server(shown))
  <2> SUFFICES ASSUME orderly, ~missedRows PROVE Shows(lists'[shown], Server(shown))
    OBVIOUS
  <2>1. h = shown /\ UpdateInv(c)
    BY <1>1, <1>2, <1>3 DEF OrderlyInv, UnderWay
  <2>2. e.id \in OfHome(shown) /\ e.value = table[e.id] /\ Shows(l, View(OfHome(shown), e.id, c.value))
    BY <1>2, <1>4, <1>5, <2>1 DEF UpdateInv
  <2>3. Shows(Replaced(l, e.id, e), Server(shown))
    BY <2>2, RowShown
  <2> QED BY <1>5, <1>6, <1>8, <2>1, <2>3
<1>10. PICK d \in StoreCalls : d = NoStoreCall /\ d.op = "none"
  BY <1>1, Idle
<1>11. Ends(s, d) /\ missedRows' = missedRows /\ missedRows' \in BOOLEAN
  BY <1>1, <1>2, <1>10 DEF UpdateAnswered, End, Ends, StoreTypes
<1> QED BY <1>8, <1>9, <1>10, <1>11, AnswerStep

LEMMA UpdateFailsStep == ASSUME StoreInv, NEW s \in Slots, UpdateFails(s) PROVE StoreInv'
<1>1. StoreTypes /\ (orderly => OrderlyInv)
  BY DEF StoreInv
<1>2. PICK c \in StoreCalls : c = storeCalls[s] /\ AboutInv(c) /\ c.op = "update"
  BY <1>1 DEF StoreTypes, UpdateFails, Fails
<1>3. PICK h \in StoreHouses : h = c.home
  BY DEF StoreCalls
<1>4. PICK l \in Seq(Entries) : l = lists[h]
  BY <1>1 DEF StoreTypes
<1>5. PICK e \in Entries : e = c.before[1] /\ e.id = c.id
  BY <1>2 DEF AboutInv, StoreCalls
<1>6. PICK r \in Seq(Entries) : r = Replaced(l, c.id, e) /\ \A j : Has(l, j) => Has(r, j)
  BY <1>5, ReplacedKeeps
<1>7. lists' = Put(h, r) /\ Fails("update", s)
  BY <1>2, <1>3, <1>4, <1>5, <1>6 DEF UpdateFails
<1>8. NothingLost(s) /\ lists'[h] = r
  <2>1. \A j : ~HoldsRow(storeCalls[s], j)
    BY <1>2 DEF HoldsRow
  <2> QED BY <1>2, <1>3, <1>4, <1>6, <1>7, <2>1, PutLosesNothing
<1>9. orderly /\ ~missedRows' => Shows(lists'[shown], Server(shown))
  <2> SUFFICES ASSUME orderly, ~missedRows' PROVE Shows(lists'[shown], Server(shown))
    OBVIOUS
  <2>1. c.stage = "sent" /\ ~missedRows
    BY <1>2, <1>7 DEF Fails, StoreCalls
  <2>2. h = shown /\ UpdateInv(c)
    BY <1>1, <1>2, <1>3 DEF OrderlyInv, UnderWay
  <2>3. e.id \in OfHome(shown) /\ e = Entry(c.id, table[c.id]) /\ Shows(l, View(OfHome(shown), e.id, c.value))
    BY <1>2, <1>4, <1>5, <2>1, <2>2 DEF UpdateInv
  <2>4. e.value = table[e.id]
    BY <1>5, <2>3, EntryFields
  <2>5. Shows(Replaced(l, e.id, e), Server(shown))
    BY <2>3, <2>4, RowShown
  <2> QED BY <1>5, <1>6, <1>8, <2>2, <2>5
<1> QED BY <1>7, <1>8, <1>9, FailStep

LEMMA DeleteAnsweredStep == ASSUME StoreInv, NEW s \in Slots, DeleteAnswered(s) PROVE StoreInv'
<1>1. StoreTypes /\ (orderly => OrderlyInv) /\ (kind # "room" => VanishInv)
  BY DEF StoreInv
<1>2. PICK c \in StoreCalls : c = storeCalls[s] /\ AboutInv(c) /\ c.op = "delete" /\ c.stage = "served"
  BY <1>1 DEF StoreTypes, DeleteAnswered, Answered
<1>3. lists' = lists /\ missedRows' = missedRows /\ missedRows' \in BOOLEAN /\ shown \in StoreHouses
  BY <1>1 DEF DeleteAnswered, StoreTypes
<1>4. NothingLost(s)
  <2>1. ASSUME kind # "room", NEW i \in 1..Len(First), HoldsRow(storeCalls[s], i) PROVE table[i] = Absent
    BY <1>1, <1>2, <2>1 DEF VanishInv, HoldsRow
  <2> QED BY <1>1, <1>3, <2>1 DEF NothingLost, StoreTypes, VanishInv
<1>5. CASE kind # "house"
  <2>1. orderly /\ ~missedRows => Shows(lists'[shown], Server(shown))
    <3> SUFFICES ASSUME orderly, ~missedRows PROVE Shows(lists[shown], Server(shown))
      BY <1>3
    <3>1. Shows(lists[shown], View(OfHome(shown) \ {c.id}, 0, Absent)) /\ c.id \notin OfHome(shown)
      BY <1>1, <1>2 DEF OrderlyInv, DeleteInv, UnderWay
    <3>2. OfHome(shown) \ {c.id} = OfHome(shown)
      BY <3>1
    <3> QED BY <3>1, <3>2 DEF Server
  <2>2. PICK d \in StoreCalls : d = NoStoreCall /\ d.op = "none"
    BY <1>1, Idle
  <2>3. Ends(s, d)
    BY <1>2, <1>5, <2>2 DEF DeleteAnswered, End, Ends
  <2> QED BY <1>3, <1>4, <2>1, <2>2, <2>3, AnswerStep
<1>6. CASE kind = "house"
  <2>1. PICK d \in StoreCalls : d = Call("fetch", 0, shown, Absent, <<>>) /\ d.op = "fetch" /\ d.home = shown
                                /\ d.stage = "sent"
    <3>1. <<>> \in Seq(Entries)
      OBVIOUS
    <3>2. PICK d : d = [op |-> "fetch", id |-> 0, home |-> shown, value |-> Absent, before |-> <<>>, listed |-> TRUE,
                        stage |-> "sent", reply |-> <<>>]
      OBVIOUS
    <3>3. d \in StoreCalls /\ d.op = "fetch" /\ d.home = shown /\ d.stage = "sent"
      BY <1>3, <3>1, <3>2 DEF StoreCalls
    <3>4. d = Call("fetch", 0, shown, Absent, <<>>)
      BY <3>2, Requested
    <3> QED BY <3>3, <3>4
  <2>2. Ends(s, d)
    BY <1>2, <1>6, <2>1 DEF DeleteAnswered, Follow, Ends
  <2> QED BY <1>3, <1>4, <2>1, <2>2, AnswerStep
<1> QED BY <1>5, <1>6

LEMMA DeleteFailsStep == ASSUME StoreInv, NEW s \in Slots, DeleteFails(s) PROVE StoreInv'
<1>1. StoreTypes /\ (orderly => OrderlyInv)
  BY DEF StoreInv
<1>2. PICK c \in StoreCalls : c = storeCalls[s] /\ AboutInv(c) /\ c.op = "delete"
  BY <1>1 DEF StoreTypes, DeleteFails, Fails
<1>3. PICK h \in StoreHouses : h = c.home
  BY DEF StoreCalls
<1>4. PICK l \in Seq(Entries) : l = lists[h]
  BY <1>1 DEF StoreTypes
<1>5. PICK e \in Entries : e = c.before[1] /\ e.id = c.id /\ l \o c.before = Append(l, e)
  BY <1>2, OneMore DEF AboutInv, StoreCalls
<1>6. PICK a \in Seq(Entries) : a = Append(l, e) /\ Has(a, e.id) /\ \A j : Has(l, j) => Has(a, j)
  BY AppendHas
<1>7. lists' = Put(h, a) /\ Fails("delete", s)
  BY <1>2, <1>3, <1>4, <1>5, <1>6 DEF DeleteFails
<1>8. NothingLost(s) /\ lists'[h] = a
  <2>1. \A j : HoldsRow(storeCalls[s], j) => Has(a, j)
    BY <1>2, <1>5, <1>6 DEF HoldsRow
  <2> QED BY <1>2, <1>3, <1>4, <1>6, <1>7, <2>1, PutLosesNothing
<1>9. orderly /\ ~missedRows' => Shows(lists'[shown], Server(shown))
  <2> SUFFICES ASSUME orderly, ~missedRows' PROVE Shows(lists'[shown], Server(shown))
    OBVIOUS
  <2>1. c.stage = "sent" /\ ~missedRows
    BY <1>2, <1>7 DEF Fails, StoreCalls
  <2>2. h = shown /\ DeleteInv(c)
    BY <1>1, <1>2, <1>3 DEF OrderlyInv, UnderWay
  <2> DEFINE R == View(OfHome(shown) \ {c.id}, 0, Absent)
             Q == Server(shown)
  <2>3. Shows(l, R) /\ c.id \in OfHome(shown) /\ e = Entry(c.id, table[c.id])
    BY <1>2, <1>4, <1>5, <2>1, <2>2 DEF DeleteInv
  <2>4. DOMAIN Q = OfHome(shown) /\ \A j \in OfHome(shown) : Q[j] = table[j] /\ j # 0
    BY <1>1, ServerIs, IdsAre
  <2>5. DOMAIN R = OfHome(shown) \ {c.id} /\ \A j \in OfHome(shown) \ {c.id} : R[j] = table[j]
    BY <2>4, ViewIs
  <2>6. e.value = table[e.id] /\ e.id = c.id
    BY <2>3, EntryFields
  <2> HIDE DEF Q, R
  <2>7. e.id \notin DOMAIN R /\ DOMAIN Q = DOMAIN R \cup {e.id} /\ Q[e.id] = e.value /\ \A j \in DOMAIN R : Q[j] = R[j]
    BY <2>3, <2>4, <2>5, <2>6
  <2>8. Shows(a, Q)
    BY <1>6, <2>3, <2>7, AppendShows
  <2> QED BY <1>8, <2>2, <2>8 DEF Q
<1> QED BY <1>7, <1>8, <1>9, FailStep

-----------------------------------------------------------------------------
LEMMA StoreInvStep == StoreInv /\ [StoreNext]_storeVars => StoreInv'
<1> SUFFICES ASSUME StoreInv, [StoreNext]_storeVars PROVE StoreInv'
  OBVIOUS
<1>1. CASE \E h \in StoreHouses : FetchList(h)
  BY <1>1, FetchListStep
<1>2. CASE \E v \in Values, listed \in BOOLEAN : CreateEntity(v, listed)
  BY <1>2, CreateEntityStep
<1>3. CASE \E v \in Values, i \in Entered : UpdateEntity(i, v)
  BY <1>3, UpdateEntityStep
<1>4. CASE \E i \in Entered : DeleteEntity(i)
  BY <1>4, DeleteEntityStep
<1>5. CASE \E s \in Slots : ServeStore(s) \/ ListFetched(s) \/ ListNotFetched(s)
  BY <1>5, ServeStoreStep, ListFetchedStep, ListNotFetchedStep
<1>6. CASE \E s \in Slots : CreateAnswered(s) \/ CreateFails(s)
  BY <1>6, CreateAnsweredStep, CreateFailsStep
<1>7. CASE \E s \in Slots : UpdateAnswered(s) \/ UpdateFails(s)
  BY <1>7, UpdateAnsweredStep, UpdateFailsStep
<1>8. CASE \E s \in Slots : DeleteAnswered(s) \/ DeleteFails(s)
  BY <1>8, DeleteAnsweredStep, DeleteFailsStep
<1>9. CASE UNCHANGED storeVars
  <2>1. StoreTypes'
    BY <1>9 DEF StoreInv, StoreTypes, storeVars, AboutInv
  <2>2. ASSUME orderly' PROVE OrderlyInv'
    <3>1. OrderlyInv
      BY <1>9, <2>2 DEF StoreInv, storeVars
    <3>2. ASSUME NEW c, FetchInv(c), CreateInv(c), UpdateInv(c), DeleteInv(c)
          PROVE  FetchInv(c)' /\ CreateInv(c)' /\ UpdateInv(c)' /\ DeleteInv(c)'
      <4>1. (OfHome(shown))' = OfHome(shown) /\ (Listed(shown))' = Listed(shown) /\ (Server(shown))' = Server(shown)
        BY <1>9 DEF storeVars, OfHome, Listed, Server, View
      <4>2. FetchInv(c)'
        BY <1>9, <3>2, <4>1 DEF FetchInv, storeVars
      <4>3. CreateInv(c)'
        BY <1>9, <3>2, <4>1 DEF CreateInv, View, storeVars
      <4>4. UpdateInv(c)'
        BY <1>9, <3>2, <4>1 DEF UpdateInv, View, storeVars
      <4>5. DeleteInv(c)'
        BY <1>9, <3>2, <4>1 DEF DeleteInv, View, storeVars
      <4> QED BY <4>2, <4>3, <4>4, <4>5
    <3>3. (Server(shown))' = Server(shown) /\ UnderWay' = UnderWay
      BY <1>9 DEF storeVars, OfHome, Server, View, UnderWay
    <3>4. ASSUME NEW s \in UnderWay
          PROVE  (storeCalls[s].home = shown /\ FetchInv(storeCalls[s]) /\ CreateInv(storeCalls[s])
                  /\ UpdateInv(storeCalls[s]) /\ DeleteInv(storeCalls[s]))'
      <4>1. PICK c : c = storeCalls[s] /\ storeCalls'[s] = c
        BY <1>9 DEF storeVars
      <4>2. c.home = shown' /\ FetchInv(c) /\ CreateInv(c) /\ UpdateInv(c) /\ DeleteInv(c)
        BY <1>9, <3>1, <4>1 DEF OrderlyInv, storeVars
      <4>3. FetchInv(c)' /\ CreateInv(c)' /\ UpdateInv(c)' /\ DeleteInv(c)'
        BY <3>2, <4>2
      <4>4. (FetchInv(storeCalls[s]))'
        BY <4>1, <4>3 DEF FetchInv
      <4>5. (CreateInv(storeCalls[s]))'
        BY <4>1, <4>3 DEF CreateInv
      <4>6. (UpdateInv(storeCalls[s]))'
        BY <4>1, <4>3 DEF UpdateInv
      <4>7. (DeleteInv(storeCalls[s]))'
        BY <4>1, <4>3 DEF DeleteInv
      <4>8. (storeCalls[s].home = shown)'
        BY <4>1, <4>2
      <4> QED BY <4>4, <4>5, <4>6, <4>7, <4>8
    <3> QED BY <1>9, <3>1, <3>3, <3>4 DEF OrderlyInv, storeVars
  <2>3. ASSUME kind' # "room" PROVE VanishInv'
    <3>1. VanishInv
      BY <1>9, <2>3 DEF StoreInv, storeVars
    <3> QED BY <1>9, <3>1 DEF VanishInv, storeVars, HoldsRow
  <2> QED BY <2>1, <2>2, <2>3 DEF StoreInv
<1> QED BY <1>1, <1>2, <1>3, <1>4, <1>5, <1>6, <1>7, <1>8, <1>9
        DEF StoreNext, FetchHouses, CreateHouse, UpdateHouse, DeleteHouse, FetchRooms, CreateRoom, UpdateRoom, DeleteRoom,
            FetchTenants, CreateTenant, UpdateTenant, DeleteTenant, StoreFetching, Creating, Updating, Deleting

\* A list that shows rows has their entries, and as many of them.
LEMMA ShownExactly ==
  ASSUME StoreTypes, NEW h, NEW l \in Seq(Entries), Shows(l, Server(h))
  PROVE  /\ {l[n] : n \in DOMAIN l} = {Entry(i, table[i]) : i \in OfHome(h)}
         /\ Len(l) = Cardinality(OfHome(h))
<1>1. DOMAIN Server(h) = OfHome(h) /\ \A j \in OfHome(h) : Server(h)[j] = table[j]
  BY ServerIs
<1>2. \A n \in DOMAIN l : l[n].id \in OfHome(h) /\ l[n] = Entry(l[n].id, table[l[n].id])
  <2> SUFFICES ASSUME NEW n \in DOMAIN l PROVE l[n].id \in OfHome(h) /\ l[n] = Entry(l[n].id, table[l[n].id])
    OBVIOUS
  <2>1. l[n].id \in OfHome(h) /\ l[n].value = table[l[n].id]
    BY <1>1 DEF Shows
  <2>2. l[n] \in Entries
    OBVIOUS
  <2> QED BY <2>1, <2>2, EntryOf
<1>3. \A i \in OfHome(h) : \E n \in DOMAIN l : l[n].id = i
  BY <1>1 DEF Shows, Has
<1>4. {l[n] : n \in DOMAIN l} = {Entry(i, table[i]) : i \in OfHome(h)}
  BY <1>2, <1>3
<1>5. Len(l) = Cardinality(OfHome(h))
  <2> DEFINE f == [n \in 1..Len(l) |-> l[n].id]
  <2>1. DOMAIN l = 1..Len(l) /\ Len(l) \in Nat
    OBVIOUS
  <2>2. f \in Bijection(1..Len(l), OfHome(h))
    <3>1. f \in [1..Len(l) -> OfHome(h)]
      BY <1>2, <2>1
    <3>2. \A n, m \in 1..Len(l) : f[n] = f[m] => n = m
      BY <2>1 DEF Shows
    <3>3. \A i \in OfHome(h) : \E n \in 1..Len(l) : f[n] = i
      BY <1>3, <2>1
    <3> QED BY <3>1, <3>2, <3>3 DEF Bijection, Injection, Surjection, IsInjective
  <2> HIDE DEF f
  <2>3. IsFiniteSet(1..Len(l)) /\ Cardinality(1..Len(l)) = Len(l)
    BY <2>1, FS_Interval
  <2>4. ExistsBijection(1..Len(l), OfHome(h))
    BY <2>2 DEF ExistsBijection
  <2> QED BY <2>3, <2>4, FS_Bijection
<1> QED BY <1>4, <1>5

LEMMA StoreInvHolds == StoreInv => StoreHolds
<1> SUFFICES ASSUME StoreInv PROVE StoreHolds
  OBVIOUS
<1>1. StoreTypes /\ (orderly => OrderlyInv) /\ (kind # "room" => VanishInv)
  BY DEF StoreInv
<1>2. StoreMatchesServer
  <2> SUFFICES ASSUME orderly, UnderWay = {}, ~missedRows
               PROVE  /\ {lists[shown][n] : n \in DOMAIN lists[shown]} = {Entry(i, table[i]) : i \in OfHome(shown)}
                      /\ Len(lists[shown]) = Cardinality(OfHome(shown))
    BY DEF StoreMatchesServer
  <2>1. PICK l \in Seq(Entries) : l = lists[shown]
    BY <1>1 DEF StoreTypes
  <2>2. Shows(l, Server(shown))
    BY <1>1, <2>1 DEF OrderlyInv
  <2> QED BY <1>1, <2>1, <2>2, ShownExactly
<1>3. NothingVanishes
  <2>1. UnderWay = {} => \A s \in Slots : \A i : ~HoldsRow(storeCalls[s], i)
    BY DEF HoldsRow, UnderWay
  <2> QED BY <1>1, <2>1, HasAt DEF NothingVanishes, VanishInv
<1> QED BY <1>2, <1>3 DEF StoreHolds

(* A user who awaits every answer sees exactly the rows of the server, each   *)
(* once, unless an answer was lost since the last fetch; and however requests *)
(* overlap and fail, a house or a tenant that was listed is listed again once *)
(* all have ended, if the server still has it.                                *)
THEOREM StoresAreServer == Spec => []StoreHolds
<1>1. Init => StoreInv
  BY PartsInit, StoreInvInit
<1>2. StoreInv /\ [Next]_vars => StoreInv'
  BY PartsStep, StoreInvStep
<1>3. StoreInv => StoreHolds
  BY StoreInvHolds
<1> QED BY <1>1, <1>2, <1>3, PTL DEF Spec

-----------------------------------------------------------------------------
(* The operating costs.                                                       *)

StoreMaps == UNION {[S -> Records] : S \in SUBSET Houses}
SumMaps == UNION {[X -> Costs] : X \in SUBSET (Houses \X Months)}
CostCalls == [op : {"none", "costs", "sums", "create", "update"}, home : Houses, month : Months \cup {1},
              want : SUBSET Houses, edits : Edits, costs : Costs, typed : [Houses -> Edits],
              reply : StoreMaps \cup SumMaps, stage : {"sent", "served"}, mine : BOOLEAN]

EditorTypes ==
  /\ costRows \in [Houses \X Months -> Costs \cup {NoCost}]
  /\ pickedHouses \in SUBSET Houses /\ month \in Months /\ costs \in StoreMaps /\ sums \in SumMaps
  /\ edits \in [Houses -> Edits] /\ saving \in [Houses -> BOOLEAN]
  /\ pending \in Targets \cup {NoTarget} /\ costCalls \in [CostSlots -> CostCalls]

\* Of a month's costs every amount was typed into them, or was not typed.
Meant(c, m) == \A f \in Fields : c[f] \in {0, m}
MeantInv ==
  /\ \A h \in Houses, m \in Months : costRows[<<h, m>>] # NoCost => Meant(costRows[<<h, m>>], m)
  /\ \A h \in DOMAIN costs : costs[h] # NoCost => Meant(costs[h].costs, costs[h].month)
EditsInv ==
  \A h \in Houses : edits[h] # NoEdits =>
    /\ h \in DOMAIN costs /\ costs[h] # NoCost
    /\ \A f \in Fields : edits[h][f] \in {Untyped, 0, costs[h].month}
    /\ \A s \in InFlight : costCalls[s].op # "costs"

\* What is under way: the two fetches of the page on screen, one of them, or
\* one change of the one house there.
CostsFetchInv(s) ==
  LET c == costCalls[s] IN
  /\ c.want = pickedHouses /\ c.month = month
  /\ c.stage = "served" => c.reply = IF c.op = "costs" THEN RowsOf(pickedHouses, month) ELSE SumsOf(pickedHouses, month)
ChangeInv(s) ==
  LET c == costCalls[s] h == c.home IN
  /\ pickedHouses = {h} /\ h \in DOMAIN costs /\ c.month \in Months /\ Meant(c.costs, c.month)
  /\ c.op = "update" => /\ costs[h] # NoCost /\ c.month = costs[h].month /\ c.typed = edits
                        /\ c.costs = Merged(costs[h].costs, c.edits)
  /\ c.op = "create" => costs[h] = NoCost /\ c.month = month /\ c.costs = [f \in Fields |-> 0]
  /\ c.stage = "served" /\ "costs" \notin lostCosts =>
       /\ Kept(h, Record(c.month, c.costs)) = RowsOf(pickedHouses, month)
       /\ "sums" \in lostCosts \/ Counted(<<h, c.month>>, c.costs) = SumsOf(pickedHouses, month)
FlightInv ==
  /\ \A s, t \in InFlight : s # t => {costCalls[s].op, costCalls[t].op} = {"costs", "sums"}
  /\ \A s \in CostSlots : costCalls[s].mine
  /\ \A s \in InFlight : IF costCalls[s].op \in {"costs", "sums"} THEN CostsFetchInv(s) ELSE ChangeInv(s)

\* Unless a change has been made, or costs are still to come or were lost, the
\* store holds the server's rows; the sums too, unless they followed lost costs.
Coming(op) == \E s \in InFlight : costCalls[s].op = op
Changed == \E s \in InFlight : costCalls[s].op \notin {"costs", "sums"} /\ costCalls[s].stage = "served"
StoredInv ==
  ~Changed =>
    /\ "costs" \in lostCosts \/ Coming("costs") \/ costs = RowsOf(pickedHouses, month)
    /\ \/ "sums" \in lostCosts \/ Coming("sums") \/ sums = SumsOf(pickedHouses, month)
       \/ "costs" \in lostCosts /\ ~Coming("costs")

EditorInv == EditorTypes /\ MeantInv /\ EditsInv /\ FlightInv /\ StoredInv
CostInv == awaits => EditorInv
SafeInv == awaits => MeantInv /\ EditsInv /\ FlightInv /\ StoredInv

CostRecords == [month : Months, costs : Costs]

LEMMA CostConstants ==
  /\ FirstHouse \in Houses /\ MaxCostCalls \in Nat /\ CostSlots = 1..MaxCostCalls
  /\ Choices \subseteq SUBSET Houses /\ Months \subseteq Nat /\ NoCost \notin Costs
  /\ NoEdits \in Edits /\ [f \in Fields |-> 0] \in Costs /\ NoRows \in StoreMaps /\ NoRows \in SumMaps
<1>1. /\ FirstHouse \in Houses /\ MaxCostCalls \in Nat /\ CostSlots = 1..MaxCostCalls
      /\ Choices \subseteq SUBSET Houses /\ Months \subseteq Nat /\ NoCost \notin Costs
  BY CostAssumption, NoCostAssumption DEF CostSlots
<1>2. NoEdits \in Edits /\ [f \in Fields |-> 0] \in Costs
  BY DEF NoEdits, Edits, Costs
<1>3. NoRows \in [{} -> Records] /\ NoRows \in [{} -> Costs]
  BY DEF NoRows
<1>4. NoRows \in StoreMaps /\ NoRows \in SumMaps
  BY <1>3 DEF StoreMaps, SumMaps
<1> QED BY <1>1, <1>2, <1>4

\* What the server answers with.
LEMMA RowsOfType ==
  ASSUME costRows \in [Houses \X Months -> Costs \cup {NoCost}], NEW S \in SUBSET Houses, NEW m \in Months
  PROVE  /\ RowsOf(S, m) \in StoreMaps /\ DOMAIN RowsOf(S, m) = S
         /\ \A h \in S : RowsOf(S, m)[h] = IF costRows[<<h, m>>] = NoCost THEN NoCost
                                           ELSE Record(m, costRows[<<h, m>>])
<1>1. \A h \in S : costRows[<<h, m>>] \in Costs \cup {NoCost}
  OBVIOUS
<1>2. \A h \in S : (IF costRows[<<h, m>>] = NoCost THEN NoCost ELSE Record(m, costRows[<<h, m>>])) \in Records
  BY <1>1 DEF Records, Record
<1>3. RowsOf(S, m) \in [S -> Records]
  BY <1>2 DEF RowsOf
<1>4. RowsOf(S, m) \in StoreMaps
  BY <1>3 DEF StoreMaps
<1> QED BY <1>4 DEF RowsOf

LEMMA SumsOfType ==
  ASSUME costRows \in [Houses \X Months -> Costs \cup {NoCost}], NEW S \in SUBSET Houses, NEW m \in Months
  PROVE  SumsOf(S, m) \in SumMaps
<1> DEFINE X == {x \in S \X {m} : costRows[x] # NoCost}
<1>1. X \in SUBSET (Houses \X Months)
  OBVIOUS
<1>2. \A x \in X : costRows[x] \in Costs
  OBVIOUS
<1>3. SumsOf(S, m) = [x \in X |-> costRows[x]]
  BY DEF SumsOf
<1> HIDE DEF X
<1>4. SumsOf(S, m) \in [X -> Costs]
  BY <1>2, <1>3
<1> QED BY <1>1, <1>4 DEF SumMaps

LEMMA StoreMapIn ==
  ASSUME NEW c \in StoreMaps
  PROVE  /\ DOMAIN c \in SUBSET Houses /\ \A h \in DOMAIN c : c[h] \in Records
         /\ \A h \in DOMAIN c : c[h] # NoCost => c[h] \in CostRecords
BY DEF StoreMaps, Records, CostRecords

LEMMA SumMapIn ==
  ASSUME NEW c \in SumMaps
  PROVE  DOMAIN c \in SUBSET (Houses \X Months) /\ \A x \in DOMAIN c : c[x] \in Costs
BY DEF SumMaps

LEMMA KeptType ==
  ASSUME costs \in StoreMaps, NEW h \in Houses, NEW m \in Months, NEW c \in Costs
  PROVE  /\ Kept(h, Record(m, c)) \in StoreMaps
         /\ DOMAIN Kept(h, Record(m, c)) = DOMAIN costs \cup {h}
         /\ \A g \in DOMAIN costs \cup {h} : Kept(h, Record(m, c))[g] = IF g = h THEN Record(m, c) ELSE costs[g]
<1> DEFINE r == Record(m, c)
           D == DOMAIN costs \cup {h}
<1>1. r \in Records
  BY DEF Record, Records
<1>2. D \in SUBSET Houses /\ \A g \in D : g # h => costs[g] \in Records
  BY StoreMapIn
<1>3. Kept(h, r) = [g \in D |-> IF g = h THEN r ELSE costs[g]]
  BY DEF Kept
<1> HIDE DEF r, D
<1>4. Kept(h, r) \in [D -> Records]
  BY <1>1, <1>2, <1>3
<1>5. Kept(h, r) \in StoreMaps
  BY <1>2, <1>4 DEF StoreMaps
<1> QED BY <1>3, <1>5 DEF r, D

LEMMA CountedType ==
  ASSUME sums \in SumMaps, NEW x \in Houses \X Months, NEW c \in Costs
  PROVE  Counted(x, c) \in SumMaps
<1> DEFINE D == DOMAIN sums \cup {x}
<1>1. D \in SUBSET (Houses \X Months) /\ \A y \in D : y # x => sums[y] \in Costs
  BY SumMapIn
<1>2. Counted(x, c) = [y \in D |-> IF y = x THEN c ELSE sums[y]]
  BY DEF Counted
<1> HIDE DEF D
<1>3. Counted(x, c) \in [D -> Costs]
  BY <1>1, <1>2
<1> QED BY <1>1, <1>3 DEF SumMaps

LEMMA MergedType ==
  ASSUME NEW c \in Costs, NEW e \in Edits
  PROVE  /\ Merged(c, e) \in Costs
         /\ \A m : Meant(c, m) /\ (\A f \in Fields : e[f] \in {Untyped, 0, m}) => Meant(Merged(c, e), m)
<1>1. \A f \in Fields : c[f] \in Months \cup {0} /\ (e[f] # Untyped => e[f] \in Months \cup {0})
  BY DEF Costs, Edits
<1>2. Merged(c, e) \in Costs
  BY <1>1 DEF Merged, Costs
<1> QED BY <1>2 DEF Merged, Meant

\* With the same rows on the server, it answers the same.
LEMMA SameRows ==
  ASSUME costRows' = costRows
  PROVE  /\ \A S, m : RowsOf(S, m)' = RowsOf(S, m)
         /\ \A S, m : SumsOf(S, m)' = SumsOf(S, m)
BY DEF RowsOf, SumsOf

-----------------------------------------------------------------------------
\* How the requests under way change.
NewCall(s, c) ==
  /\ costCalls' \in [CostSlots -> CostCalls]
  /\ InFlight' = {s} /\ s \in CostSlots /\ costCalls'[s] = c /\ \A t \in CostSlots : costCalls'[t].mine

LEMMA OneCall ==
  ASSUME EditorTypes, FlightInv, InFlight = {}, CanSend(1), NEW c \in CostCalls, c.op # "none", c.mine,
         costCalls' = [costCalls EXCEPT ![FreeSlot({})] = c]
  PROVE  \E s \in CostSlots : NewCall(s, c)
<1>1. CostSlots # {}
  <2> SUFFICES ASSUME CostSlots = {} PROVE FALSE
    OBVIOUS
  <2>1. CostSlots \ InFlight = {}
    OBVIOUS
  <2> QED BY <2>1, FS_EmptySet DEF CanSend
<1>2. PICK s \in CostSlots : s = FreeSlot({})
  BY <1>1 DEF FreeSlot
<1>3. costCalls \in [CostSlots -> CostCalls] /\ costCalls' = [costCalls EXCEPT ![s] = c]
  BY <1>2 DEF EditorTypes
<1>4. costCalls' \in [CostSlots -> CostCalls] /\ costCalls'[s] = c /\ \A t \in CostSlots : t # s => costCalls'[t] = costCalls[t]
  BY <1>2, <1>3
<1>5. \A t \in CostSlots : costCalls[t].op = "none" /\ costCalls[t].mine
  BY DEF InFlight, FlightInv
<1>6. InFlight' = {s}
  BY <1>2, <1>4, <1>5 DEF InFlight
<1> QED BY <1>2, <1>4, <1>5, <1>6 DEF NewCall

FetchCall(op, S, m) == [NoCostCall EXCEPT !.op = op, !.want = S, !.month = m]

LEMMA FetchCallType ==
  ASSUME NEW op \in {"costs", "sums"}, NEW S \in SUBSET Houses, NEW m \in Months
  PROVE  LET c == FetchCall(op, S, m) IN
           c \in CostCalls /\ c.op = op /\ c.want = S /\ c.month = m /\ c.stage = "sent" /\ c.mine = TRUE
<1>1. [h \in Houses |-> NoEdits] \in [Houses -> Edits]
  BY CostConstants
<1> QED BY <1>1, CostConstants DEF FetchCall, NoCostCall, CostCalls

Fetches(S, m) ==
  /\ costCalls' \in [CostSlots -> CostCalls] /\ \A t \in CostSlots : costCalls'[t].mine
  /\ \E s, t \in CostSlots :
       /\ s # t /\ InFlight' = {s, t}
       /\ costCalls'[s].op = "costs" /\ costCalls'[t].op = "sums"
       /\ \A r \in {s, t} : costCalls'[r].want = S /\ costCalls'[r].month = m /\ costCalls'[r].stage = "sent"

LEMMA TwoCalls ==
  ASSUME NEW before \in [CostSlots -> CostCalls], \A s \in CostSlots : before[s].op = "none" /\ before[s].mine,
         InFlight = {}, NEW S \in SUBSET Houses, NEW m \in Months, SendFetches(S, m, before)
  PROVE  Fetches(S, m)
<1>1. 1 \in CostSlots /\ 2 \in CostSlots
  <2>1. Cardinality(1..MaxCostCalls) = MaxCostCalls
    <3>1. MaxCostCalls = 0 \/ MaxCostCalls >= 1
      BY CostConstants
    <3> QED BY <3>1, CostConstants, FS_Interval
  <2>2. CostSlots \ InFlight = 1..MaxCostCalls
    BY CostConstants
  <2>3. MaxCostCalls >= 2
    BY <2>1, <2>2 DEF SendFetches, CanSend
  <2> QED BY <2>3, CostConstants
<1>2. PICK s \in CostSlots : s = FreeSlot({})
  BY <1>1 DEF FreeSlot
<1>3. PICK t \in CostSlots : t = FreeSlot({s}) /\ t # s
  <2>1. \E t \in CostSlots : t \notin {s}
    BY <1>1
  <2> QED BY <2>1 DEF FreeSlot
<1> DEFINE c == FetchCall("costs", S, m)
           d == FetchCall("sums", S, m)
<1>4. costCalls' = [before EXCEPT ![s] = c, ![t] = d]
  BY <1>2, <1>3 DEF SendFetches, FetchCall
<1>9. "costs" \in {"costs", "sums"} /\ "sums" \in {"costs", "sums"}
  OBVIOUS
<1>5a. c \in CostCalls /\ c.op = "costs" /\ c.want = S /\ c.month = m /\ c.stage = "sent" /\ c.mine = TRUE
  BY <1>9, FetchCallType, Zenon
<1>5b. d \in CostCalls /\ d.op = "sums" /\ d.want = S /\ d.month = m /\ d.stage = "sent" /\ d.mine = TRUE
  BY <1>9, FetchCallType, Zenon
<1> HIDE DEF c, d
<1>5. /\ c \in CostCalls /\ c.op = "costs" /\ c.want = S /\ c.month = m /\ c.stage = "sent" /\ c.mine = TRUE
      /\ d \in CostCalls /\ d.op = "sums" /\ d.want = S /\ d.month = m /\ d.stage = "sent" /\ d.mine = TRUE
  BY <1>5a, <1>5b
<1>6. /\ costCalls' \in [CostSlots -> CostCalls] /\ costCalls'[s] = c /\ costCalls'[t] = d
      /\ \A r \in CostSlots : r # s /\ r # t => costCalls'[r] = before[r]
  BY <1>3, <1>4, <1>5
<1>7. InFlight' = {s, t}
  BY <1>2, <1>3, <1>5, <1>6 DEF InFlight
<1>8. \A r \in CostSlots : costCalls'[r].mine
  BY <1>5, <1>6
<1> QED BY <1>2, <1>3, <1>5, <1>6, <1>7, <1>8 DEF Fetches

\* An answered request leaves its slot.
LEMMA Finishing ==
  ASSUME EditorTypes, FlightInv, NEW s \in InFlight, Finish(s)
  PROVE  /\ costCalls' \in [CostSlots -> CostCalls] /\ InFlight' = InFlight \ {s} /\ s \in CostSlots
         /\ \A t \in CostSlots : costCalls'[t].mine
         /\ \A t \in InFlight : t # s => costCalls'[t] = costCalls[t]
         /\ costCalls[s] \in CostCalls /\ costCalls[s].op # "none"
<1>1. NoCostCall \in CostCalls /\ NoCostCall.op = "none" /\ NoCostCall.mine = TRUE
  <2>1. [h \in Houses |-> NoEdits] \in [Houses -> Edits]
    BY CostConstants
  <2> QED BY <2>1, CostConstants DEF NoCostCall, CostCalls
<1>2. s \in CostSlots /\ costCalls \in [CostSlots -> CostCalls] /\ costCalls' = [costCalls EXCEPT ![s] = NoCostCall]
  BY DEF InFlight, EditorTypes, Finish
<1>3. /\ costCalls' \in [CostSlots -> CostCalls] /\ costCalls'[s] = NoCostCall
      /\ \A t \in CostSlots : t # s => costCalls'[t] = costCalls[t]
  BY <1>1, <1>2
<1>4. \A t \in CostSlots : costCalls'[t].mine
  BY <1>1, <1>3 DEF FlightInv
<1>5. InFlight' = InFlight \ {s}
  BY <1>1, <1>2, <1>3 DEF InFlight
<1>6. costCalls[s] \in CostCalls /\ costCalls[s].op # "none"
  BY <1>2 DEF InFlight
<1>7. \A t \in InFlight : t # s => costCalls'[t] = costCalls[t]
  BY <1>3 DEF InFlight
<1> QED BY <1>2, <1>3, <1>4, <1>5, <1>6, <1>7

-----------------------------------------------------------------------------
\* The steps of the user.
LEMMA FetchesKeep ==
  ASSUME EditorInv, NEW S \in SUBSET Houses, NEW m \in Months, Fetches(S, m),
         pickedHouses' = S, month' = m, costRows' = costRows,
         costs' = costs \/ costs' = NoRows, sums' = sums \/ sums' = NoRows,
         edits' \in [Houses -> Edits], \A h \in Houses : edits'[h] = NoEdits,
         saving' \in [Houses -> BOOLEAN], pending' \in Targets \cup {NoTarget}
  PROVE  EditorInv'
<1>1. PICK s \in CostSlots, t \in CostSlots :
        /\ s # t /\ InFlight' = {s, t}
        /\ costCalls'[s].op = "costs" /\ costCalls'[t].op = "sums"
        /\ \A r \in {s, t} : costCalls'[r].want = S /\ costCalls'[r].month = m /\ costCalls'[r].stage = "sent"
  BY DEF Fetches
<1>2. EditorTypes'
  BY CostConstants DEF EditorInv, EditorTypes, Fetches
<1>3. MeantInv'
  <2>1. DOMAIN NoRows = {}
    BY DEF NoRows
  <2> QED BY <2>1 DEF EditorInv, MeantInv, Meant
<1>4. EditsInv'
  BY DEF EditsInv
<1>5. FlightInv'
  <2>1. \A r, q \in InFlight' : r # q => {costCalls'[r].op, costCalls'[q].op} = {"costs", "sums"}
    BY <1>1
  <2>2. \A r \in CostSlots : costCalls'[r].mine
    BY DEF Fetches
  <2>3. \A r \in InFlight' : costCalls'[r].op \in {"costs", "sums"} /\ CostsFetchInv(r)'
    BY <1>1 DEF CostsFetchInv
  <2> QED BY <2>1, <2>2, <2>3 DEF FlightInv
<1>6. StoredInv'
  BY <1>1 DEF StoredInv, Coming
<1> QED BY <1>2, <1>3, <1>4, <1>5, <1>6 DEF EditorInv

LEMMA GoingSends ==
  ASSUME EditorInv, InFlight = {}, NEW t \in Targets, GoTo(t)
  PROVE  \E S \in SUBSET Houses, m \in Months :
           /\ Fetches(S, m) /\ pickedHouses' = S /\ month' = m
           /\ costs' = costs \/ costs' = NoRows
           /\ sums' = sums \/ sums' = NoRows
           /\ saving' \in [Houses -> BOOLEAN]
           /\ t = TabTarget => edits' = [h \in Houses |-> NoEdits] /\ pending' = NoTarget
<1>1. costCalls \in [CostSlots -> CostCalls] /\ \A s \in CostSlots : costCalls[s].op = "none" /\ costCalls[s].mine
  BY DEF EditorInv, EditorTypes, FlightInv, InFlight
<1>2. pickedHouses \in SUBSET Houses /\ month \in Months /\ saving \in [Houses -> BOOLEAN]
  BY DEF EditorInv, EditorTypes
<1>3. CASE t = TabTarget
  <2> DEFINE before == [s \in CostSlots |-> [costCalls[s] EXCEPT !.mine = (costCalls[s].op = "none")]]
  <2>1. /\ edits' = [h \in Houses |-> NoEdits] /\ saving' = [h \in Houses |-> FALSE] /\ pending' = NoTarget
        /\ SendFetches(pickedHouses, month, before) /\ UNCHANGED <<pickedHouses, month, costs, sums>>
    BY <1>3 DEF GoTo, TabTarget
  <2>2. before \in [CostSlots -> CostCalls] /\ \A s \in CostSlots : before[s].op = "none" /\ before[s].mine
    <3> SUFFICES ASSUME NEW s \in CostSlots
                 PROVE  LET c == [costCalls[s] EXCEPT !.mine = (costCalls[s].op = "none")] IN
                        c \in CostCalls /\ c.op = "none" /\ c.mine
      OBVIOUS
    <3>1. costCalls[s] \in CostCalls /\ costCalls[s].op = "none"
      BY <1>1
    <3> QED BY <3>1 DEF CostCalls
  <2> HIDE DEF before
  <2>3. Fetches(pickedHouses, month)
    BY <1>2, <2>1, <2>2, TwoCalls
  <2> QED BY <1>2, <2>1, <2>3
<1>4. CASE t \in HouseTargets
  <2>1. PICK P \in Choices : t = [to |-> "houses", pickedHouses |-> P]
    BY <1>4 DEF HouseTargets
  <2>2. PICK S \in SUBSET Houses : S = IF t.pickedHouses = {} THEN {FirstHouse} ELSE t.pickedHouses
    BY <2>1, CostConstants
  <2>3. /\ pickedHouses' = S /\ SendFetches(S, month, costCalls) /\ UNCHANGED <<month, saving>>
        /\ costs' = costs \/ costs' = NoRows
        /\ sums' = sums \/ sums' = NoRows
    BY <2>1, <2>2 DEF GoTo
  <2>4. Fetches(S, month)
    BY <1>1, <1>2, <2>3, TwoCalls
  <2>5. t # TabTarget
    BY <2>1 DEF TabTarget
  <2> QED BY <1>2, <2>3, <2>4, <2>5
<1>5. CASE t \in MonthTargets
  <2>1. PICK m \in Months : t = [to |-> "month", month |-> m]
    BY <1>5 DEF MonthTargets
  <2>2. month' = m /\ SendFetches(pickedHouses, m, costCalls) /\ UNCHANGED <<pickedHouses, saving, costs, sums>>
    BY <2>1 DEF GoTo
  <2>3. Fetches(pickedHouses, m)
    BY <1>1, <1>2, <2>2, TwoCalls
  <2>4. t # TabTarget
    BY <2>1 DEF TabTarget
  <2> QED BY <1>2, <2>2, <2>3, <2>4
<1> QED BY <1>3, <1>4, <1>5 DEF Targets

LEMMA AskingKeeps ==
  ASSUME EditorInv, UNCHANGED <<costRows, pickedHouses, month, costs, sums, edits, costCalls, lostCosts>>,
         saving' \in [Houses -> BOOLEAN], pending' \in Targets \cup {NoTarget}
  PROVE  EditorInv'
<1>1. EditorTypes'
  BY DEF EditorInv, EditorTypes
<1>2. MeantInv'
  BY DEF EditorInv, MeantInv, Meant
<1>3. InFlight' = InFlight /\ Changed' = Changed /\ \A op : Coming(op)' = Coming(op)
  BY DEF InFlight, Changed, Coming
<1>4. EditsInv'
  BY <1>3 DEF EditorInv, EditsInv
<1>5. /\ \A S, m : RowsOf(S, m)' = RowsOf(S, m)
      /\ \A S, m : SumsOf(S, m)' = SumsOf(S, m)
  BY SameRows
<1>6. FlightInv'
  <2>1. \A s : CostsFetchInv(s)' = CostsFetchInv(s)
    BY <1>5 DEF CostsFetchInv
  <2>2. \A h, r : Kept(h, r)' = Kept(h, r)
    BY DEF Kept
  <2>3. \A x, c : Counted(x, c)' = Counted(x, c)
    BY DEF Counted
  <2>4. \A s : ChangeInv(s)' = ChangeInv(s)
    BY <1>5, <2>2, <2>3 DEF ChangeInv, Meant, Merged
  <2> QED BY <1>3, <2>1, <2>4 DEF EditorInv, FlightInv
<1>7. StoredInv'
  BY <1>3, <1>5 DEF EditorInv, StoredInv
<1> QED BY <1>1, <1>2, <1>4, <1>6, <1>7 DEF EditorInv

LEMMA ChangeStep ==
  ASSUME EditorInv, awaits, NEW t \in Targets, Change(t)
  PROVE  EditorInv'
<1>1. InFlight = {} /\ costRows' = costRows
  BY DEF Change, AtPage
<1>2. CASE Dirty
  <2>1. /\ UNCHANGED <<costRows, pickedHouses, month, costs, sums, edits, costCalls, lostCosts, saving>>
        /\ pending' = t
    BY <1>2 DEF Change
  <2>2. saving' \in [Houses -> BOOLEAN]
    BY <2>1 DEF EditorInv, EditorTypes
  <2> QED BY <2>1, <2>2, AskingKeeps
<1>3. CASE ~Dirty
  <2>1. GoTo(t) /\ (t # TabTarget => UNCHANGED <<edits, pending>>)
    BY <1>3 DEF Change
  <2>2. PICK S \in SUBSET Houses, m \in Months :
           /\ Fetches(S, m) /\ pickedHouses' = S /\ month' = m
           /\ costs' = costs \/ costs' = NoRows
           /\ sums' = sums \/ sums' = NoRows
           /\ saving' \in [Houses -> BOOLEAN]
           /\ t = TabTarget => edits' = [h \in Houses |-> NoEdits] /\ pending' = NoTarget
    BY <1>1, <2>1, GoingSends
  <2>3. /\ edits' \in [Houses -> Edits] /\ pending' \in Targets \cup {NoTarget}
        /\ \A h \in Houses : edits'[h] = NoEdits
    BY <1>3, <2>1, <2>2, CostConstants DEF EditorInv, EditorTypes, Dirty
  <2> QED BY <1>1, <2>2, <2>3, FetchesKeep
<1> QED BY <1>2, <1>3

LEMMA DiscardStep ==
  ASSUME EditorInv, InFlight = {}, NEW asks, Discard(asks)
  PROVE  EditorInv'
<1>1. /\ costRows' = costRows /\ lostCosts' = lostCosts
      /\ edits' = [h \in Houses |-> NoEdits] /\ edits' \in [Houses -> Edits]
      /\ \A h \in Houses : edits'[h] = NoEdits
  BY CostConstants DEF Discard
<1>2. CASE pending = NoTarget
  <2>1. UNCHANGED <<pickedHouses, month, costs, sums, costCalls, saving, pending>>
    BY <1>2 DEF Discard
  <2>2. EditorTypes'
    BY <1>1, <2>1 DEF EditorInv, EditorTypes
  <2>3. MeantInv'
    BY <1>1, <2>1 DEF EditorInv, MeantInv, Meant
  <2>4. EditsInv'
    BY <1>1 DEF EditsInv
  <2>5. InFlight' = {} /\ \A s \in CostSlots : costCalls'[s].mine
    BY <2>1 DEF InFlight, EditorInv, FlightInv
  <2>6. FlightInv'
    BY <2>5 DEF FlightInv
  <2>7. /\ \A S, m : RowsOf(S, m)' = RowsOf(S, m)
        /\ \A S, m : SumsOf(S, m)' = SumsOf(S, m)
    BY <1>1, SameRows
  <2>8. StoredInv'
    BY <1>1, <2>1, <2>5, <2>7 DEF EditorInv, StoredInv, Coming, Changed
  <2> QED BY <2>2, <2>3, <2>4, <2>6, <2>8 DEF EditorInv
<1>3. CASE pending # NoTarget
  <2>1. pending \in Targets /\ GoTo(pending) /\ pending' = NoTarget
    BY <1>3 DEF Discard, EditorInv, EditorTypes
  <2>2. PICK t \in Targets : t = pending
    BY <2>1
  <2>3. PICK S \in SUBSET Houses, m \in Months :
           /\ Fetches(S, m) /\ pickedHouses' = S /\ month' = m
           /\ costs' = costs \/ costs' = NoRows
           /\ sums' = sums \/ sums' = NoRows
           /\ saving' \in [Houses -> BOOLEAN]
    BY <2>1, <2>2, GoingSends
  <2> QED BY <1>1, <2>1, <2>3, FetchesKeep
<1> QED BY <1>2, <1>3

LEMMA TypeCostStep ==
  ASSUME EditorInv, awaits, NEW h \in Houses, NEW f \in Fields, TypeCost(h, f)
  PROVE  EditorInv'
<1>1. /\ InFlight = {} /\ h \in DOMAIN costs /\ costs[h] # NoCost
      /\ UNCHANGED <<costRows, pickedHouses, month, costs, sums, costCalls, saving, pending, lostCosts>>
  BY DEF TypeCost, AtPage, Shown, Table
<1>2. PICK m \in Months : m = costs[h].month
  <2>1. costs \in StoreMaps
    BY DEF EditorInv, EditorTypes
  <2> QED BY <1>1, <2>1, StoreMapIn DEF CostRecords
<1>3. PICK e \in Edits : e = [edits[h] EXCEPT ![f] = m]
  BY DEF EditorInv, EditorTypes, Edits
<1>4. edits' = [edits EXCEPT ![h] = e]
  BY <1>2, <1>3 DEF TypeCost, EditorInv, EditorTypes
<1>5. edits \in [Houses -> Edits] /\ edits' \in [Houses -> Edits] /\ edits'[h] = e /\ \A g \in Houses : g # h => edits'[g] = edits[g]
  BY <1>4 DEF EditorInv, EditorTypes
<1>6. EditorTypes'
  BY <1>1, <1>5 DEF EditorInv, EditorTypes
<1>7. MeantInv'
  BY <1>1 DEF EditorInv, MeantInv, Meant
<1>8. \A g \in Fields : e[g] \in {Untyped, 0, m}
  <2>1. \A g \in Fields : edits[h][g] \in {Untyped, 0, m}
    BY <1>2 DEF EditorInv, EditsInv, NoEdits
  <2> QED BY <1>3, <1>5, <2>1 DEF Edits
<1>9. InFlight' = {} /\ \A s \in CostSlots : costCalls'[s].mine
  BY <1>1 DEF InFlight, EditorInv, FlightInv
<1>10. EditsInv'
  BY <1>1, <1>2, <1>5, <1>8, <1>9 DEF EditorInv, EditsInv
<1>11. FlightInv'
  BY <1>9 DEF FlightInv
<1>12. /\ \A S, n : RowsOf(S, n)' = RowsOf(S, n)
       /\ \A S, n : SumsOf(S, n)' = SumsOf(S, n)
  BY <1>1, SameRows
<1>13. StoredInv'
  BY <1>1, <1>9, <1>12 DEF EditorInv, StoredInv, Coming, Changed
<1> QED BY <1>6, <1>7, <1>10, <1>11, <1>13 DEF EditorInv

\* A change of one house's costs is sent when nothing else is under way.
LEMMA SendingKeeps ==
  ASSUME EditorInv, InFlight = {}, NEW s \in CostSlots, NEW c \in CostCalls, NewCall(s, c),
         c.op \in {"create", "update"}, c.stage = "sent",
         UNCHANGED <<costRows, pickedHouses, month, costs, sums, edits, pending, lostCosts>>,
         saving' \in [Houses -> BOOLEAN],
         pickedHouses = {c.home}, c.home \in DOMAIN costs, c.month \in Months, Meant(c.costs, c.month),
         c.op = "update" => /\ costs[c.home] # NoCost /\ c.month = costs[c.home].month /\ c.typed = edits
                            /\ c.costs = Merged(costs[c.home].costs, c.edits),
         c.op = "create" => costs[c.home] = NoCost /\ c.month = month /\ c.costs = [f \in Fields |-> 0]
  PROVE  EditorInv'
<1>1. costCalls' \in [CostSlots -> CostCalls] /\ InFlight' = {s} /\ costCalls'[s] = c
      /\ \A t \in CostSlots : costCalls'[t].mine
  BY DEF NewCall
<1>2. EditorTypes'
  BY <1>1 DEF EditorInv, EditorTypes
<1>3. MeantInv'
  BY DEF EditorInv, MeantInv, Meant
<1>4. EditsInv'
  BY <1>1 DEF EditorInv, EditsInv
<1>5. FlightInv'
  <2>1. ChangeInv(s)'
    BY <1>1 DEF ChangeInv, Meant, Merged
  <2> QED BY <1>1, <2>1 DEF FlightInv
<1>6. /\ \A S, m : RowsOf(S, m)' = RowsOf(S, m)
      /\ \A S, m : SumsOf(S, m)' = SumsOf(S, m)
  BY SameRows
<1>7. StoredInv'
  <2>1. ~Changed /\ ~Coming("costs") /\ ~Coming("sums") /\ ~Coming("costs")'
    BY <1>1 DEF Changed, Coming
  <2> QED BY <1>6, <2>1 DEF EditorInv, StoredInv
<1> QED BY <1>2, <1>3, <1>4, <1>5, <1>7 DEF EditorInv

LEMMA SendStep ==
  ASSUME EditorInv, awaits, NEW h \in Houses, NEW e \in Edits, Send(h, e),
         \A f \in Fields : e[f] \in {Untyped, 0, costs[h].month}
  PROVE  EditorInv'
<1>1. /\ InFlight = {} /\ h \in DOMAIN costs /\ costs[h] # NoCost /\ pickedHouses = {h} /\ CanSend(1)
      /\ UNCHANGED <<costRows, pickedHouses, month, costs, sums, edits, pending, lostCosts>>
      /\ saving' = [saving EXCEPT ![h] = TRUE]
  BY DEF Send, AtPage, Shown, Table
<1>2. costs[h] \in CostRecords /\ edits \in [Houses -> Edits] /\ saving' \in [Houses -> BOOLEAN]
  <2>1. costs \in StoreMaps
    BY DEF EditorInv, EditorTypes
  <2> QED BY <1>1, <2>1, StoreMapIn DEF EditorInv, EditorTypes
<1>3. PICK m \in Months, k \in Costs : m = costs[h].month /\ k = costs[h].costs
  BY <1>2 DEF CostRecords
<1>4. PICK n \in Costs : n = Merged(k, e) /\ Meant(n, m)
  <2>1. Meant(k, m)
    BY <1>1, <1>3 DEF EditorInv, MeantInv
  <2> QED BY <1>3, <2>1, MergedType
<1> DEFINE c == [NoCostCall EXCEPT !.op = "update", !.home = h, !.month = m, !.edits = e, !.costs = n, !.typed = edits]
<1>5. costCalls' = [costCalls EXCEPT ![FreeSlot({})] = c]
  BY <1>3, <1>4 DEF Send
<1>6. /\ c \in CostCalls /\ c.op = "update" /\ c.home = h /\ c.month = m /\ c.edits = e /\ c.costs = n
      /\ c.typed = edits /\ c.stage = "sent" /\ c.mine = TRUE
  <2>1. [g \in Houses |-> NoEdits] \in [Houses -> Edits]
    BY CostConstants
  <2> QED BY <1>2, <1>3, <1>4, <2>1, CostConstants DEF NoCostCall, CostCalls
<1> HIDE DEF c
<1>7. PICK s \in CostSlots : NewCall(s, c)
  BY <1>1, <1>5, <1>6, OneCall DEF EditorInv
<1>8. c.op \in {"create", "update"} /\ pickedHouses = {c.home} /\ c.home \in DOMAIN costs /\ c.month \in Months
      /\ Meant(c.costs, c.month)
  BY <1>1, <1>3, <1>4, <1>6
<1>9. /\ costs[c.home] # NoCost /\ c.month = costs[c.home].month /\ c.typed = edits
      /\ c.costs = Merged(costs[c.home].costs, c.edits)
  BY <1>1, <1>3, <1>4, <1>6
<1> QED BY ONLY EditorInv, <1>1, <1>2, <1>6, <1>7, <1>8, <1>9, SendingKeeps

LEMMA CreateMonthStep ==
  ASSUME EditorInv, awaits, NEW h \in Houses, CreateMonthCost(h)
  PROVE  EditorInv'
<1>1. /\ InFlight = {} /\ h \in DOMAIN costs /\ costs[h] = NoCost /\ pickedHouses = {h} /\ CanSend(1)
      /\ UNCHANGED <<costRows, pickedHouses, month, costs, sums, edits, saving, pending, lostCosts>>
  BY DEF CreateMonthCost, AtPage, Table, editVars
<1>2. month \in Months /\ saving' \in [Houses -> BOOLEAN]
  BY <1>1 DEF EditorInv, EditorTypes
<1> DEFINE c == [NoCostCall EXCEPT !.op = "create", !.home = h, !.month = month]
<1>3. costCalls' = [costCalls EXCEPT ![FreeSlot({})] = c]
  BY DEF CreateMonthCost
<1>4. /\ c \in CostCalls /\ c.op = "create" /\ c.home = h /\ c.month = month /\ c.costs = [f \in Fields |-> 0]
      /\ c.stage = "sent" /\ c.mine = TRUE
  <2>1. [g \in Houses |-> NoEdits] \in [Houses -> Edits]
    BY CostConstants
  <2> QED BY <1>2, <2>1, CostConstants DEF NoCostCall, CostCalls
<1>5. PICK k : k = c
  OBVIOUS
<1> HIDE DEF c
<1>6. PICK s \in CostSlots : NewCall(s, k)
  BY <1>1, <1>3, <1>4, <1>5, OneCall DEF EditorInv
<1>7. k \in CostCalls /\ k.op \in {"create", "update"} /\ pickedHouses = {k.home} /\ k.home \in DOMAIN costs
      /\ k.month \in Months /\ Meant(k.costs, k.month) /\ k.stage = "sent" /\ k.op = "create"
  BY <1>1, <1>2, <1>4, <1>5 DEF Meant
<1>8. costs[k.home] = NoCost /\ k.month = month /\ k.costs = [f \in Fields |-> 0]
  BY <1>1, <1>4, <1>5
<1> QED BY ONLY EditorInv, <1>1, <1>2, <1>6, <1>7, <1>8, SendingKeeps

-----------------------------------------------------------------------------
\* The steps of the server and of the answers.
LEMMA ChangeAlone ==
  ASSUME EditorInv, NEW s \in InFlight, costCalls[s].op \notin {"costs", "sums"}
  PROVE  InFlight = {s} /\ ChangeInv(s) /\ ~Coming("costs") /\ ~Coming("sums")
<1>1. InFlight = {s}
  <2> SUFFICES ASSUME NEW t \in InFlight, t # s PROVE FALSE
    OBVIOUS
  <2>1. {costCalls[s].op, costCalls[t].op} = {"costs", "sums"}
    BY DEF EditorInv, FlightInv
  <2> QED BY <2>1
<1>2. ChangeInv(s)
  BY DEF EditorInv, FlightInv
<1> QED BY <1>1, <1>2 DEF Coming

LEMMA ServeFetch ==
  ASSUME EditorInv, NEW s \in InFlight, ServeCosts(s), costCalls[s].op \in {"costs", "sums"}
  PROVE  EditorInv'
<1>1. /\ s \in CostSlots /\ costCalls[s].stage = "sent" /\ CostsFetchInv(s) /\ costRows' = costRows
      /\ UNCHANGED <<pickedHouses, month, costs, sums, edits, saving, pending, lostCosts>>
  BY DEF ServeCosts, InFlight, EditorInv, FlightInv, editVars
<1>2. /\ \A S, m : RowsOf(S, m)' = RowsOf(S, m)
      /\ \A S, m : SumsOf(S, m)' = SumsOf(S, m)
  BY <1>1, SameRows
<1>3. PICK r \in StoreMaps \cup SumMaps :
        r = IF costCalls[s].op = "costs" THEN RowsOf(pickedHouses, month) ELSE SumsOf(pickedHouses, month)
  <2>1. RowsOf(pickedHouses, month) \in StoreMaps
    BY RowsOfType DEF EditorInv, EditorTypes
  <2>2. SumsOf(pickedHouses, month) \in SumMaps
    BY SumsOfType DEF EditorInv, EditorTypes
  <2> QED BY <2>1, <2>2
<1>4. costCalls' = [costCalls EXCEPT ![s].stage = "served", ![s].reply = r]
  BY <1>1, <1>3 DEF ServeCosts, CostsFetchInv
<1>5. PICK c \in CostCalls : c = costCalls[s]
  BY <1>1 DEF EditorInv, EditorTypes
<1> DEFINE d == [c EXCEPT !.stage = "served", !.reply = r]
<1>6. /\ d \in CostCalls /\ d.op = c.op /\ d.want = c.want /\ d.month = c.month /\ d.mine = c.mine
      /\ d.stage = "served" /\ d.reply = r
  BY DEF CostCalls
<1>7. costCalls' = [costCalls EXCEPT ![s] = d]
  BY <1>1, <1>4, <1>5 DEF EditorInv, EditorTypes
<1> HIDE DEF d
<1>8. /\ costCalls' \in [CostSlots -> CostCalls] /\ costCalls'[s] = d
      /\ \A t \in CostSlots : t # s => costCalls'[t] = costCalls[t]
  BY <1>1, <1>6, <1>7 DEF EditorInv, EditorTypes
<1>9. \A t \in CostSlots : costCalls'[t].op = costCalls[t].op /\ costCalls'[t].mine = costCalls[t].mine
  BY <1>5, <1>6, <1>8
<1>10. InFlight' = InFlight /\ \A op : Coming(op)' = Coming(op)
  BY <1>9 DEF InFlight, Coming
<1>11. ~Changed
  <2> SUFFICES ASSUME NEW t \in InFlight, costCalls[t].op \notin {"costs", "sums"} PROVE FALSE
    BY DEF Changed
  <2>1. InFlight = {t}
    BY ChangeAlone
  <2> QED BY <2>1
<1>12. EditorTypes'
  BY <1>1, <1>8 DEF EditorInv, EditorTypes
<1>13. MeantInv'
  BY <1>1 DEF EditorInv, MeantInv, Meant
<1>14. EditsInv'
  BY <1>1, <1>9, <1>10 DEF EditorInv, EditsInv, InFlight
<1>15. FlightInv'
  <2>1. \A p, q \in InFlight' : p # q => {costCalls'[p].op, costCalls'[q].op} = {"costs", "sums"}
    BY <1>9, <1>10 DEF EditorInv, FlightInv, InFlight
  <2>2. \A p \in CostSlots : costCalls'[p].mine
    BY <1>9 DEF EditorInv, FlightInv
  <2>3. CostsFetchInv(s)'
    BY <1>1, <1>2, <1>3, <1>5, <1>6, <1>8 DEF CostsFetchInv
  <2>4. \A t \in InFlight : t # s => costCalls[t].op \in {"costs", "sums"} /\ CostsFetchInv(t)'
    <3> SUFFICES ASSUME NEW t \in InFlight, t # s
                 PROVE  costCalls[t].op \in {"costs", "sums"} /\ CostsFetchInv(t)'
      OBVIOUS
    <3>1. costCalls[t].op \in {"costs", "sums"}
      BY DEF EditorInv, FlightInv
    <3>2. CostsFetchInv(t) /\ costCalls'[t] = costCalls[t]
      BY <1>8, <3>1 DEF EditorInv, FlightInv, InFlight
    <3> QED BY <1>1, <1>2, <3>1, <3>2 DEF CostsFetchInv
  <2> QED BY <1>9, <1>10, <2>1, <2>2, <2>3, <2>4 DEF FlightInv, InFlight
<1>16. StoredInv'
  BY <1>1, <1>2, <1>10, <1>11 DEF EditorInv, StoredInv
<1> QED BY <1>12, <1>13, <1>14, <1>15, <1>16 DEF EditorInv

\* What the server holds after a change of one house's costs.
LEMMA ServedRows ==
  ASSUME costRows \in [Houses \X Months -> Costs \cup {NoCost}], NEW h \in Houses, NEW m \in Months, NEW n \in Costs,
         costRows' = [costRows EXCEPT ![<<h, m>>] = n], costs \in StoreMaps, sums \in SumMaps,
         pickedHouses = {h}, month = m, UNCHANGED <<pickedHouses, month, costs, sums>>
  PROVE  /\ costs = RowsOf({h}, m) => Kept(h, Record(m, n)) = RowsOf(pickedHouses, month)'
         /\ sums = SumsOf({h}, m) => Counted(<<h, m>>, n) = SumsOf(pickedHouses, month)'
<1>1. costRows'[<<h, m>>] = n /\ n # NoCost
  BY CostConstants
<1>2. RowsOf(pickedHouses, month)' = [g \in {h} |-> IF costRows'[<<g, m>>] = NoCost THEN NoCost
                                                     ELSE Record(m, costRows'[<<g, m>>])]
  BY DEF RowsOf, Record
<1>3. RowsOf(pickedHouses, month)' = [g \in {h} |-> Record(m, n)]
  BY <1>1, <1>2
<1>4. ASSUME costs = RowsOf({h}, m)
      PROVE  Kept(h, Record(m, n)) = [g \in {h} |-> Record(m, n)]
  <2>1. DOMAIN costs \cup {h} = {h}
    BY <1>4, RowsOfType
  <2> QED BY <2>1 DEF Kept
<1>5. SumsOf(pickedHouses, month)' = [x \in {<<h, m>>} |-> n]
  <2>1. SumsOf(pickedHouses, month)' = [x \in {x \in {h} \X {m} : costRows'[x] # NoCost} |-> costRows'[x]]
    BY DEF SumsOf
  <2>2. {x \in {h} \X {m} : costRows'[x] # NoCost} = {<<h, m>>}
    BY <1>1
  <2> QED BY <1>1, <2>1, <2>2
<1>6. ASSUME sums = SumsOf({h}, m)
      PROVE  Counted(<<h, m>>, n) = [x \in {<<h, m>>} |-> n]
  <2>1. DOMAIN sums = {x \in {h} \X {m} : costRows[x] # NoCost}
    BY <1>6 DEF SumsOf
  <2>2. DOMAIN sums \cup {<<h, m>>} = {<<h, m>>}
    BY <2>1
  <2>3. Counted(<<h, m>>, n) = [y \in DOMAIN sums \cup {<<h, m>>} |-> IF y = <<h, m>> THEN n ELSE sums[y]]
    BY DEF Counted
  <2> QED BY <2>2, <2>3
<1> QED BY <1>3, <1>4, <1>5, <1>6

LEMMA ServeChange ==
  ASSUME EditorInv, NEW s \in InFlight, ServeCosts(s), costCalls[s].op \in {"create", "update"}
  PROVE  EditorInv'
<1>1. /\ s \in CostSlots /\ costCalls[s].stage = "sent"
      /\ UNCHANGED <<pickedHouses, month, costs, sums, edits, saving, pending, lostCosts>>
  BY DEF ServeCosts, InFlight, editVars
<1>2. InFlight = {s} /\ ChangeInv(s) /\ ~Coming("costs") /\ ~Coming("sums")
  BY ChangeAlone
<1>3. PICK c \in CostCalls : c = costCalls[s]
  BY <1>1 DEF EditorInv, EditorTypes
<1>4. PICK h \in Houses, m \in Months, n \in Costs : h = c.home /\ m = c.month /\ n = c.costs
  BY <1>2, <1>3 DEF ChangeInv, CostCalls
<1>5. /\ pickedHouses = {h} /\ h \in DOMAIN costs /\ Meant(n, m)
      /\ c.op = "create" => n = [f \in Fields |-> 0]
  BY <1>2, <1>3, <1>4 DEF ChangeInv
<1>6. costRows' = [costRows EXCEPT ![<<h, m>>] = n]
  BY <1>3, <1>4, <1>5 DEF ServeCosts
<1>7. costRows \in [Houses \X Months -> Costs \cup {NoCost}] /\ costs \in StoreMaps /\ sums \in SumMaps
  BY DEF EditorInv, EditorTypes
<1>8. NoRows \in StoreMaps \cup SumMaps
  BY CostConstants
<1> DEFINE d == [c EXCEPT !.stage = "served", !.reply = NoRows]
<1>9. /\ d \in CostCalls /\ d.op = c.op /\ d.home = c.home /\ d.month = c.month /\ d.costs = c.costs
      /\ d.edits = c.edits /\ d.typed = c.typed /\ d.mine = c.mine /\ d.stage = "served"
  BY <1>8 DEF CostCalls
<1>10. costCalls' = [costCalls EXCEPT ![s] = d]
  BY <1>1, <1>3 DEF ServeCosts, EditorInv, EditorTypes
<1> HIDE DEF d
<1>11. /\ costCalls' \in [CostSlots -> CostCalls] /\ costCalls'[s] = d
       /\ \A t \in CostSlots : t # s => costCalls'[t] = costCalls[t]
  BY <1>1, <1>9, <1>10 DEF EditorInv, EditorTypes
<1>12. \A t \in CostSlots : costCalls'[t].op = costCalls[t].op /\ costCalls'[t].mine = costCalls[t].mine
  BY <1>3, <1>9, <1>11
<1>13. InFlight' = {s} /\ costCalls'[s].op \notin {"costs", "sums"}
  BY <1>2, <1>3, <1>9, <1>11, <1>12 DEF InFlight
<1>14. EditorTypes'
  <2>1. costRows' \in [Houses \X Months -> Costs \cup {NoCost}]
    BY <1>6, <1>7
  <2> QED BY <1>1, <1>11, <2>1 DEF EditorInv, EditorTypes
<1>15. MeantInv'
  <2>1. \A g \in Houses, k \in Months :
          costRows'[<<g, k>>] = IF <<g, k>> = <<h, m>> THEN n ELSE costRows[<<g, k>>]
    BY <1>6, <1>7
  <2>2. \A g \in Houses, k \in Months : costRows'[<<g, k>>] # NoCost => Meant(costRows'[<<g, k>>], k)
    BY <1>5, <2>1 DEF EditorInv, MeantInv
  <2>3. \A g \in DOMAIN costs : costs[g] # NoCost => Meant(costs[g].costs, costs[g].month)
    BY DEF EditorInv, MeantInv
  <2> QED BY <1>1, <2>2, <2>3 DEF MeantInv, Meant
<1>16. EditsInv'
  <2>1. \A g \in Houses : edits[g] # NoEdits =>
          g \in DOMAIN costs /\ costs[g] # NoCost /\ \A f \in Fields : edits[g][f] \in {Untyped, 0, costs[g].month}
    BY DEF EditorInv, EditsInv
  <2> QED BY <1>1, <1>13, <2>1 DEF EditsInv
<1>17. ASSUME "costs" \notin lostCosts
       PROVE  /\ Kept(h, Record(m, n)) = RowsOf(pickedHouses, month)'
              /\ "sums" \in lostCosts \/ Counted(<<h, m>>, n) = SumsOf(pickedHouses, month)'
  <2>1. ~Changed
    BY <1>1, <1>2 DEF Changed
  <2>2. costs = RowsOf(pickedHouses, month) /\ ("sums" \in lostCosts \/ sums = SumsOf(pickedHouses, month))
    BY <1>2, <1>17, <2>1 DEF EditorInv, StoredInv
  <2>3. month = m
    <3>1. CASE c.op = "create"
      BY <1>2, <1>3, <1>4, <3>1 DEF ChangeInv
    <3>2. CASE c.op = "update"
      <4>1. costs[h] # NoCost /\ m = costs[h].month
        BY <1>2, <1>3, <1>4, <3>2 DEF ChangeInv
      <4>2. month \in Months /\ pickedHouses \in SUBSET Houses
        BY DEF EditorInv, EditorTypes
      <4>3. costs[h] = Record(month, costRows[<<h, month>>])
        BY <1>5, <1>7, <2>2, <4>1, <4>2, RowsOfType
      <4> QED BY <4>1, <4>3 DEF Record
    <3> QED BY <1>3, <3>1, <3>2
  <2>4. /\ costs = RowsOf({h}, m) => Kept(h, Record(m, n)) = RowsOf(pickedHouses, month)'
        /\ sums = SumsOf({h}, m) => Counted(<<h, m>>, n) = SumsOf(pickedHouses, month)'
    BY <1>1, <1>5, <1>6, <1>7, <2>3, ServedRows
  <2> QED BY <1>5, <2>2, <2>3, <2>4
<1>18. FlightInv'
  <2>1. \A p \in CostSlots : costCalls'[p].mine
    BY <1>12 DEF EditorInv, FlightInv
  <2>2. ChangeInv(s)'
    <3>1. d.home = h /\ d.month = m /\ d.costs = n /\ d.op = c.op /\ d.typed = c.typed /\ d.edits = c.edits
      BY <1>4, <1>9
    <3>2. /\ c.op = "update" => /\ costs[h] # NoCost /\ m = costs[h].month /\ c.typed = edits
                                /\ n = Merged(costs[h].costs, c.edits)
          /\ c.op = "create" => costs[h] = NoCost /\ m = month /\ n = [f \in Fields |-> 0]
      BY <1>2, <1>3, <1>4 DEF ChangeInv
    <3>3. /\ Kept(h, Record(m, n))' = Kept(h, Record(m, n))
          /\ Counted(<<h, m>>, n)' = Counted(<<h, m>>, n)
      BY <1>1 DEF Kept, Counted, Record
    <3>4. PICK x : x = <<h, m>>
      OBVIOUS
    <3>5. PICK r : r = Record(m, n)
      OBVIOUS
    <3>6. "costs" \notin lostCosts =>
            /\ Kept(h, r)' = RowsOf(pickedHouses, month)'
            /\ "sums" \in lostCosts \/ Counted(x, n)' = SumsOf(pickedHouses, month)'
      BY <1>1, <1>17, <3>4, <3>5 DEF Kept, Counted
    <3>7. x = <<costCalls'[s].home, costCalls'[s].month>> /\ r = Record(costCalls'[s].month, costCalls'[s].costs)
      BY <1>11, <3>1, <3>4, <3>5
    <3>8. /\ pickedHouses' = {h} /\ h \in DOMAIN costs' /\ m \in Months /\ Meant(n, m)
          /\ d.op = "update" => /\ costs'[h] # NoCost /\ m = costs'[h].month /\ d.typed = edits'
                                /\ n = Merged(costs[h].costs, d.edits)
          /\ d.op = "create" => costs'[h] = NoCost /\ m = month' /\ n = [f \in Fields |-> 0]
      BY <1>1, <1>5, <3>1, <3>2
    <3> QED BY <1>1, <1>11, <3>1, <3>6, <3>7, <3>8 DEF ChangeInv, Meant, Merged, Record
  <2> QED BY <1>13, <2>1, <2>2 DEF FlightInv
<1>19. StoredInv'
  BY <1>9, <1>11, <1>13 DEF StoredInv, Changed
<1> QED BY <1>14, <1>15, <1>16, <1>18, <1>19 DEF EditorInv

LEMMA ServeStep ==
  ASSUME EditorInv, NEW s \in CostSlots, ServeCosts(s)
  PROVE  EditorInv'
<1>1. s \in InFlight
  BY DEF ServeCosts, InFlight
<1>2. costCalls[s].op \in {"costs", "sums", "create", "update"}
  BY <1>1 DEF InFlight, EditorInv, EditorTypes, CostCalls
<1> QED BY <1>1, <1>2, ServeFetch, ServeChange

\* What an answered request leaves to be shown of the ones under way.
LEMMA AnswerKeeps ==
  ASSUME EditorInv, NEW s \in InFlight, Finish(s), UNCHANGED <<costRows, pickedHouses, month>>
  PROVE  /\ FlightInv'
         /\ \A op : Coming(op) /\ costCalls[s].op # op => Coming(op)'
         /\ costCalls[s].op \in {"costs", "sums"} => ~Changed
         /\ costCalls[s].op = "costs" => ~Coming("costs")'
         /\ costCalls[s].op \notin {"costs", "sums"} => InFlight' = {}
<1>1. /\ InFlight' = InFlight \ {s} /\ \A t \in CostSlots : costCalls'[t].mine
      /\ \A t \in InFlight : t # s => costCalls'[t] = costCalls[t]
  BY Finishing DEF EditorInv
<1>2. /\ \A S, m : RowsOf(S, m)' = RowsOf(S, m)
      /\ \A S, m : SumsOf(S, m)' = SumsOf(S, m)
  BY SameRows
<1>3. costCalls[s].op \notin {"costs", "sums"} => InFlight' = {}
  BY <1>1, ChangeAlone
<1>4. \A t \in InFlight' : costCalls'[t].op \in {"costs", "sums"} /\ CostsFetchInv(t)'
  <2> SUFFICES ASSUME NEW t \in InFlight, t # s
               PROVE  costCalls[t].op \in {"costs", "sums"} /\ CostsFetchInv(t)'
    BY <1>1
  <2>1. costCalls[t].op \in {"costs", "sums"}
    BY DEF EditorInv, FlightInv
  <2>2. CostsFetchInv(t) /\ costCalls'[t] = costCalls[t]
    BY <1>1, <2>1 DEF EditorInv, FlightInv
  <2> QED BY <1>2, <2>1, <2>2 DEF CostsFetchInv
<1>5. FlightInv'
  <2>1. \A p, q \in InFlight' : p # q => {costCalls'[p].op, costCalls'[q].op} = {"costs", "sums"}
    BY <1>1 DEF EditorInv, FlightInv
  <2> QED BY <1>1, <1>4, <2>1 DEF FlightInv
<1>6. \A op : Coming(op) /\ costCalls[s].op # op => Coming(op)'
  BY <1>1 DEF Coming
<1>7. \A t \in InFlight : t # s /\ costCalls[s].op \in {"costs", "sums"} =>
        costCalls[t].op \in {"costs", "sums"} /\ costCalls[t].op # costCalls[s].op
  BY DEF EditorInv, FlightInv
<1>8. costCalls[s].op \in {"costs", "sums"} => ~Changed
  BY <1>7 DEF Changed
<1>9. costCalls[s].op = "costs" => ~Coming("costs")'
  BY <1>1, <1>7 DEF Coming
<1> QED BY <1>3, <1>5, <1>6, <1>8, <1>9

LEMMA CostsFetchedStep ==
  ASSUME EditorInv, NEW s \in CostSlots, CostsFetched(s)
  PROVE  EditorInv'
<1>1. /\ s \in InFlight /\ Finish(s) /\ costCalls[s].op = "costs" /\ costCalls[s].stage = "served"
      /\ UNCHANGED <<costRows, pickedHouses, month, sums, edits, saving, pending>>
      /\ costs' = costCalls[s].reply /\ lostCosts' = lostCosts \ {"costs"}
  BY DEF CostsFetched, Served, InFlight, editVars
<1>2. /\ costCalls' \in [CostSlots -> CostCalls] /\ InFlight' = InFlight \ {s}
      /\ \A t \in InFlight : t # s => costCalls'[t] = costCalls[t]
  BY <1>1, Finishing DEF EditorInv
<1>3. FlightInv' /\ ~Changed /\ ~Coming("costs")' /\ (Coming("sums") => Coming("sums")')
  BY <1>1, AnswerKeeps
<1>4. costs' = RowsOf(pickedHouses, month)
  BY <1>1 DEF EditorInv, FlightInv, CostsFetchInv
<1>5. pickedHouses \in SUBSET Houses /\ month \in Months /\ costRows \in [Houses \X Months -> Costs \cup {NoCost}]
  BY DEF EditorInv, EditorTypes
<1>6. /\ costs' \in StoreMaps /\ DOMAIN costs' = pickedHouses
      /\ \A h \in pickedHouses : costs'[h] = IF costRows[<<h, month>>] = NoCost THEN NoCost
                                             ELSE Record(month, costRows[<<h, month>>])
  BY <1>4, <1>5, RowsOfType
<1>7. EditorTypes'
  BY <1>1, <1>2, <1>6 DEF EditorInv, EditorTypes
<1>8. MeantInv'
  <2>1. \A h \in DOMAIN costs' : costs'[h] # NoCost => Meant(costs'[h].costs, costs'[h].month)
    <3> SUFFICES ASSUME NEW h \in pickedHouses, costs'[h] # NoCost
                 PROVE  Meant(costs'[h].costs, costs'[h].month)
      BY <1>6
    <3>1. costRows[<<h, month>>] # NoCost /\ costs'[h] = Record(month, costRows[<<h, month>>])
      BY <1>6
    <3>2. Meant(costRows[<<h, month>>], month)
      BY <1>5, <3>1 DEF EditorInv, MeantInv
    <3> QED BY <3>1, <3>2 DEF Record
  <2>2. \A h \in Houses, m \in Months : costRows[<<h, m>>] # NoCost => Meant(costRows[<<h, m>>], m)
    BY DEF EditorInv, MeantInv
  <2> QED BY <1>1, <2>1, <2>2 DEF MeantInv, Meant
<1>9. EditsInv'
  <2>1. \A h \in Houses : edits[h] = NoEdits
    BY <1>1 DEF EditorInv, EditsInv
  <2> QED BY <1>1, <2>1 DEF EditsInv
<1>10. StoredInv'
  <2>1. "sums" \in lostCosts \/ Coming("sums") \/ sums = SumsOf(pickedHouses, month)
    <3>1. Coming("costs")
      BY <1>1 DEF Coming
    <3> QED BY <1>3, <3>1 DEF EditorInv, StoredInv
  <2>2. /\ \A S, m : RowsOf(S, m)' = RowsOf(S, m)
        /\ \A S, m : SumsOf(S, m)' = SumsOf(S, m)
    BY <1>1, SameRows
  <2> QED BY <1>1, <1>3, <1>4, <2>1, <2>2 DEF StoredInv
<1> QED BY <1>3, <1>7, <1>8, <1>9, <1>10 DEF EditorInv

LEMMA SumsFetchedStep ==
  ASSUME EditorInv, NEW s \in CostSlots, SumsFetched(s)
  PROVE  EditorInv'
<1>1. /\ s \in InFlight /\ Finish(s) /\ costCalls[s].op = "sums" /\ costCalls[s].stage = "served"
      /\ UNCHANGED <<costRows, pickedHouses, month, costs, edits, saving, pending>>
      /\ sums' = costCalls[s].reply /\ lostCosts' = lostCosts \ {"sums"}
  BY DEF SumsFetched, Served, InFlight, editVars
<1>2. /\ costCalls' \in [CostSlots -> CostCalls] /\ InFlight' = InFlight \ {s}
      /\ \A t \in InFlight : t # s => costCalls'[t] = costCalls[t]
  BY <1>1, Finishing DEF EditorInv
<1>3. FlightInv' /\ ~Changed /\ (Coming("costs") => Coming("costs")')
  BY <1>1, AnswerKeeps
<1>4. sums' = SumsOf(pickedHouses, month)
  BY <1>1 DEF EditorInv, FlightInv, CostsFetchInv
<1>5. EditorTypes'
  <2>1. sums' \in SumMaps
    BY <1>4, SumsOfType DEF EditorInv, EditorTypes
  <2> QED BY <1>1, <1>2, <2>1 DEF EditorInv, EditorTypes
<1>6. MeantInv'
  BY <1>1 DEF EditorInv, MeantInv, Meant
<1>7. EditsInv'
  BY <1>1, <1>2 DEF EditorInv, EditsInv
<1>8. StoredInv'
  <2>1. /\ \A S, m : RowsOf(S, m)' = RowsOf(S, m)
        /\ \A S, m : SumsOf(S, m)' = SumsOf(S, m)
    BY <1>1, SameRows
  <2> QED BY <1>1, <1>3, <1>4, <2>1 DEF EditorInv, StoredInv
<1> QED BY <1>3, <1>5, <1>6, <1>7, <1>8 DEF EditorInv

\* The answer to a change of the house h, whose costs of month m are now n.
LEMMA AnswerOfChange ==
  ASSUME EditorInv, NEW s \in InFlight, Finish(s), costCalls[s].op \notin {"costs", "sums"},
         costCalls[s].stage = "served",
         NEW h \in Houses, NEW m \in Months, NEW n \in Costs,
         h = costCalls[s].home, m = costCalls[s].month, n = costCalls[s].costs,
         UNCHANGED <<costRows, pickedHouses, month, pending, lostCosts>>, saving' \in [Houses -> BOOLEAN],
         costs' = Kept(h, Record(m, n)), sums' = Counted(<<h, m>>, n),
         edits' \in [Houses -> Edits], \A g \in Houses : edits'[g] # NoEdits => g # h /\ edits'[g] = edits[g]
  PROVE  EditorInv'
<1>1. FlightInv' /\ InFlight' = {}
  BY AnswerKeeps
<1>2. costs \in StoreMaps /\ sums \in SumMaps
  BY DEF EditorInv, EditorTypes
<1>3. /\ costs' \in StoreMaps /\ DOMAIN costs' = DOMAIN costs \cup {h}
      /\ \A g \in DOMAIN costs \cup {h} : costs'[g] = IF g = h THEN Record(m, n) ELSE costs[g]
  <2>1. PICK k : k = Kept(h, Record(m, n))
    OBVIOUS
  <2>2. /\ k \in StoreMaps /\ DOMAIN k = DOMAIN costs \cup {h}
        /\ \A g \in DOMAIN costs \cup {h} : k[g] = IF g = h THEN Record(m, n) ELSE costs[g]
    <3>1. costs \in StoreMaps /\ h \in Houses /\ m \in Months /\ n \in Costs
      BY <1>2
    <3> QED BY ONLY <2>1, <3>1, KeptType
  <2> QED BY <2>1, <2>2
<1>4. EditorTypes'
  <2>1. <<h, m>> \in Houses \X Months
    OBVIOUS
  <2>2. sums' \in SumMaps
    BY <1>2, <2>1, CountedType
  <2>3. costCalls' \in [CostSlots -> CostCalls]
    BY Finishing DEF EditorInv
  <2> QED BY <1>3, <2>2, <2>3 DEF EditorInv, EditorTypes
<1>5. ChangeInv(s)
  BY ChangeAlone
<1>6. MeantInv'
  <2>1. Meant(n, m)
    BY <1>5 DEF ChangeInv
  <2>2. \A g \in DOMAIN costs' : costs'[g] # NoCost => Meant(costs'[g].costs, costs'[g].month)
    BY <1>3, <2>1 DEF EditorInv, MeantInv, Record
  <2>3. \A g \in Houses, k \in Months : costRows[<<g, k>>] # NoCost => Meant(costRows[<<g, k>>], k)
    BY DEF EditorInv, MeantInv
  <2> QED BY <2>2, <2>3 DEF MeantInv, Meant
<1>7. EditsInv'
  BY <1>1, <1>3 DEF EditorInv, EditsInv
<1>8. StoredInv'
  <2>1. "costs" \notin lostCosts =>
          /\ costs' = RowsOf(pickedHouses, month)
          /\ "sums" \in lostCosts \/ sums' = SumsOf(pickedHouses, month)
    BY <1>5 DEF ChangeInv
  <2>2. /\ \A S, k : RowsOf(S, k)' = RowsOf(S, k)
        /\ \A S, k : SumsOf(S, k)' = SumsOf(S, k)
    BY SameRows
  <2>3. ~Coming("costs")'
    BY <1>1 DEF Coming
  <2> QED BY <2>1, <2>2, <2>3 DEF StoredInv
<1> QED BY <1>1, <1>4, <1>6, <1>7, <1>8 DEF EditorInv

LEMMA CostCreatedStep ==
  ASSUME EditorInv, NEW s \in CostSlots, CostCreated(s)
  PROVE  EditorInv'
<1>1. /\ s \in InFlight /\ Finish(s) /\ costCalls[s].op = "create" /\ costCalls[s].stage = "served"
      /\ UNCHANGED <<costRows, pickedHouses, month, edits, saving, pending, lostCosts>>
  BY DEF CostCreated, Served, InFlight, editVars
<1>2. ChangeInv(s)
  BY <1>1, ChangeAlone
<1>3. PICK h \in Houses, m \in Months, n \in Costs :
        h = costCalls[s].home /\ m = costCalls[s].month /\ n = costCalls[s].costs
  BY <1>2 DEF ChangeInv, EditorInv, EditorTypes, CostCalls
<1>4. n = [f \in Fields |-> 0] /\ costs[h] = NoCost
  BY <1>1, <1>2, <1>3 DEF ChangeInv
<1>5. costs' = Kept(h, Record(m, n)) /\ sums' = Counted(<<h, m>>, n)
  BY <1>3, <1>4 DEF CostCreated
<1>6. edits' \in [Houses -> Edits] /\ saving' \in [Houses -> BOOLEAN]
  BY <1>1 DEF EditorInv, EditorTypes
<1>7. \A g \in Houses : edits'[g] # NoEdits => g # h /\ edits'[g] = edits[g]
  BY <1>1, <1>4 DEF EditorInv, EditsInv
<1>8. costCalls[s].op \notin {"costs", "sums"}
  BY <1>1
<1> QED BY <1>1, <1>3, <1>5, <1>6, <1>7, <1>8, AnswerOfChange

LEMMA CostUpdatedStep ==
  ASSUME EditorInv, NEW s \in CostSlots, CostUpdated(s)
  PROVE  EditorInv'
<1>1. /\ s \in InFlight /\ Finish(s) /\ costCalls[s].op = "update" /\ costCalls[s].stage = "served"
      /\ costCalls[s].op \notin {"costs", "sums"} /\ costCalls[s].mine
      /\ UNCHANGED <<costRows, pickedHouses, month, pending, lostCosts>>
  BY DEF CostUpdated, Served, InFlight, EditorInv, FlightInv
<1>2. ChangeInv(s)
  BY <1>1, ChangeAlone
<1>3. PICK h \in Houses, m \in Months, n \in Costs :
        h = costCalls[s].home /\ m = costCalls[s].month /\ n = costCalls[s].costs
  BY <1>2 DEF ChangeInv, EditorInv, EditorTypes, CostCalls
<1>4. /\ h \in DOMAIN costs /\ costs[h] # NoCost /\ m = costs[h].month /\ costCalls[s].typed = edits
      /\ n = Merged(costs[h].costs, costCalls[s].edits)
  BY <1>1, <1>2, <1>3 DEF ChangeInv
<1>5. costs' = Kept(h, Record(m, n)) /\ sums' = Counted(<<h, m>>, n)
  BY <1>3, <1>4 DEF CostUpdated, Record
<1>6. edits' = [edits EXCEPT ![h] = NoEdits] /\ saving' = [saving EXCEPT ![h] = FALSE]
  BY <1>1, <1>3, <1>4 DEF CostUpdated
<1>7. /\ edits' \in [Houses -> Edits] /\ saving' \in [Houses -> BOOLEAN]
      /\ \A g \in Houses : edits'[g] # NoEdits => g # h /\ edits'[g] = edits[g]
  BY <1>6, CostConstants DEF EditorInv, EditorTypes
<1> QED BY <1>1, <1>3, <1>5, <1>7, AnswerOfChange

LEMMA CostFailsStep ==
  ASSUME EditorInv, NEW s \in CostSlots, CostCallFails(s)
  PROVE  EditorInv'
<1>1. /\ s \in InFlight /\ Finish(s) /\ costCalls[s].op \in {"costs", "sums", "create", "update"}
      /\ UNCHANGED <<costRows, pickedHouses, month, costs, sums, edits, pending>>
  BY DEF CostCallFails, InFlight, EditorInv, EditorTypes, CostCalls
<1>2. /\ costCalls' \in [CostSlots -> CostCalls] /\ InFlight' = InFlight \ {s}
      /\ \A t \in InFlight : t # s => costCalls'[t] = costCalls[t]
  BY <1>1, Finishing DEF EditorInv
<1>3. /\ FlightInv' /\ \A op : Coming(op) /\ costCalls[s].op # op => Coming(op)'
      /\ costCalls[s].op \in {"costs", "sums"} => ~Changed
      /\ costCalls[s].op = "costs" => ~Coming("costs")'
      /\ costCalls[s].op \notin {"costs", "sums"} => InFlight' = {}
  BY <1>1, AnswerKeeps
<1>4. EditorTypes'
  <2>1. saving' \in [Houses -> BOOLEAN]
    BY DEF CostCallFails, EditorInv, EditorTypes
  <2> QED BY <1>1, <1>2, <2>1 DEF EditorInv, EditorTypes
<1>5. MeantInv'
  BY <1>1 DEF EditorInv, MeantInv, Meant
<1>6. EditsInv'
  BY <1>1, <1>2 DEF EditorInv, EditsInv
<1>7. /\ \A S, m : RowsOf(S, m)' = RowsOf(S, m)
      /\ \A S, m : SumsOf(S, m)' = SumsOf(S, m)
  BY <1>1, SameRows
<1>8. /\ costCalls[s].op \in {"costs", "sums"} => lostCosts' = lostCosts \cup {costCalls[s].op}
      /\ costCalls[s].op \in {"create", "update"} /\ costCalls[s].stage = "served" => lostCosts' = lostCosts \cup {"costs", "sums"}
      /\ costCalls[s].op \in {"create", "update"} /\ costCalls[s].stage # "served" => lostCosts' = lostCosts
  BY DEF CostCallFails
<1>9. StoredInv'
  <2>1. CASE costCalls[s].op = "costs"
    <3>1. lostCosts' = lostCosts \cup {"costs"}
      <4>1. costCalls[s].op \in {"costs", "sums"} /\ {costCalls[s].op} = {"costs"}
        BY <2>1
      <4>2. lostCosts' = lostCosts \cup {costCalls[s].op}
        BY <1>8, <4>1
      <4> QED BY <4>1, <4>2, Zenon
    <3>2. "costs" \in lostCosts' /\ ~Coming("costs")'
      BY <1>3, <2>1, <3>1
    <3> QED BY <3>2 DEF StoredInv
  <2>2. CASE costCalls[s].op = "sums"
    <3>1. lostCosts' = lostCosts \cup {"sums"}
      <4>1. costCalls[s].op \in {"costs", "sums"} /\ {costCalls[s].op} = {"sums"}
        BY <2>2
      <4>2. lostCosts' = lostCosts \cup {costCalls[s].op}
        BY <1>8, <4>1
      <4> QED BY <4>1, <4>2, Zenon
    <3>2. "costs" \in lostCosts \/ Coming("costs") \/ costs = RowsOf(pickedHouses, month)
      BY <1>3, <2>2 DEF EditorInv, StoredInv
    <3>3. Coming("costs") => Coming("costs")'
      BY <1>3, <2>2
    <3> QED BY <1>1, <1>7, <3>1, <3>2, <3>3 DEF StoredInv
  <2>3. CASE costCalls[s].op \in {"create", "update"} /\ costCalls[s].stage = "served"
    <3>1. lostCosts' = lostCosts \cup {"costs", "sums"}
      BY <1>8, <2>3
    <3> QED BY <3>1 DEF StoredInv
  <2>4. CASE costCalls[s].op \in {"create", "update"} /\ costCalls[s].stage # "served"
    <3>1. lostCosts' = lostCosts
      BY <1>8, <2>4
    <3>2. InFlight = {s} /\ ~Coming("costs") /\ ~Coming("sums") /\ InFlight' = {}
      BY <1>1, <1>3, <2>4, ChangeAlone
    <3>3. ~Changed /\ ~Coming("costs")'
      BY <2>4, <3>2 DEF Changed, Coming
    <3> QED BY <1>1, <1>7, <3>1, <3>2, <3>3 DEF EditorInv, StoredInv
  <2> QED BY <1>1, <2>1, <2>2, <2>3, <2>4
<1> QED BY <1>3, <1>4, <1>5, <1>6, <1>9 DEF EditorInv

-----------------------------------------------------------------------------
LEMMA CostInvInit == CostInit => CostInv
<1> SUFFICES ASSUME CostInit PROVE EditorInv
  BY DEF CostInv
<1>1. PICK M \in SUBSET Months : costRows = [x \in Houses \X Months |-> IF x[2] \in M THEN [f \in Fields |-> 0] ELSE NoCost]
  BY DEF CostInit
<1>2. costRows \in [Houses \X Months -> Costs \cup {NoCost}]
  BY <1>1, CostConstants
<1>3. pickedHouses \in SUBSET Houses /\ month \in Months
  <2>1. \E m \in Months : TRUE
    BY CostAssumption
  <2> QED BY <2>1, CostConstants DEF CostInit
<1>4. /\ costs = RowsOf(pickedHouses, month) /\ sums = SumsOf(pickedHouses, month)
      /\ costs \in StoreMaps /\ sums \in SumMaps
      /\ DOMAIN costs = pickedHouses
      /\ \A h \in pickedHouses : costs[h] = IF costRows[<<h, month>>] = NoCost THEN NoCost
                                             ELSE Record(month, costRows[<<h, month>>])
  BY <1>2, <1>3, RowsOfType, SumsOfType DEF CostInit
<1>5. /\ NoCostCall \in CostCalls /\ NoCostCall.op = "none" /\ NoCostCall.mine = TRUE
      /\ costCalls = [s \in CostSlots |-> NoCostCall]
  <2>1. [h \in Houses |-> NoEdits] \in [Houses -> Edits]
    BY CostConstants
  <2>2. NoCostCall.op = "none" /\ NoCostCall.mine = TRUE
    BY DEF NoCostCall
  <2>3. NoCostCall \in CostCalls
    BY <2>1, CostConstants DEF NoCostCall, CostCalls
  <2> QED BY <2>2, <2>3 DEF CostInit
<1>6. costCalls \in [CostSlots -> CostCalls] /\ InFlight = {} /\ \A s \in CostSlots : costCalls[s].mine
  BY <1>5 DEF InFlight
<1>7. EditorTypes
  BY <1>2, <1>3, <1>4, <1>6, CostConstants DEF EditorTypes, CostInit
<1>8. MeantInv
  <2>1. \A h \in Houses, m \in Months : costRows[<<h, m>>] # NoCost => Meant(costRows[<<h, m>>], m)
    BY <1>1 DEF Meant
  <2>2. \A h \in pickedHouses : costs[h] # NoCost => Meant(costs[h].costs, costs[h].month)
    <3> SUFFICES ASSUME NEW h \in pickedHouses, costs[h] # NoCost PROVE Meant(costs[h].costs, costs[h].month)
      OBVIOUS
    <3>1. costRows[<<h, month>>] # NoCost /\ costs[h] = Record(month, costRows[<<h, month>>])
      BY <1>4
    <3>2. Meant(costRows[<<h, month>>], month)
      BY <1>3, <2>1, <3>1
    <3> QED BY <3>1, <3>2 DEF Record
  <2> QED BY <1>4, <2>1, <2>2 DEF MeantInv
<1>9. EditsInv
  BY DEF CostInit, EditsInv
<1>10. FlightInv
  BY <1>6 DEF FlightInv
<1>11. StoredInv
  BY <1>4 DEF StoredInv
<1> QED BY <1>7, <1>8, <1>9, <1>10, <1>11 DEF EditorInv

LEMMA CostInvStep == CostInv /\ [CostNext]_costVars => CostInv'
<1>1. ASSUME CostInv, UNCHANGED costVars PROVE CostInv'
  <2>1. UNCHANGED <<awaits, costRows, pickedHouses, month, costs, sums, edits, saving, pending, costCalls, lostCosts>>
    BY <1>1 DEF costVars
  <2> SUFFICES ASSUME EditorInv PROVE EditorInv'
    BY <1>1, <2>1 DEF CostInv
  <2>2. saving' \in [Houses -> BOOLEAN] /\ pending' \in Targets \cup {NoTarget}
    BY <2>1 DEF EditorInv, EditorTypes
  <2> QED BY <2>1, <2>2, AskingKeeps
<1>2. ASSUME CostInv, CostNext PROVE CostInv'
  <2>1. awaits' = awaits
    BY <1>2 DEF CostNext, HandleHouses, HandlePeriodChange, InterceptTab, Change, Confirm, Discard, Decline, Escape,
                SaveCost, RemoveExtraCost, Send, CreateMonthCost, TypeCost, ServeCosts, CostsFetched, SumsFetched,
                CostCreated, CostUpdated, CostCallFails
  <2> SUFFICES ASSUME EditorInv, awaits PROVE EditorInv'
    BY <1>2, <2>1 DEF CostInv
  <2>2. ASSUME NEW t \in Targets, Change(t) PROVE EditorInv'
    BY <2>2, ChangeStep
  <2>3. CASE HandleHouses \/ HandlePeriodChange \/ InterceptTab
    BY <2>2, <2>3 DEF HandleHouses, HandlePeriodChange, InterceptTab, Targets
  <2>4. CASE Confirm
    BY <2>4, DiscardStep DEF Confirm
  <2>5. CASE Decline
    <3>1. /\ UNCHANGED <<costRows, pickedHouses, month, costs, sums, edits, costCalls, lostCosts, saving, pending>>
      BY <2>5 DEF Decline
    <3>2. saving' \in [Houses -> BOOLEAN] /\ pending' \in Targets \cup {NoTarget}
      BY <3>1 DEF EditorInv, EditorTypes
    <3> QED BY <3>1, <3>2, AskingKeeps
  <2>6. CASE Escape
    <3>1. CASE Dirty
      <4>1. /\ UNCHANGED <<costRows, pickedHouses, month, costs, sums, edits, costCalls, lostCosts, saving, pending>>
        BY <2>6, <3>1 DEF Escape
      <4>2. saving' \in [Houses -> BOOLEAN] /\ pending' \in Targets \cup {NoTarget}
        BY <4>1 DEF EditorInv, EditorTypes
      <4> QED BY <4>1, <4>2, AskingKeeps
    <3>2. CASE ~Dirty
      BY <2>6, <3>2, DiscardStep DEF Escape, AtPage
    <3> QED BY <3>1, <3>2
  <2>7. ASSUME NEW h \in Houses, SaveCost(h) PROVE EditorInv'
    <3>1. edits[h] \in Edits /\ Send(h, edits[h])
      BY <2>7 DEF SaveCost, EditorInv, EditorTypes
    <3>2. \A f \in Fields : edits[h][f] \in {Untyped, 0, costs[h].month}
      BY <2>7 DEF SaveCost, EditorInv, EditsInv
    <3>3. PICK e \in Edits : e = edits[h]
      BY <3>1
    <3> QED BY <3>1, <3>2, <3>3, SendStep
  <2>8. ASSUME NEW h \in Houses, NEW f \in Fields, RemoveExtraCost(h, f) PROVE EditorInv'
    <3>1. edits[h] \in [Fields -> Months \cup {0, Untyped}]
      BY DEF EditorInv, EditorTypes, Edits
    <3>2. PICK e : e = [edits[h] EXCEPT ![f] = 0]
      OBVIOUS
    <3>3. e \in Edits /\ Send(h, e)
      BY <2>8, <3>1, <3>2 DEF RemoveExtraCost, Edits
    <3>4. \A g \in Fields : edits[h][g] \in {Untyped, 0, costs[h].month}
      BY DEF EditorInv, EditsInv, NoEdits
    <3>5. \A g \in Fields : e[g] \in {Untyped, 0, costs[h].month}
      BY <3>1, <3>2, <3>4
    <3> QED BY <3>3, <3>5, SendStep
  <2>9. ASSUME NEW h \in Houses, CreateMonthCost(h) PROVE EditorInv'
    BY <2>9, CreateMonthStep
  <2>10. ASSUME NEW h \in Houses, NEW f \in Fields, TypeCost(h, f) PROVE EditorInv'
    BY <2>10, TypeCostStep
  <2>11. ASSUME NEW s \in CostSlots,
                ServeCosts(s) \/ CostsFetched(s) \/ SumsFetched(s) \/ CostCreated(s) \/ CostUpdated(s) \/ CostCallFails(s)
         PROVE  EditorInv'
    BY <2>11, ServeStep, CostsFetchedStep, SumsFetchedStep, CostCreatedStep, CostUpdatedStep, CostFailsStep
  <2> QED BY <1>2, <2>3, <2>4, <2>5, <2>6, <2>7, <2>8, <2>9, <2>10, <2>11 DEF CostNext
<1> QED BY <1>1, <1>2

LEMMA CostInvHolds == CostInv => CostsHold
<1> SUFFICES ASSUME CostInv PROVE CostsHold
  OBVIOUS
<1>1. CostsStayInTheirMonth
  BY DEF CostInv, EditorInv, MeantInv, Meant, CostsStayInTheirMonth
<1>2. CostsMatchServer
  BY DEF CostInv, EditorInv, StoredInv, Coming, Changed, CostsMatchServer
<1> QED BY <1>1, <1>2 DEF CostsHold

(* For a user who awaits every answer: an amount typed into the costs of a    *)
(* month is stored for that month only, and once all is answered and nothing  *)
(* was lost the page shows the stored costs and sums of the chosen month.     *)
THEOREM CostsAgree == Spec => []CostsHold
<1>1. Init => CostInv
  BY PartsInit, CostInvInit
<1>2. CostInv /\ [Next]_vars => CostInv'
  BY PartsStep, CostInvStep
<1>3. CostInv => CostsHold
  BY CostInvHolds
<1> QED BY <1>1, <1>2, <1>3, PTL DEF Spec

-----------------------------------------------------------------------------
(* The types of the pages.  What their invariants leave open of the list of   *)
(* invoices: its flags, and all that the bounds of the model count.           *)

DeskTyped ==
  /\ alone \in BOOLEAN /\ loading \in BOOLEAN /\ missed \in BOOLEAN
  /\ hurried \in 0..MaxHurried /\ Len(calls) <= MaxCalls

LEMMA DeskTypesHold == ASSUME DeskInv, DeskTyped PROVE DeskTypeOK
BY DEF DeskInv, DeskTypes, DeskTyped, DeskTypeOK, DeskCalls

LEMMA DeskTypedInit == DeskInit => DeskTyped
<1> SUFFICES ASSUME DeskInit PROVE DeskTyped
  OBVIOUS
<1>1. Len(calls) = 1 /\ 1 <= MaxCalls /\ 0 \in 0..MaxHurried
  BY DeskAssumption DEF DeskInit
<1> QED BY <1>1 DEF DeskInit, DeskTyped

\* Requests that end make room, and those that go on take none.
LEMMA TrimmedLength == ASSUME NEW cs \in Seq(DeskCalls) PROVE Len(Trim(cs)) <= Len(cs)
<1> DEFINE live == Live(cs)
           top == IF live = {} THEN 0 ELSE CHOOSE n \in live : \A m \in live : m <= n
<1>1. Trim(cs) = SubSeq(cs, 1, top)
  BY DEF Trim, Live
<1>2. live \subseteq 1..Len(cs) /\ Len(cs) \in Nat
  BY DEF Live
<1>3. top \in 0..Len(cs)
  <2>1. CASE live = {}
    BY <1>2, <2>1
  <2>2. CASE live # {}
    <3>1. \E n \in live : \A m \in live : m <= n
      <4> HIDE DEF live
      <4> QED BY <1>2, <2>2, GreatestNumber
    <3>2. top \in live
      <4>1. top = CHOOSE n \in live : \A m \in live : m <= n
        BY <2>2
      <4> HIDE DEF live, top
      <4> QED BY <3>1, <4>1
    <3> HIDE DEF live, top
    <3> QED BY <1>2, <3>2
  <2> QED BY <2>1, <2>2
<1> HIDE DEF top
<1>4. Len(SubSeq(cs, 1, top)) = top
  <2>1. \A i \in 1..top : cs[i] \in DeskCalls
    BY <1>2, <1>3
  <2>2. top \in Int /\ 1 \in Int
    BY <1>2, <1>3
  <2>3. Len(SubSeq(cs, 1, top)) = IF 1 <= top THEN top - 1 + 1 ELSE 0
    BY <2>1, <2>2, SubSeqProperties
  <2> QED BY <1>2, <1>3, <2>3
<1> QED BY <1>1, <1>2, <1>3, <1>4

LEMMA WithoutLength ==
  ASSUME calls \in Seq(DeskCalls), NEW n \in Under
  PROVE  Without(n) \in Seq(DeskCalls) /\ Len(Without(n)) <= Len(calls)
<1>1. PICK cs \in Seq(DeskCalls) : cs = [calls EXCEPT ![n] = NoCall] /\ Len(cs) = Len(calls)
  <2>1. n \in DOMAIN calls
    BY DEF Under
  <2>2. [calls EXCEPT ![n] = NoCall] \in Seq(DeskCalls)
    BY <2>1, DeskConstants, UpdatedSeq
  <2>3. DOMAIN [calls EXCEPT ![n] = NoCall] = DOMAIN calls
    OBVIOUS
  <2>4. ASSUME NEW cs \in Seq(DeskCalls), DOMAIN cs = DOMAIN calls
        PROVE  Len(cs) = Len(calls)
    BY <2>4
  <2> QED BY <2>2, <2>3, <2>4
<1>2. Without(n) = Trim(cs)
  BY <1>1 DEF Without
<1> QED BY <1>1, <1>2, TrimmedLength, WithoutOne

LEMMA HeardLength ==
  ASSUME NEW cs \in Seq(DeskCalls), NEW l, NEW id, NEW edit
  PROVE  Heard(cs, l, id, edit) \in Seq(DeskCalls) /\ Len(Heard(cs, l, id, edit)) = Len(cs)
<1>1. DOMAIN Heard(cs, l, id, edit) = DOMAIN cs
  BY DEF Heard
<1>2. Heard(cs, l, id, edit) \in Seq(DeskCalls)
  BY HeardSame
<1> QED BY <1>1, <1>2

LEMMA ActsRoom ==
  ASSUME DeskTypes, DeskTyped, NEW k \in {1, 2}, Acts(k)
  PROVE  hurried' \in 0..MaxHurried /\ Len(calls) \in Nat /\ Len(calls) + k <= MaxCalls
<1>1. Len(calls) \in Nat /\ MaxHurried \in Nat /\ hurried \in 0..MaxHurried
  BY DeskAssumption DEF DeskTypes, DeskTyped
<1> QED BY <1>1 DEF Acts

LEMMA DeskTypedStep ==
  ASSUME DeskInv, DeskTyped, [DeskNext]_deskVars
  PROVE  DeskTyped'
<1>0. DeskTypes /\ calls \in Seq(DeskCalls) /\ Len(calls) \in Nat /\ MaxCalls \in Nat /\ Len(calls) <= MaxCalls
  BY DeskAssumption DEF DeskInv, DeskTypes, DeskTyped
<1>1. CASE UNCHANGED deskVars
  BY <1>1 DEF deskVars, DeskTyped
<1>2. ASSUME NEW f \in Filters, SetFilter(f) PROVE DeskTyped'
  <2>1. PICK k \in {1, 2} : Acts(k) /\ calls' = calls \o [j \in 1..k |-> Fetch(f)]
    BY <1>2 DEF SetFilter
  <2>2. Len(calls') = Len(calls) + k
    <3>1. [j \in 1..k |-> Fetch(f)] \in Seq(DeskCalls) /\ Len([j \in 1..k |-> Fetch(f)]) = k
      <4>1. k \in Nat /\ Fetch(f) \in DeskCalls
        BY DeskConstants
      <4> HIDE DEF Fetch
      <4> QED BY <4>1
    <3> QED BY <1>0, <2>1, <3>1
  <2> QED BY <1>0, <1>2, <2>1, <2>2, ActsRoom DEF SetFilter, DeskTyped
<1>3. CASE (\E i \in Invoices : Delete(i)) \/ SaveEdit \/ \E k \in {"pay", "unpay"} : Pay(k)
  <2>1. Acts(1) /\ Len(calls') = Len(calls) + 1 /\ UNCHANGED <<alone, loading, missed>>
    <3>1. PICK c : Acts(1) /\ calls' = Append(calls, c) /\ UNCHANGED <<alone, loading, missed>>
      BY <1>3 DEF Delete, SaveEdit, Pay
    <3> QED BY <1>0, <3>1
  <2> QED BY <1>0, <2>1, ActsRoom DEF DeskTyped
<1>4. CASE (\E i \in Invoices : PaidElsewhere(i) \/ \E edit \in BOOLEAN : OpenRow(i, edit)) \/ EditFromDetail \/ CloseModal
  <2>1. UNCHANGED <<alone, hurried, loading, missed>> /\ Len(calls') = Len(calls)
    <3>1. /\ UNCHANGED <<alone, hurried, loading, missed>>
          /\ calls' = calls \/ \E id, edit : calls' = Heard(calls, list, id, edit)
      BY <1>4 DEF PaidElsewhere, OpenRow, EditFromDetail, CloseModal
    <3> QED BY <1>0, <3>1, HeardLength
  <2> QED BY <2>1 DEF DeskTyped
<1>5. ASSUME NEW n \in DOMAIN calls, Serve(n) \/ ChangeAnswered(n) PROVE DeskTyped'
  <2>1. UNCHANGED <<alone, hurried, missed>> /\ loading' \in BOOLEAN /\ \E c : calls' = [calls EXCEPT ![n] = c]
    <3>1. CASE Serve(n)
      <4>1. /\ UNCHANGED <<alone, hurried, missed, loading>>
            /\ \/ calls' = [calls EXCEPT ![n].stage = "refused"]
               \/ calls' = [calls EXCEPT ![n].stage = "served", ![n].reply = Matching(calls[n].want)]
               \/ calls' = [calls EXCEPT ![n].stage = "served"]
        BY <3>1 DEF Serve
      <4> QED BY <1>0, <4>1 DEF DeskTyped
    <3>2. CASE ChangeAnswered(n)
      BY <3>2 DEF ChangeAnswered
    <3> QED BY <1>5, <3>1, <3>2
  <2>2. Len(calls') = Len(calls)
    BY <1>0, <2>1
  <2> QED BY <2>1, <2>2 DEF DeskTyped
<1>6. ASSUME NEW n \in DOMAIN calls, FetchAnswered(n) \/ FetchFails(n) PROVE DeskTyped'
  <2>1. n \in Under /\ UNCHANGED <<alone, hurried>>
    BY <1>6 DEF FetchAnswered, FetchFails, FetchEnds, Waiting
  <2>2. loading' \in BOOLEAN /\ missed' \in BOOLEAN
    BY <1>6 DEF FetchAnswered, FetchFails, FetchEnds
  <2>3. PICK l, id, edit : calls' = Heard(Without(n), l, id, edit)
    BY <1>6 DEF FetchAnswered, FetchFails, FetchEnds
  <2>4. Len(calls') <= Len(calls) /\ Len(calls') \in Nat
    BY <1>0, <2>1, <2>3, WithoutLength, HeardLength
  <2> QED BY <1>0, <2>1, <2>2, <2>4 DEF DeskTyped
<1>7. ASSUME NEW n \in DOMAIN calls, PayAnswered(n) \/ PayFails(n) \/ ChangeFails(n) PROVE DeskTyped'
  <2>1. n \in Under /\ UNCHANGED <<alone, hurried, loading>> /\ missed' \in BOOLEAN
    BY <1>7 DEF PayAnswered, PayFails, ChangeFails, DeskTyped, AnswerLost
  <2>2. calls' = Without(n) \/ \E l, id, edit : calls' = Heard(Without(n), l, id, edit)
    BY <1>7 DEF PayAnswered, PayFails, ChangeFails
  <2>3. Len(calls') <= Len(calls)
    BY <1>0, <2>1, <2>2, WithoutLength, HeardLength
  <2> QED BY <1>0, <2>1, <2>3 DEF DeskTyped
<1> QED BY <1>1, <1>2, <1>3, <1>4, <1>5, <1>6, <1>7 DEF DeskNext

-----------------------------------------------------------------------------
(* The types of the operating costs, of any user: an answer that comes late   *)
(* is still one of costs or of sums, of a month there is.                     *)

Picks == ({{FirstHouse}} \cup Choices) \ {{}}
CallTyped(c) ==
  c.op # "none" =>
    /\ c.month \in Months
    /\ c.stage = "served" => /\ c.op = "costs" => c.reply \in StoreMaps
                             /\ c.op = "sums" => c.reply \in SumMaps
CallsTyped == costCalls \in [CostSlots -> CostCalls] /\ \A s \in CostSlots : CallTyped(costCalls[s])
PageTyped == pickedHouses \in Picks /\ month \in Months /\ loadingCosts \in BOOLEAN
MapsTyped == costRows \in [Houses \X Months -> Costs \cup {NoCost}] /\ costs \in StoreMaps /\ sums \in SumMaps
EditTyped ==
  /\ edits \in [Houses -> Edits] /\ saving \in [Houses -> BOOLEAN]
  /\ pending \in Targets \cup {NoTarget} /\ asking \in BOOLEAN
RunTyped == awaits \in BOOLEAN /\ steps \in 0..MaxSteps /\ lostCosts \subseteq {"costs", "sums"}
CostTyped == CallsTyped /\ PageTyped /\ MapsTyped /\ EditTyped /\ RunTyped

LEMMA PicksAre == Picks \subseteq SUBSET Houses /\ {FirstHouse} \in Picks
BY CostConstants DEF Picks

LEMMA CostTypesHold == ASSUME CostTyped PROVE CostTypeOK
<1>1. \A s \in CostSlots : /\ costCalls[s].op \in {"none", "costs", "sums", "create", "update"}
                           /\ costCalls[s].costs \in Costs /\ costCalls[s].edits \in Edits
  BY DEF CostTyped, CallsTyped, CostCalls
<1>2. /\ DOMAIN costs \subseteq Houses /\ \A h \in DOMAIN costs : costs[h] \in Records
      /\ DOMAIN sums \subseteq Houses \X Months /\ \A x \in DOMAIN sums : sums[x] \in Costs
  BY StoreMapIn, SumMapIn DEF CostTyped, MapsTyped
<1> QED BY <1>1, <1>2 DEF CostTyped, PageTyped, MapsTyped, EditTyped, RunTyped, Picks, CostTypeOK

LEMMA NoCallTyped == NoCostCall \in CostCalls /\ CallTyped(NoCostCall)
<1>1. [h \in Houses |-> NoEdits] \in [Houses -> Edits]
  BY CostConstants
<1> QED BY <1>1, CostConstants DEF NoCostCall, CostCalls, CallTyped

LEMMA CostTypedInit == CostInit => CostTyped
<1> SUFFICES ASSUME CostInit PROVE CostTyped
  OBVIOUS
<1>1. CallsTyped
  BY NoCallTyped DEF CostInit, CallsTyped
<1>2. PageTyped
  <2>1. \E m \in Months : TRUE
    BY CostAssumption
  <2> QED BY <2>1, PicksAre DEF CostInit, PageTyped
<1>3. costRows \in [Houses \X Months -> Costs \cup {NoCost}]
  <2>1. PICK S \in SUBSET Months :
          costRows = [x \in Houses \X Months |-> IF x[2] \in S THEN [f \in Fields |-> 0] ELSE NoCost]
    BY DEF CostInit
  <2> QED BY <2>1, CostConstants
<1>4. MapsTyped
  BY <1>2, <1>3, PicksAre, RowsOfType, SumsOfType DEF CostInit, MapsTyped, PageTyped
<1>5. EditTyped
  BY CostConstants DEF CostInit, EditTyped
<1>6. RunTyped
  <2>1. 0 \in 0..MaxSteps
    BY CostAssumption
  <2> QED BY <2>1 DEF CostInit, RunTyped
<1> QED BY <1>1, <1>2, <1>4, <1>5, <1>6 DEF CostTyped

\* How the requests change.
LEMMA CallPut ==
  ASSUME NEW held \in [CostSlots -> CostCalls], \A s \in CostSlots : CallTyped(held[s]),
         NEW s, NEW c \in CostCalls, CallTyped(c)
  PROVE  /\ [held EXCEPT ![s] = c] \in [CostSlots -> CostCalls]
         /\ \A t \in CostSlots : CallTyped([held EXCEPT ![s] = c][t])
BY DEF CallTyped

LEMMA CallSent ==
  ASSUME CallsTyped, NEW s, NEW c \in CostCalls, CallTyped(c), costCalls' = [costCalls EXCEPT ![s] = c]
  PROVE  CallsTyped'
<1>1. PICK held : held = [costCalls EXCEPT ![s] = c]
  OBVIOUS
<1>2. held \in [CostSlots -> CostCalls] /\ \A t \in CostSlots : CallTyped(held[t])
  BY <1>1, CallPut DEF CallsTyped
<1> QED BY <1>1, <1>2 DEF CallsTyped, CallTyped

LEMMA FetchesTyped ==
  ASSUME NEW before \in [CostSlots -> CostCalls], \A s \in CostSlots : CallTyped(before[s]),
         NEW S \in SUBSET Houses, NEW m \in Months, SendFetches(S, m, before)
  PROVE  CallsTyped' /\ loadingCosts' = TRUE
<1> DEFINE c == FetchCall("costs", S, m)
           d == FetchCall("sums", S, m)
<1>1. PICK s, t : costCalls' = [before EXCEPT ![s] = c, ![t] = d]
  BY DEF SendFetches, FetchCall
<1>2. "costs" \in {"costs", "sums"} /\ "sums" \in {"costs", "sums"}
  OBVIOUS
<1>3. c \in CostCalls /\ c.op = "costs" /\ c.want = S /\ c.month = m /\ c.stage = "sent" /\ c.mine = TRUE
  BY <1>2, FetchCallType, Zenon
<1>4. d \in CostCalls /\ d.op = "sums" /\ d.want = S /\ d.month = m /\ d.stage = "sent" /\ d.mine = TRUE
  BY <1>2, FetchCallType, Zenon
<1> HIDE DEF c, d
<1>5. CallTyped(c) /\ CallTyped(d)
  BY <1>3, <1>4 DEF CallTyped
<1>6. PICK first : first = [before EXCEPT ![s] = c]
  OBVIOUS
<1>7. first \in [CostSlots -> CostCalls] /\ \A r \in CostSlots : CallTyped(first[r])
  BY <1>3, <1>5, <1>6, CallPut
<1>8. costCalls' = [first EXCEPT ![t] = d]
  BY <1>1, <1>6
<1>9. costCalls' \in [CostSlots -> CostCalls] /\ \A r \in CostSlots : CallTyped(costCalls'[r])
  BY <1>4, <1>5, <1>7, <1>8, CallPut
<1> QED BY <1>9 DEF SendFetches, CallsTyped, CallTyped

\* Where the page goes: its costs come for houses and a month that there are.
LEMMA GoingTyped ==
  ASSUME CostTyped, NEW t \in Targets, GoTo(t)
  PROVE  /\ CallsTyped' /\ PageTyped' /\ costs' \in StoreMaps /\ sums' \in SumMaps /\ saving' \in [Houses -> BOOLEAN]
         /\ t = TabTarget => edits' \in [Houses -> Edits] /\ pending' = NoTarget /\ asking' = FALSE
<1>1. /\ costCalls \in [CostSlots -> CostCalls] /\ \A s \in CostSlots : CallTyped(costCalls[s])
      /\ pickedHouses \in Picks /\ pickedHouses \in SUBSET Houses /\ month \in Months
      /\ costs \in StoreMaps /\ sums \in SumMaps /\ saving \in [Houses -> BOOLEAN]
      /\ NoRows \in StoreMaps /\ NoRows \in SumMaps
  BY PicksAre, CostConstants DEF CostTyped, CallsTyped, PageTyped, MapsTyped, EditTyped
<1>2. CASE t = TabTarget
  <2> DEFINE before == [s \in CostSlots |-> [costCalls[s] EXCEPT !.mine = (costCalls[s].op = "none")]]
  <2>1. /\ edits' = [h \in Houses |-> NoEdits] /\ saving' = [h \in Houses |-> FALSE] /\ pending' = NoTarget /\ asking' = FALSE
        /\ SendFetches(pickedHouses, month, before) /\ UNCHANGED <<pickedHouses, month, costs, sums>>
    BY <1>2 DEF GoTo, TabTarget
  <2>2. before \in [CostSlots -> CostCalls] /\ \A s \in CostSlots : CallTyped(before[s])
    <3> SUFFICES ASSUME NEW s \in CostSlots
                 PROVE  LET c == [costCalls[s] EXCEPT !.mine = (costCalls[s].op = "none")] IN
                        c \in CostCalls /\ CallTyped(c)
      OBVIOUS
    <3>1. PICK c \in CostCalls : c = costCalls[s] /\ CallTyped(c)
      BY <1>1
    <3>2. [c EXCEPT !.mine = (c.op = "none")] \in CostCalls
      BY DEF CostCalls
    <3>3. CallTyped([c EXCEPT !.mine = (c.op = "none")])
      BY <3>1 DEF CostCalls, CallTyped
    <3> QED BY <3>1, <3>2, <3>3
  <2> HIDE DEF before
  <2>3. CallsTyped' /\ loadingCosts' = TRUE
    BY <1>1, <2>1, <2>2, FetchesTyped
  <2> QED BY <1>1, <2>1, <2>3, CostConstants DEF PageTyped
<1>3. CASE t \in HouseTargets
  <2>1. PICK P \in Choices : t = [to |-> "houses", pickedHouses |-> P]
    BY <1>3 DEF HouseTargets
  <2>2. PICK S \in Picks : S = IF t.pickedHouses = {} THEN {FirstHouse} ELSE t.pickedHouses
    BY <2>1, PicksAre DEF Picks
  <2>3. /\ pickedHouses' = S /\ SendFetches(S, month, costCalls) /\ UNCHANGED <<month, saving>>
        /\ costs' = costs \/ costs' = NoRows
        /\ sums' = sums \/ sums' = NoRows
    BY <2>1, <2>2 DEF GoTo
  <2>4. CallsTyped' /\ loadingCosts' = TRUE
    BY <1>1, <2>3, PicksAre, FetchesTyped
  <2>5. t # TabTarget
    BY <2>1 DEF TabTarget
  <2> QED BY <1>1, <2>3, <2>4, <2>5 DEF PageTyped
<1>4. CASE t \in MonthTargets
  <2>1. PICK m \in Months : t = [to |-> "month", month |-> m]
    BY <1>4 DEF MonthTargets
  <2>2. month' = m /\ SendFetches(pickedHouses, m, costCalls) /\ UNCHANGED <<pickedHouses, saving, costs, sums>>
    BY <2>1 DEF GoTo
  <2>3. CallsTyped' /\ loadingCosts' = TRUE
    BY <1>1, <2>2, FetchesTyped
  <2>4. t # TabTarget
    BY <2>1 DEF TabTarget
  <2> QED BY <1>1, <2>2, <2>3, <2>4 DEF PageTyped
<1> QED BY <1>2, <1>3, <1>4 DEF Targets

-----------------------------------------------------------------------------
\* The steps of the user keep the types of the costs.
LEMMA StepCounts == ASSUME CostTyped, Step, awaits' = awaits PROVE steps' \in 0..MaxSteps
<1>1. steps \in 0..MaxSteps /\ MaxSteps \in Nat
  BY CostAssumption DEF CostTyped, RunTyped
<1> QED BY <1>1 DEF Step

LEMMA ChangeTyped == ASSUME CostTyped, NEW t \in Targets, Change(t) PROVE CostTyped'
<1>1. /\ Step /\ awaits' = awaits /\ costRows' = costRows /\ lostCosts' = lostCosts
  BY DEF Change
<1>2. RunTyped'
  BY <1>1, StepCounts DEF CostTyped, RunTyped
<1>3. CASE Dirty
  <2>1. /\ pending' = t /\ asking' = TRUE
        /\ UNCHANGED <<pickedHouses, month, costs, sums, loadingCosts, costCalls, edits, saving>>
    BY <1>3 DEF Change
  <2>2. CallsTyped' /\ PageTyped' /\ MapsTyped' /\ EditTyped'
    BY <1>1, <2>1 DEF CostTyped, CallsTyped, CallTyped, PageTyped, MapsTyped, EditTyped
  <2> QED BY <1>2, <2>2 DEF CostTyped
<1>4. CASE ~Dirty
  <2>1. GoTo(t) /\ (t # TabTarget => UNCHANGED <<edits, pending, asking>>)
    BY <1>4 DEF Change
  <2>2. /\ CallsTyped' /\ PageTyped' /\ costs' \in StoreMaps /\ sums' \in SumMaps /\ saving' \in [Houses -> BOOLEAN]
        /\ t = TabTarget => edits' \in [Houses -> Edits] /\ pending' = NoTarget /\ asking' = FALSE
    BY <2>1, GoingTyped
  <2>3. MapsTyped' /\ EditTyped'
    BY <1>1, <2>1, <2>2 DEF CostTyped, MapsTyped, EditTyped
  <2> QED BY <1>2, <2>2, <2>3 DEF CostTyped
<1> QED BY <1>3, <1>4

LEMMA DiscardTyped == ASSUME CostTyped, Step, NEW asks \in BOOLEAN, Discard(asks) PROVE CostTyped'
<1>1. /\ awaits' = awaits /\ costRows' = costRows /\ lostCosts' = lostCosts
      /\ edits' = [h \in Houses |-> NoEdits]
  BY DEF Discard
<1>2. RunTyped'
  BY <1>1, StepCounts DEF CostTyped, RunTyped
<1>3. edits' \in [Houses -> Edits]
  BY <1>1, CostConstants
<1>4. CASE pending = NoTarget
  <2>1. /\ UNCHANGED <<pickedHouses, month, costs, sums, loadingCosts, costCalls, saving, pending>>
        /\ asking' = asks
    BY <1>4 DEF Discard
  <2>2. CallsTyped' /\ PageTyped' /\ MapsTyped' /\ EditTyped'
    BY <1>1, <1>3, <2>1 DEF CostTyped, CallsTyped, CallTyped, PageTyped, MapsTyped, EditTyped
  <2> QED BY <1>2, <2>2 DEF CostTyped
<1>5. CASE pending # NoTarget
  <2>1. PICK t \in Targets : t = pending
    BY <1>5 DEF CostTyped, EditTyped
  <2>2. GoTo(t) /\ pending' = NoTarget /\ (t # TabTarget => asking' = asks)
    BY <1>5, <2>1 DEF Discard
  <2>3. /\ CallsTyped' /\ PageTyped' /\ costs' \in StoreMaps /\ sums' \in SumMaps /\ saving' \in [Houses -> BOOLEAN]
        /\ t = TabTarget => asking' = FALSE
    BY <2>2, GoingTyped
  <2>4. asking' \in BOOLEAN
    BY <2>2, <2>3
  <2>5. MapsTyped' /\ EditTyped'
    BY <1>1, <1>3, <2>2, <2>3, <2>4 DEF CostTyped, MapsTyped, EditTyped
  <2> QED BY <1>2, <2>3, <2>5 DEF CostTyped
<1> QED BY <1>4, <1>5

LEMMA TypeCostTyped == ASSUME CostTyped, NEW h \in Houses, NEW f \in Fields, TypeCost(h, f) PROVE CostTyped'
<1>1. /\ h \in DOMAIN costs /\ costs[h] # NoCost
      /\ UNCHANGED <<awaits, costRows, pickedHouses, month, costs, sums, loadingCosts, saving, pending, asking,
                     costCalls, steps, lostCosts>>
      /\ edits' = [edits EXCEPT ![h][f] = costs[h].month]
  BY DEF TypeCost, Shown, Table
<1>2. PICK m \in Months : m = costs[h].month
  <2>1. costs \in StoreMaps
    BY DEF CostTyped, MapsTyped
  <2> QED BY <1>1, <2>1, StoreMapIn DEF CostRecords
<1>3. edits \in [Houses -> Edits]
  BY DEF CostTyped, EditTyped
<1>4. PICK e \in Edits : e = [edits[h] EXCEPT ![f] = m]
  BY <1>3 DEF Edits
<1>5. edits' = [edits EXCEPT ![h] = e]
  BY <1>1, <1>2, <1>3, <1>4
<1>6. edits' \in [Houses -> Edits]
  BY <1>3, <1>5
<1>7. CallsTyped' /\ PageTyped' /\ MapsTyped' /\ EditTyped' /\ RunTyped'
  BY <1>1, <1>6 DEF CostTyped, CallsTyped, CallTyped, PageTyped, MapsTyped, EditTyped, RunTyped
<1> QED BY <1>7 DEF CostTyped

LEMMA SendTyped == ASSUME CostTyped, NEW h \in Houses, NEW e \in Edits, Send(h, e) PROVE CostTyped'
<1>1. /\ h \in DOMAIN costs /\ costs[h] # NoCost /\ Step
      /\ UNCHANGED <<awaits, costRows, pickedHouses, month, costs, sums, loadingCosts, edits, pending, asking, lostCosts>>
      /\ saving' = [saving EXCEPT ![h] = TRUE]
  BY DEF Send, Shown, Table
<1>2. costs[h] \in CostRecords /\ edits \in [Houses -> Edits] /\ saving' \in [Houses -> BOOLEAN]
  <2>1. costs \in StoreMaps
    BY DEF CostTyped, MapsTyped
  <2> QED BY <1>1, <2>1, StoreMapIn DEF CostTyped, EditTyped
<1>3. PICK m \in Months, k \in Costs : m = costs[h].month /\ k = costs[h].costs
  BY <1>2 DEF CostRecords
<1>4. PICK n \in Costs : n = Merged(k, e)
  BY <1>3, MergedType
<1> DEFINE c == [NoCostCall EXCEPT !.op = "update", !.home = h, !.month = m, !.edits = e, !.costs = n, !.typed = edits]
           s == FreeSlot({})
<1>5. costCalls' = [costCalls EXCEPT ![s] = c]
  BY <1>3, <1>4 DEF Send
<1>6. c \in CostCalls /\ c.month = m /\ c.stage = "sent"
  <2>1. [g \in Houses |-> NoEdits] \in [Houses -> Edits]
    BY CostConstants
  <2> QED BY <1>2, <1>3, <1>4, <2>1, CostConstants DEF NoCostCall, CostCalls
<1> HIDE DEF c, s
<1>7. CallTyped(c)
  BY <1>6 DEF CallTyped
<1>8. CallsTyped'
  BY <1>5, <1>6, <1>7, CallSent DEF CostTyped
<1>9. PageTyped' /\ MapsTyped' /\ EditTyped'
  BY <1>1, <1>2 DEF CostTyped, PageTyped, MapsTyped, EditTyped
<1>10. RunTyped'
  BY <1>1, StepCounts DEF CostTyped, RunTyped
<1> QED BY <1>8, <1>9, <1>10 DEF CostTyped

LEMMA CreateMonthTyped == ASSUME CostTyped, NEW h \in Houses, CreateMonthCost(h) PROVE CostTyped'
<1>1. Step /\ UNCHANGED <<awaits, costRows, pickedHouses, month, costs, sums, loadingCosts, edits, saving, pending,
                          asking, lostCosts>>
  BY DEF CreateMonthCost, editVars
<1>2. month \in Months
  BY DEF CostTyped, PageTyped
<1> DEFINE c == [NoCostCall EXCEPT !.op = "create", !.home = h, !.month = month]
           s == FreeSlot({})
<1>3. costCalls' = [costCalls EXCEPT ![s] = c]
  BY DEF CreateMonthCost
<1>4. c \in CostCalls /\ c.month = month /\ c.stage = "sent"
  <2>1. [g \in Houses |-> NoEdits] \in [Houses -> Edits]
    BY CostConstants
  <2> QED BY <1>2, <2>1, CostConstants DEF NoCostCall, CostCalls
<1>5. PICK k \in CostCalls : k = c
  BY <1>4
<1> HIDE DEF c, s
<1>6. CallTyped(k)
  BY <1>2, <1>4, <1>5 DEF CallTyped
<1>7. CallsTyped'
  <2>1. costCalls' = [costCalls EXCEPT ![s] = k]
    BY <1>3, <1>5
  <2> QED BY <1>6, <2>1, CallSent DEF CostTyped
<1>8. PageTyped' /\ MapsTyped' /\ EditTyped'
  BY <1>1 DEF CostTyped, PageTyped, MapsTyped, EditTyped
<1>9. RunTyped'
  BY <1>1, StepCounts DEF CostTyped, RunTyped
<1> QED BY <1>7, <1>8, <1>9 DEF CostTyped

\* The steps of the server and the answers keep them too.
LEMMA CallIs ==
  ASSUME CostTyped, NEW s \in CostSlots
  PROVE  costCalls[s] \in CostCalls /\ CallTyped(costCalls[s])
BY DEF CostTyped, CallsTyped

LEMMA ServeTyped == ASSUME CostTyped, NEW s \in CostSlots, ServeCosts(s) PROVE CostTyped'
<1>1. PICK c \in CostCalls : c = costCalls[s] /\ CallTyped(c)
  BY CallIs
<1>2. /\ c.op # "none" /\ c.month \in Months /\ c.home \in Houses /\ c.costs \in Costs /\ c.want \in SUBSET Houses
      /\ UNCHANGED <<awaits, pickedHouses, month, costs, sums, loadingCosts, edits, saving, pending, asking,
                     steps, lostCosts>>
  BY <1>1 DEF ServeCosts, CallTyped, CostCalls, editVars
<1>3. costRows \in [Houses \X Months -> Costs \cup {NoCost}]
  BY DEF CostTyped, MapsTyped
<1>4. costRows' \in [Houses \X Months -> Costs \cup {NoCost}]
  <2>1. \/ costRows' = costRows
        \/ \E k \in Costs : costRows' = [costRows EXCEPT ![<<c.home, c.month>>] = k]
    BY <1>1, <1>2, CostConstants DEF ServeCosts
  <2> QED BY <1>3, <2>1
<1>5. PICK r : r = CASE c.op = "costs" -> RowsOf(c.want, c.month)
                     [] c.op = "sums" -> SumsOf(c.want, c.month)
                     [] OTHER -> NoRows
  OBVIOUS
<1>6. /\ r \in StoreMaps \cup SumMaps
      /\ c.op = "costs" => r \in StoreMaps
      /\ c.op = "sums" => r \in SumMaps
  <2>1. RowsOf(c.want, c.month) \in StoreMaps
    BY <1>2, <1>3, RowsOfType
  <2>2. SumsOf(c.want, c.month) \in SumMaps
    BY <1>2, <1>3, SumsOfType
  <2>3. NoRows \in StoreMaps
    BY CostConstants
  <2> QED BY <1>5, <2>1, <2>2, <2>3
<1>7. costCalls' = [costCalls EXCEPT ![s].stage = "served", ![s].reply = r]
  BY <1>1, <1>5 DEF ServeCosts
<1> DEFINE d == [c EXCEPT !.stage = "served", !.reply = r]
<1>8. d \in CostCalls /\ d.op = c.op /\ d.month = c.month /\ d.reply = r
  BY <1>6 DEF CostCalls
<1>9. costCalls' = [costCalls EXCEPT ![s] = d]
  BY <1>1, <1>7 DEF CostTyped, CallsTyped
<1> HIDE DEF d
<1>10. CallTyped(d)
  BY <1>2, <1>6, <1>8 DEF CallTyped
<1>11. CallsTyped'
  BY <1>8, <1>9, <1>10, CallSent DEF CostTyped
<1>12. PageTyped' /\ MapsTyped' /\ EditTyped' /\ RunTyped'
  BY <1>2, <1>4 DEF CostTyped, PageTyped, MapsTyped, EditTyped, RunTyped
<1> QED BY <1>11, <1>12 DEF CostTyped

LEMMA FinishTyped == ASSUME CostTyped, NEW s, Finish(s) PROVE CallsTyped'
BY NoCallTyped, CallSent DEF CostTyped, Finish

LEMMA FetchedTyped ==
  ASSUME CostTyped, NEW s \in CostSlots, CostsFetched(s) \/ SumsFetched(s) PROVE CostTyped'
<1>1. CallsTyped'
  BY FinishTyped DEF CostsFetched, SumsFetched, Served
<1>2. CallTyped(costCalls[s])
  BY CallIs
<1>3. MapsTyped'
  BY <1>2 DEF CostTyped, MapsTyped, CostsFetched, SumsFetched, Served, CallTyped
<1>4. PageTyped' /\ EditTyped' /\ RunTyped'
  BY DEF CostTyped, PageTyped, EditTyped, RunTyped, CostsFetched, SumsFetched, editVars
<1> QED BY <1>1, <1>3, <1>4 DEF CostTyped

LEMMA CreatedTyped == ASSUME CostTyped, NEW s \in CostSlots, CostCreated(s) PROVE CostTyped'
<1>1. CallsTyped'
  BY FinishTyped DEF CostCreated, Served
<1>2. PICK h \in Houses, m \in Months : h = costCalls[s].home /\ m = costCalls[s].month
  BY CallIs DEF CostCreated, Served, CallTyped, CostCalls
<1>3. costs \in StoreMaps /\ sums \in SumMaps /\ [f \in Fields |-> 0] \in Costs
  BY CostConstants DEF CostTyped, MapsTyped
<1>4. PICK c \in Costs : c = [f \in Fields |-> 0]
  BY <1>3
<1>5. costs' = Kept(h, Record(m, c)) /\ sums' = Counted(<<h, m>>, c) /\ costRows' = costRows
  BY <1>2, <1>4 DEF CostCreated
<1>6. costs' \in StoreMaps
  BY <1>3, <1>5, KeptType
<1>7. sums' \in SumMaps
  <2>1. PICK x \in Houses \X Months : x = <<h, m>>
    OBVIOUS
  <2> QED BY <1>3, <1>5, <2>1, CountedType
<1>8. PageTyped' /\ MapsTyped' /\ EditTyped' /\ RunTyped'
  BY <1>5, <1>6, <1>7 DEF CostTyped, PageTyped, MapsTyped, EditTyped, RunTyped, CostCreated, editVars
<1> QED BY <1>1, <1>8 DEF CostTyped

LEMMA UpdatedTyped == ASSUME CostTyped, NEW s \in CostSlots, CostUpdated(s) PROVE CostTyped'
<1>1. CallsTyped'
  BY FinishTyped DEF CostUpdated, Served
<1>2. PICK c \in CostCalls : c = costCalls[s]
  BY CallIs
<1>3. PICK h \in Houses, e \in Edits : h = c.home /\ e = c.edits
  BY DEF CostCalls
<1>4. costs \in StoreMaps /\ sums \in SumMaps /\ c.typed \in [Houses -> Edits] /\ NoEdits \in Edits
      /\ edits \in [Houses -> Edits] /\ saving \in [Houses -> BOOLEAN]
  BY CostConstants DEF CostTyped, MapsTyped, EditTyped, CostCalls
<1>5. costs' \in StoreMaps /\ sums' \in SumMaps
  <2>1. CASE h \in DOMAIN costs /\ costs[h] # NoCost
    <3>1. PICK m \in Months, k \in Costs : m = costs[h].month /\ k = costs[h].costs
      BY <1>4, <2>1, StoreMapIn DEF CostRecords
    <3>2. PICK n \in Costs : n = Merged(k, e)
      BY MergedType
    <3>3. Record(m, n).month = m /\ Record(m, n).costs = n
      BY DEF Record
    <3>4. costs' = Kept(h, Record(m, n)) /\ sums' = Counted(<<h, m>>, n)
      BY <1>2, <1>3, <2>1, <3>1, <3>2, <3>3 DEF CostUpdated
    <3>5. PICK x \in Houses \X Months : x = <<h, m>>
      OBVIOUS
    <3>6. costs' \in StoreMaps
      BY <1>4, <3>4, KeptType
    <3>7. sums' \in SumMaps
      BY <1>4, <3>4, <3>5, CountedType
    <3> QED BY <3>6, <3>7
  <2>2. CASE ~(h \in DOMAIN costs /\ costs[h] # NoCost)
    <3>1. costs' = costs /\ sums' = sums
      BY <1>2, <1>3, <2>2 DEF CostUpdated
    <3> QED BY <1>4, <3>1
  <2> QED BY <2>1, <2>2
<1>6. edits' \in [Houses -> Edits]
  <2>1. edits' = IF c.mine THEN [c.typed EXCEPT ![h] = NoEdits] ELSE edits
    BY <1>2, <1>3 DEF CostUpdated
  <2> QED BY <1>4, <2>1
<1>7. saving' \in [Houses -> BOOLEAN]
  <2>1. saving' = IF c.mine THEN [saving EXCEPT ![h] = FALSE] ELSE saving
    BY <1>2, <1>3 DEF CostUpdated
  <2> QED BY <1>4, <2>1
<1>8. PageTyped' /\ MapsTyped' /\ EditTyped' /\ RunTyped'
  BY <1>5, <1>6, <1>7 DEF CostTyped, PageTyped, MapsTyped, EditTyped, RunTyped, CostUpdated
<1> QED BY <1>1, <1>8 DEF CostTyped

LEMMA FailsTyped == ASSUME CostTyped, NEW s \in CostSlots, CostCallFails(s) PROVE CostTyped'
<1>1. CallsTyped'
  BY FinishTyped DEF CostCallFails
<1>2. UNCHANGED <<awaits, costRows, pickedHouses, month, costs, sums, edits, pending, asking, steps>>
  BY DEF CostCallFails
<1>3. loadingCosts' \in BOOLEAN
  BY DEF CostCallFails
<1>4. saving' \in [Houses -> BOOLEAN]
  BY DEF CostCallFails, CostTyped, EditTyped
<1>5. lostCosts' \subseteq {"costs", "sums"}
  <2>1. lostCosts \subseteq {"costs", "sums"}
    BY DEF CostTyped, RunTyped
  <2>2. \/ lostCosts' = lostCosts \cup {costCalls[s].op} /\ costCalls[s].op \in {"costs", "sums"}
        \/ lostCosts' = lostCosts \cup {"costs", "sums"}
        \/ lostCosts' = lostCosts \cup {}
    BY DEF CostCallFails
  <2> QED BY <2>1, <2>2
<1>6. PageTyped' /\ MapsTyped' /\ EditTyped' /\ RunTyped'
  BY <1>2, <1>3, <1>4, <1>5 DEF CostTyped, PageTyped, MapsTyped, EditTyped, RunTyped
<1> QED BY <1>1, <1>6 DEF CostTyped

LEMMA CostTypedStep == CostTyped /\ [CostNext]_costVars => CostTyped'
<1> SUFFICES ASSUME CostTyped, [CostNext]_costVars PROVE CostTyped'
  OBVIOUS
<1>1. CASE UNCHANGED costVars
  BY <1>1 DEF costVars, CostTyped, CallsTyped, CallTyped, PageTyped, MapsTyped, EditTyped, RunTyped
<1>2. CASE CostNext
  <2>1. ASSUME HandleHouses \/ HandlePeriodChange \/ InterceptTab PROVE CostTyped'
    <3>1. PICK t \in Targets : Change(t)
      BY <2>1 DEF HandleHouses, HandlePeriodChange, InterceptTab, Targets
    <3> QED BY <3>1, ChangeTyped
  <2>2. ASSUME Confirm PROVE CostTyped'
    BY <2>2, DiscardTyped DEF Confirm
  <2>3. ASSUME Decline PROVE CostTyped'
    BY <2>3 DEF Decline, CostTyped, CallsTyped, CallTyped, PageTyped, MapsTyped, EditTyped, RunTyped
  <2>4. ASSUME Escape PROVE CostTyped'
    <3>1. CASE Dirty
      <4>1. /\ UNCHANGED <<awaits, costRows, pickedHouses, month, costs, sums, loadingCosts, edits, saving, pending,
                           costCalls, lostCosts>>
            /\ asking' = TRUE /\ Step
        BY <2>4, <3>1 DEF Escape
      <4>2. RunTyped'
        BY <4>1, StepCounts DEF CostTyped, RunTyped
      <4>3. CallsTyped' /\ PageTyped' /\ MapsTyped' /\ EditTyped'
        BY <4>1 DEF CostTyped, CallsTyped, CallTyped, PageTyped, MapsTyped, EditTyped
      <4> QED BY <4>2, <4>3 DEF CostTyped
    <3>2. CASE ~Dirty
      BY <2>4, <3>2, DiscardTyped DEF Escape
    <3> QED BY <3>1, <3>2
  <2>5. ASSUME NEW h \in Houses, SaveCost(h) PROVE CostTyped'
    <3>1. PICK e \in Edits : e = edits[h] /\ Send(h, e)
      BY <2>5 DEF SaveCost, CostTyped, EditTyped
    <3> QED BY <3>1, SendTyped
  <2>6. ASSUME NEW h \in Houses, NEW f \in Fields, RemoveExtraCost(h, f) PROVE CostTyped'
    <3>1. edits[h] \in [Fields -> Months \cup {0, Untyped}]
      BY DEF CostTyped, EditTyped, Edits
    <3>2. PICK e : e = [edits[h] EXCEPT ![f] = 0]
      OBVIOUS
    <3>3. e \in Edits /\ Send(h, e)
      BY <2>6, <3>1, <3>2 DEF RemoveExtraCost, Edits
    <3> QED BY <3>3, SendTyped
  <2>7. ASSUME NEW h \in Houses, CreateMonthCost(h) PROVE CostTyped'
    BY <2>7, CreateMonthTyped
  <2>8. ASSUME NEW h \in Houses, NEW f \in Fields, TypeCost(h, f) PROVE CostTyped'
    BY <2>8, TypeCostTyped
  <2>9. ASSUME NEW s \in CostSlots,
               ServeCosts(s) \/ CostsFetched(s) \/ SumsFetched(s) \/ CostCreated(s) \/ CostUpdated(s) \/ CostCallFails(s)
        PROVE  CostTyped'
    BY <2>9, ServeTyped, FetchedTyped, CreatedTyped, UpdatedTyped, FailsTyped
  <2> QED BY <1>2, <2>1, <2>2, <2>3, <2>4, <2>5, <2>6, <2>7, <2>8, <2>9 DEF CostNext
<1> QED BY <1>1, <1>2

-----------------------------------------------------------------------------
(* Every page, of any user.                                                   *)

PagesInv ==
  /\ page \in Pages /\ DeskInv /\ DeskTyped /\ TickInv /\ FormInv /\ StoreInv /\ CostTyped

LEMMA PagesInvInit == Init => PagesInv
<1>1. Init => page \in Pages
  BY DEF Init
<1> QED BY <1>1, PartsInit, DeskInvInit, DeskTypedInit, TickInvInit, FormInvInit, StoreInvInit, CostTypedInit DEF PagesInv

LEMMA PagesInvStep == PagesInv /\ [Next]_vars => PagesInv'
<1> SUFFICES ASSUME PagesInv, [Next]_vars PROVE PagesInv'
  OBVIOUS
<1>1. page' \in Pages
  BY DEF PagesInv, Next, vars
<1>2. DeskInv' /\ DeskTyped'
  BY PartsStep, DeskInvStep, DeskTypedStep DEF PagesInv
<1>3. TickInv'
  BY PartsStep, TickInvStep DEF PagesInv
<1>4. FormInv'
  BY PartsStep, FormInvStep DEF PagesInv
<1>5. StoreInv'
  BY PartsStep, StoreInvStep DEF PagesInv
<1>6. CostTyped'
  BY PartsStep, CostTypedStep DEF PagesInv
<1> QED BY <1>1, <1>2, <1>3, <1>4, <1>5, <1>6 DEF PagesInv

LEMMA PagesTypesHold == PagesInv => TypeOK
<1> SUFFICES ASSUME PagesInv PROVE TypeOK
  OBVIOUS
<1>1. page \in Pages /\ DeskTypeOK /\ CostTypeOK
  BY DeskTypesHold, CostTypesHold DEF PagesInv
<1>2. QuickTypeOK /\ FormTypeOK
  BY DEF PagesInv, TickInv, FormInv
<1>3. StoreTypeOK
  <2>1. StoreTypes
    BY DEF PagesInv, StoreInv
  <2>2. ASSUME NEW s \in Slots
        PROVE  /\ storeCalls[s].op \in {"none", "fetch", "create", "update", "delete"}
               /\ storeCalls[s].home \in StoreHouses /\ storeCalls[s].stage \in {"sent", "served"}
               /\ storeCalls[s].before \in Seq(Entries) /\ storeCalls[s].reply \in Seq(Entries)
    <3>1. storeCalls[s] \in StoreCalls
      BY <2>1 DEF StoreTypes
    <3> QED BY <3>1 DEF StoreCalls
  <2> QED BY <2>1, <2>2 DEF StoreTypes, StoreTypeOK
<1> QED BY <1>1, <1>2, <1>3 DEF TypeOK

(* Whatever a user does, waiting or not, and whatever is answered late or     *)
(* lost, the pages hold values of their types: the list sends only filters    *)
(* there are and never more requests than its bound, the sheet's readings     *)
(* belong to rooms and periods, a late answer puts no other page's data into  *)
(* a store, and the costs kept are of the houses and months there are.        *)
THEOREM PagesTypes == Spec => []TypeOK
<1>1. Init => PagesInv
  BY PagesInvInit
<1>2. PagesInv /\ [Next]_vars => PagesInv'
  BY PagesInvStep
<1>3. PagesInv => TypeOK
  BY PagesTypesHold
<1> HIDE DEF PagesInv, Init, Next, vars, TypeOK
<1> QED BY <1>1, <1>2, <1>3, PTL DEF Spec
=============================================================================
