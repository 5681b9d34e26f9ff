---------------------------- MODULE InvoiceDesk ----------------------------
(* The invoice screen (InvoicesView) over its store (useInvoiceStore): a list *)
(* loaded for the current filter, payments shown before the server has made   *)
(* them, and the detail and edit forms of the row that was clicked.           *)
EXTENDS Integers, Sequences, FiniteSets

CONSTANTS
  Invoices,   \* rows, named by the room and period an upsert finds them by
  HouseOf,    \* the house of each row
  NoInvoice,
  Every,        \* the empty value of a filter
  Filters,    \* the filters the user sets, the empty one among them
  MaxCalls,   \* bound on the requests that are under way or behind
  MaxHurried  \* bound on the requests of a user who does not wait

Statuses == {"UNPAID", "PAID"}
Lists == UNION {[S -> Statuses] : S \in SUBSET Invoices}
Empty == [i \in {} |-> "UNPAID"]
NoFilter == [house |-> Every, status |-> Every]

ASSUME DeskAssumption ==
  /\ NoInvoice \notin Invoices /\ MaxCalls \in Nat \ {0} /\ MaxHurried \in Nat /\ NoFilter \in Filters
  /\ Filters \subseteq [house : {HouseOf[i] : i \in Invoices} \cup {Every}, status : Statuses \cup {Every}]

VARIABLES
  alone,      \* the user awaits every answer, and nobody else changes invoices
  hurried,    \* the requests so far of a user who does not
  rows,       \* the table on the server
  filter,     \* invoiceFilter
  list,       \* invoices: the rows the store holds
  loading,    \* isLoading
  calls,      \* the requests under way
  picked,     \* selectedInvoiceId
  editing,    \* showEditModal
  missed      \* history: the user alone missed an answer that nothing has made up for

deskVars == <<alone, hurried, rows, filter, list, loading, calls, picked, editing, missed>>

NoCall == [kind |-> "none", id |-> NoInvoice, want |-> NoFilter, before |-> Empty, reply |-> Empty,
           stage |-> "sent", mine |-> FALSE]

DeskTypeOK ==
  /\ alone \in BOOLEAN /\ hurried \in 0..MaxHurried /\ rows \in [Invoices -> Statuses \cup {"gone"}]
  /\ filter \in Filters /\ list \in Lists /\ loading \in BOOLEAN
  /\ calls \in Seq([kind : {"none", "fetch", "pay", "unpay", "delete", "save", "refresh"},
                    id : Invoices \cup {NoInvoice}, want : Filters, before : Lists, reply : Lists,
                    stage : {"sent", "served", "refused"}, mine : BOOLEAN])
  /\ Len(calls) <= MaxCalls
  /\ picked \in Invoices \cup {NoInvoice} /\ editing \in BOOLEAN /\ missed \in BOOLEAN

Under == {n \in DOMAIN calls : calls[n].kind # "none"}
Waiting == {n \in Under : calls[n].kind \in {"fetch", "refresh"}}

\* a query that forgets that rows are deleted
MatchingDeleted(f) ==
  [i \in {i \in Invoices : f.house \in {Every, HouseOf[i]} /\ f.status \in {Every, rows[i]}} |-> rows[i]]

Matching(f) ==
  [i \in {i \in Invoices : /\ rows[i] # "gone" /\ f.house \in {Every, HouseOf[i]}
                           /\ f.status \in {Every, rows[i]}} |-> rows[i]]

\* The view fetches when it is first shown.
DeskInit ==
  /\ alone \in BOOLEAN /\ hurried = 0
  /\ rows \in [Invoices -> Statuses]
  /\ filter = NoFilter /\ list = Empty /\ loading = TRUE
  /\ calls = <<[NoCall EXCEPT !.kind = "fetch"]>>
  /\ picked = NoInvoice /\ editing = FALSE /\ missed = FALSE

\* The modal on screen: of the picked row, while the list has it.
Modal(shown, id, edit) == IF id \notin DOMAIN shown THEN "none" ELSE IF edit THEN "edit" ELSE "detail"
Open == Modal(list, picked, editing)

\* A modal that closes, or changes, no longer hears of its requests.
Heard(cs, shown, id, edit) ==
  IF Modal(shown, id, edit) = Open /\ id = picked THEN cs
  ELSE [n \in DOMAIN cs |-> [cs[n] EXCEPT !.mine = FALSE]]

Patient == alone => Under = {}
Acts(k) ==
  /\ Len(calls) + k <= MaxCalls /\ Patient /\ hurried < MaxHurried
  /\ hurried' = IF alone THEN hurried ELSE hurried + 1
Fetch(f) == [NoCall EXCEPT !.kind = "fetch", !.want = f]

\* setInvoiceFilter, then fetchInvoices; choosing a house also selects it, and
\* the effect on the selected house fetches a second time.
SetFilter(f) ==
  /\ f # filter
  /\ LET k == IF f.house # filter.house THEN 2 ELSE 1 IN
     /\ Acts(k) /\ calls' = calls \o [j \in 1..k |-> Fetch(f)]
  /\ Open = "none" /\ filter' = f /\ loading' = TRUE
  /\ UNCHANGED <<alone, rows, list, picked, editing, missed>>

\* A click on a row, or on its pencil; a loading list shows no rows.
OpenRow(i, edit) ==
  /\ Patient /\ Open = "none" /\ ~loading /\ i \in DOMAIN list
  /\ picked' = i /\ editing' = (edit \/ editing)
  /\ UNCHANGED <<alone, hurried, rows, filter, list, loading, calls, missed>>

EditFromDetail ==
  /\ Patient /\ Open = "detail" /\ list[picked] = "UNPAID"
  /\ editing' = TRUE /\ calls' = Heard(calls, list, picked, TRUE)
  /\ UNCHANGED <<alone, hurried, rows, filter, list, loading, picked, missed>>

CloseModal ==
  /\ Patient /\ Open # "none"
  /\ picked' = NoInvoice /\ editing' = FALSE
  /\ calls' = Heard(calls, list, NoInvoice, FALSE)
  /\ UNCHANGED <<alone, hurried, rows, filter, list, loading, missed>>

\* isPaying, isSubmitting: the open modal's own request is under way.
Busy == \E n \in Under : calls[n].mine

Pay(kind) ==
  /\ Acts(1) /\ Open = "detail" /\ ~Busy
  /\ list[picked] = IF kind = "pay" THEN "UNPAID" ELSE "PAID"
  /\ list' = [list EXCEPT ![picked] = IF kind = "pay" THEN "PAID" ELSE "UNPAID"]
  /\ calls' = Append(calls, [NoCall EXCEPT !.kind = kind, !.id = picked, !.before = list, !.mine = TRUE])
  /\ UNCHANGED <<alone, rows, filter, loading, picked, editing, missed>>

\* handleDelete, confirmed
Delete(i) ==
  /\ Acts(1) /\ Open = "none" /\ ~loading /\ i \in DOMAIN list /\ list[i] # "PAID"
  /\ calls' = Append(calls, [NoCall EXCEPT !.kind = "delete", !.id = i])
  /\ UNCHANGED <<alone, rows, filter, list, loading, picked, editing, missed>>

\* EditInvoiceModal.onSubmit
SaveEdit ==
  /\ Acts(1) /\ Open = "edit" /\ ~Busy
  /\ calls' = Append(calls, [NoCall EXCEPT !.kind = "save", !.id = picked, !.mine = TRUE])
  /\ UNCHANGED <<alone, rows, filter, list, loading, picked, editing, missed>>

-----------------------------------------------------------------------------
\* The server's answers: PayInvoice, UnpayInvoice, DeleteInvoice, CreateInvoice
Accepts(c) == CASE c.kind \in {"fetch", "refresh"} -> TRUE
                [] c.kind \in {"pay", "delete"} -> rows[c.id] = "UNPAID"
                [] c.kind = "unpay" -> rows[c.id] = "PAID"
                [] c.kind = "save" -> rows[c.id] # "PAID"

Written(c) == CASE c.kind = "pay" -> "PAID" [] c.kind \in {"unpay", "save"} -> "UNPAID" [] c.kind = "delete" -> "gone"

Serve(n) ==
  LET c == calls[n] IN
  /\ n \in Under /\ c.stage = "sent"
  /\ IF ~Accepts(c)
     THEN calls' = [calls EXCEPT ![n].stage = "refused"] /\ UNCHANGED rows
     ELSE IF c.kind \in {"fetch", "refresh"}
     THEN /\ calls' = [calls EXCEPT ![n].stage = "served", ![n].reply = Matching(c.want)]
          /\ UNCHANGED rows
     ELSE /\ calls' = [calls EXCEPT ![n].stage = "served"]
          /\ rows' = [rows EXCEPT ![c.id] = Written(c)]
  /\ UNCHANGED <<alone, hurried, filter, list, loading, picked, editing, missed>>

\* Another session, or a transfer, settles an invoice.
PaidElsewhere(i) ==
  /\ ~alone /\ rows[i] = "UNPAID"
  /\ rows' = [rows EXCEPT ![i] = "PAID"]
  /\ UNCHANGED <<alone, hurried, filter, list, loading, calls, picked, editing, missed>>

\* Requests behind the last one under way leave no trace.
Trim(cs) == LET live == {n \in DOMAIN cs : cs[n].kind # "none"}
                top == IF live = {} THEN 0 ELSE CHOOSE n \in live : \A m \in live : m <= n
            IN  SubSeq(cs, 1, top)
Without(n) == Trim([calls EXCEPT ![n] = NoCall])

\* The edit form's onClose is the view's: it closes whichever form is open.
Closes(c) == c.kind = "refresh" /\ c.id # NoInvoice

FetchEnds(n, shown, lost) ==
  LET id == IF Closes(calls[n]) THEN NoInvoice ELSE picked
      edit == IF Closes(calls[n]) THEN FALSE ELSE editing IN
  /\ list' = shown /\ loading' = FALSE /\ picked' = id /\ editing' = edit
  /\ calls' = Heard(Without(n), shown, id, edit)
  /\ missed' = (alone /\ lost)
  /\ UNCHANGED <<alone, hurried, rows, filter>>

FetchAnswered(n) ==
  /\ n \in Waiting /\ calls[n].stage = "served"
  /\ FetchEnds(n, calls[n].reply, FALSE)

FetchFails(n) == n \in Waiting /\ FetchEnds(n, list, TRUE)

\* The server has written, and the user who awaits this does not learn of it.
AnswerLost(n) == alone /\ calls[n].stage = "served"

PayAnswered(n) ==
  /\ n \in Under \ Waiting /\ calls[n].kind \in {"pay", "unpay"} /\ calls[n].stage = "served"
  /\ calls' = Without(n)
  /\ UNCHANGED <<alone, hurried, rows, filter, list, loading, picked, editing, missed>>

\* a failed payment that stays on screen
PayFailsShown(n) ==
  /\ n \in Under \ Waiting /\ calls[n].kind \in {"pay", "unpay"}
  /\ calls' = Without(n) /\ missed' = (missed \/ AnswerLost(n))
  /\ UNCHANGED <<alone, hurried, rows, filter, list, loading, picked, editing>>

\* Rollback: the whole list as it was when the payment started.
PayFails(n) ==
  /\ n \in Under \ Waiting /\ calls[n].kind \in {"pay", "unpay"}
  /\ list' = calls[n].before
  /\ calls' = Heard(Without(n), list', picked, editing)
  /\ missed' = (missed \/ AnswerLost(n))
  /\ UNCHANGED <<alone, hurried, rows, filter, loading, picked, editing>>

\* deleteInvoice, updateInvoice: the list is fetched again, then the form closes.
ChangeAnswered(n) ==
  LET c == calls[n] IN
  /\ n \in Under \ Waiting /\ c.kind \in {"delete", "save"} /\ c.stage = "served"
  /\ calls' = [calls EXCEPT ![n] = [Fetch(filter) EXCEPT !.kind = "refresh", !.mine = c.mine,
                                    !.id = IF c.kind = "save" THEN c.id ELSE NoInvoice]]
  /\ loading' = TRUE
  /\ UNCHANGED <<alone, hurried, rows, filter, list, picked, editing, missed>>

ChangeFails(n) ==
  /\ n \in Under \ Waiting /\ calls[n].kind \in {"delete", "save"}
  /\ calls' = Without(n) /\ missed' = (missed \/ AnswerLost(n))
  /\ UNCHANGED <<alone, hurried, rows, filter, list, loading, picked, editing>>

DeskNext ==
  \/ \E f \in Filters : SetFilter(f)
  \/ \E i \in Invoices : Delete(i) \/ PaidElsewhere(i) \/ \E edit \in BOOLEAN : OpenRow(i, edit)
  \/ EditFromDetail
  \/ CloseModal
  \/ \E kind \in {"pay", "unpay"} : Pay(kind)
  \/ SaveEdit
  \/ \E n \in DOMAIN calls :
       \/ Serve(n) \/ FetchAnswered(n) \/ FetchFails(n) \/ PayAnswered(n) \/ PayFails(n)
       \/ ChangeAnswered(n) \/ ChangeFails(n)

-----------------------------------------------------------------------------
(* The spinner that hides the rows awaits a request: whatever overlaps and    *)
(* whatever fails, fetchInvoices leaves no spinner behind.                    *)
SpinnerHasFetch == loading => Waiting # {}

(* A user who awaits each answer sees the server's rows: with nothing under   *)
(* way and no answer lost, every listed row has the status it has on the      *)
(* server, whatever was paid, undone, refused, saved or deleted before, and   *)
(* every row the filter asks for is listed.                                   *)
ListIsServer ==
  alone /\ Under = {} /\ ~missed =>
    /\ \A i \in DOMAIN list : list[i] = rows[i]
    /\ DOMAIN Matching(filter) \subseteq DOMAIN list

(* The edit form is open because its row's pencil or its "edit" was pressed:  *)
(* showEditModal does not outlive the row it was set for.                     *)
EditHasRow == alone /\ editing => picked \in DOMAIN list

(* The list shows the server's rows and keeps no form of a row that is gone.  *)
ListHolds == ListIsServer /\ SpinnerHasFetch /\ EditHasRow
=============================================================================
