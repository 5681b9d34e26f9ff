--------------------------- MODULE InvoiceEditing ---------------------------
(* The handlers that change an invoice on the manager's behalf: CreateInvoice *)
(* (an upsert by room and period, also used by the Zalo commands and by the   *)
(* recalculations), PayInvoice, UnpayInvoice and DeleteInvoice, and the Zalo  *)
(* transaction-image flow.  Each reads a row, decides on that copy and writes *)
(* later without checking that the row is still the one it read.              *)
EXTENDS InvoiceStore

CONSTANT Editors   \* request goroutines

VARIABLE edits     \* what each editor is about to write

editVars == <<edits>>

EditStages == {"idle", "upsert", "insert", "update", "stale", "status", "delete"}

Edits == [pc : EditStages,
          slot : Nat,                       \* (room, period) to upsert
          invoice : Invoices \cup {None},
          row : InvoiceRows]                \* the values it will write

NoEdit == [pc |-> "idle", slot |-> 0, invoice |-> None, row |-> NoInvoiceRow]

EditingTypeOK == edits \in [Editors -> Edits]
EditingInit == edits = [e \in Editors |-> NoEdit]

\* A bill as CreateInvoice computes it (lines 193-215): always UNPAID, without
\* payment method.
Bill(a) == [status |-> "UNPAID", method |-> "none", total |-> a]

Goto(e, pc, i, row) ==
  edits' = [edits EXCEPT ![e] = [pc |-> pc, slot |-> 0, invoice |-> i, row |-> row]]

Begin(e, pc, i, row) ==
  /\ edits[e].pc = "idle"
  /\ Goto(e, pc, i, row)
  /\ UNCHANGED storeVars

End(e) == edits' = [edits EXCEPT ![e] = NoEdit]

\* Ids never used for a row, nor generated by a request that is still running.
FreshIds(s) == {i \in Invoices : /\ invoices[i].status = "none"
                                 /\ SlotOf[i] = s
                                 /\ \A e \in Editors : edits[e].invoice # i}

-----------------------------------------------------------------------------
(* Reads that admit a write.                                                 *)

\* Mutant: a PAID row is overwritten like any other.
UpsertPaid(e, s, a) ==
  \/ \E i \in InSlot(s) : Goto(e, "update", i, Bill(a))
  \/ InSlot(s) = {} /\ \E i \in FreshIds(s) : Goto(e, "insert", i, Bill(a))

\* CreateInvoice looks the period up (lines 217-235): a PAID row is refused,
\* another is overwritten, and with none a row is inserted under a fresh id.
Upsert(e, s, a) ==
  \/ \E i \in InSlot(s) : invoices[i].status # "PAID" /\ Goto(e, "update", i, Bill(a))
  \/ \E i \in InSlot(s) : invoices[i].status = "PAID" /\ End(e)
  \/ InSlot(s) = {} /\ \E i \in FreshIds(s) : Goto(e, "insert", i, Bill(a))

BeginCreate(e, s, a) ==
  /\ edits[e].pc = "idle"
  /\ Upsert(e, s, a)
  /\ UNCHANGED storeVars

\* RecalculateUnpaidInvoicesByRoom copies an UNPAID row's readings, to upsert
\* it with today's prices.
BeginRecalculate(e, i, a) ==
  /\ edits[e].pc = "idle"
  /\ invoices[i].status = "UNPAID"
  /\ edits' = [edits EXCEPT ![e] = [pc |-> "upsert", slot |-> SlotOf[i],
                                    invoice |-> None, row |-> Bill(a)]]
  /\ UNCHANGED storeVars

Recalculate(e) ==
  /\ edits[e].pc = "upsert"
  /\ Upsert(e, edits[e].slot, edits[e].row.total)
  /\ UNCHANGED storeVars

\* processTransactionImage reads the room's latest UNPAID invoice; the whole
\* row is written back after the image has been downloaded.
BeginImage(e, i) ==
  /\ invoices[i].status = "UNPAID"
  /\ \A j \in Invoices : invoices[j].status = "UNPAID" => SlotOf[j] <= SlotOf[i]
  /\ Begin(e, "update", i, [invoices[i] EXCEPT !.status = "PENDING_VERIFICATION"])

BeginPay(e, i) ==
  /\ InvoiceExists(i)
  /\ invoices[i].status # "PAID"
  /\ Begin(e, "status", i, [NoInvoiceRow EXCEPT !.status = "PAID"])

BeginUnpay(e, i) ==
  /\ InvoiceExists(i)
  /\ invoices[i].status # "UNPAID"
  /\ Begin(e, "status", i, [NoInvoiceRow EXCEPT !.status = "UNPAID"])

BeginDelete(e, i) ==
  /\ InvoiceExists(i)
  /\ invoices[i].status # "PAID"
  /\ Begin(e, "delete", i, NoInvoiceRow)

-----------------------------------------------------------------------------
(* Writes.                                                                   *)

InsertInvoice(e) ==
  /\ edits[e].pc = "insert"
  /\ InsertInvoiceRow(edits[e].invoice, edits[e].row)
  /\ End(e)
  /\ UNCHANGED <<links, events, credentials, faults>>

\* uq_invoices_room_period: a concurrent request was first.
InsertDuplicate(e) ==
  /\ edits[e].pc = "insert"
  /\ InSlot(SlotOf[edits[e].invoice]) # {}
  /\ End(e)
  /\ UNCHANGED storeVars

\* UpdateInvoice, first statement.
UpdateInvoice(e) ==
  /\ edits[e].pc = "update"
  /\ InvoiceExists(edits[e].invoice)
  /\ UpdateInvoiceRow(edits[e].invoice, edits[e].row)
  /\ edits' = [edits EXCEPT ![e].pc = "stale"]
  /\ UNCHANGED <<links, events, credentials, faults>>

\* UpdateInvoice, second statement.
MarkLinksStale(e) ==
  /\ edits[e].pc = "stale"
  /\ MarkStaleByAmount(edits[e].invoice, edits[e].row.total)
  /\ End(e)
  /\ UNCHANGED <<invoices, events, credentials, faults>>

ChangeStatus(e) ==
  /\ edits[e].pc = "status"
  /\ InvoiceExists(edits[e].invoice)
  /\ UpdateInvoiceStatus(edits[e].invoice, edits[e].row.status)
  /\ End(e)
  /\ UNCHANGED <<links, events, credentials, faults>>

DeleteInvoice(e) ==
  /\ edits[e].pc = "delete"
  /\ InvoiceExists(edits[e].invoice)
  /\ DeleteInvoiceRow(edits[e].invoice)
  /\ End(e)
  /\ UNCHANGED <<credentials, faults>>

\* No row has the id any more: ErrInvoiceNotFound.
TargetGone(e) ==
  /\ edits[e].pc \in {"update", "status", "delete"}
  /\ ~InvoiceExists(edits[e].invoice)
  /\ End(e)
  /\ UNCHANGED storeVars

\* A statement fails or the process is lost between two of them.
EditFails(e) ==
  /\ edits[e].pc # "idle"
  /\ Fault
  /\ End(e)
  /\ UNCHANGED <<invoices, links, events, credentials>>

-----------------------------------------------------------------------------
EditingNext ==
  \/ \E e \in Editors, s \in Slots, a \in Amounts : BeginCreate(e, s, a)
  \/ \E e \in Editors, i \in Invoices, a \in Amounts : BeginRecalculate(e, i, a)
  \/ \E e \in Editors : Recalculate(e)
  \/ \E e \in Editors, i \in Invoices : BeginImage(e, i)
  \/ \E e \in Editors, i \in Invoices : BeginPay(e, i)
  \/ \E e \in Editors, i \in Invoices : BeginUnpay(e, i)
  \/ \E e \in Editors, i \in Invoices : BeginDelete(e, i)
  \/ \E e \in Editors : InsertInvoice(e) \/ InsertDuplicate(e)
  \/ \E e \in Editors : UpdateInvoice(e) \/ MarkLinksStale(e)
  \/ \E e \in Editors : ChangeStatus(e) \/ DeleteInvoice(e)
  \/ \E e \in Editors : TargetGone(e)
  \/ \E e \in Editors : EditFails(e)
=============================================================================
