---------------------------- MODULE InvoiceStore ----------------------------
(* The Postgres tables behind the billing services, and the SQL statements   *)
(* that read and write them.  No handler runs more than one statement in a   *)
(* transaction, so each statement is one atomic step and everything between  *)
(* two statements of a handler may interleave with any other handler.        *)
(*                                                                           *)
(* One manager's data is modelled: the "owned by manager" clauses of the     *)
(* queries are true of every row.  An invoice id is a fresh UUID, never used *)
(* twice; a (room, period) pair is a slot, and a slot holds at most one row. *)
EXTENDS Integers, FiniteSets

CONSTANTS
  Invoices,    \* invoice ids
  SlotOf,      \* the (room, period) an invoice id would be stored under
  Refs,        \* provider order references a payment link can carry
  ProviderOf,  \* the provider each reference belongs to
  Transfers,   \* bank transfers tenants may make
  Amounts,     \* invoice totals and transferred amounts, in VND
  HasFallbackPayOS,  \* app-level PayOS credentials are configured
  MaxFaults,   \* bound on injected failures (database error, lost process)
  None         \* no invoice, no transfer, no reference

Providers == {"payos", "sepay"}
Methods == Providers \cup {"none"}
Sources == {"webhook", "reconcile"}
InvoiceStatus == {"UNPAID", "PENDING_VERIFICATION", "PAID"}
LinkStatus == {"ACTIVE", "STALE", "PAID"}
Slots == {SlotOf[i] : i \in Invoices}

ASSUME StoreAssumption ==
  /\ SlotOf \in [Invoices -> Nat]
  /\ ProviderOf \in [Refs -> Providers]
  /\ Amounts \subseteq Nat \ {0}
  /\ IsFiniteSet(Refs)
  /\ HasFallbackPayOS \in BOOLEAN
  /\ MaxFaults \in Nat
  /\ None \notin Invoices \cup Refs \cup Transfers

VARIABLES
  invoices,     \* invoices: by id; "none" before the insert, "deleted" after
  links,        \* invoice_payment_links: by provider order reference
  events,       \* payment_events
  credentials,  \* payment_provider_credentials: account version, 0 if inactive
  faults        \* failures injected so far

storeVars == <<invoices, links, events, credentials, faults>>

-----------------------------------------------------------------------------
(* Rows.                                                                     *)

InvoiceRows == [status : InvoiceStatus \cup {"none", "deleted"},
                method : Methods, total : Nat]

LinkRows == [status : LinkStatus \cup {"none"},
             invoice : Invoices \cup {None},
             amount : Nat,      \* VND the payer is asked for
             account : Nat,     \* credential version the QR was built from
             created : Nat]     \* created_at: position among the invoice's links

EventRows == [ref : Refs, transfer : Transfers, source : Sources,
              invoice : Invoices \cup {None}, amount : Nat]

NoInvoiceRow == [status |-> "none", method |-> "none", total |-> 0]

NoLinkRow == [status |-> "none", invoice |-> None, amount |-> 0,
              account |-> 0, created |-> 0]

StoreTypeOK ==
  /\ invoices \in [Invoices -> InvoiceRows]
  /\ links \in [Refs -> LinkRows]
  /\ events \subseteq EventRows
  /\ credentials \in [Providers -> Nat]
  /\ faults \in 0..MaxFaults

InvoiceExists(i) == invoices[i].status \in InvoiceStatus
LinkExists(r) == links[r].status \in LinkStatus
LinksOf(i) == {r \in Refs : LinkExists(r) /\ links[r].invoice = i}

-----------------------------------------------------------------------------
(* Reads.                                                                    *)

\* GetInvoiceByRoomAndPeriod: the ids found under a slot, at most one.
InSlot(s) == {i \in Invoices : InvoiceExists(i) /\ SlotOf[i] = s}

\* GetActivePaymentLinkByProvider: the latest ACTIVE link, if any.
ActiveLinks(i, p) ==
  {r \in LinksOf(i) : ProviderOf[r] = p /\ links[r].status = "ACTIVE"}
LatestActive(i, p) ==
  {r \in ActiveLinks(i, p) :
     \A q \in ActiveLinks(i, p) : links[q].created <= links[r].created}

\* GetCredentials: the manager's active row, or the PayOS fallback.
Usable(p) == credentials[p] > 0 \/ (p = "payos" /\ HasFallbackPayOS)

\* CheckProviderEventExists: the UNIQUE key of payment_events.
EventRecorded(r, t, s) ==
  \E e \in events : e.ref = r /\ e.transfer = t /\ e.source = s

\* Tables as the running system leaves them: some invoices, unpaid, with the
\* links already sent for them; a link of another amount has been marked STALE.
SeededInvoices(live, total) ==
  [i \in Invoices |->
     IF i \in live THEN [status |-> "UNPAID", method |-> "none", total |-> total[i]]
     ELSE NoInvoiceRow]

SeededLinks(total, issued, asked) ==
  [r \in Refs |->
     IF issued[r] = None THEN NoLinkRow
     ELSE [status |-> IF asked[r] = total[issued[r]] THEN "ACTIVE" ELSE "STALE",
           invoice |-> issued[r], amount |-> asked[r], account |-> 1, created |-> 1]]

SeededStore ==
  /\ \E live \in SUBSET Invoices, total \in [Invoices -> Amounts] :
       /\ \A i, j \in live : SlotOf[i] = SlotOf[j] => i = j
       /\ invoices = SeededInvoices(live, total)
       /\ \E issued \in [Refs -> live \cup {None}], asked \in [Refs -> Amounts] :
            links = SeededLinks(total, issued, asked)
  /\ events = {}
  /\ credentials = [p \in Providers |-> 1]
  /\ faults = 0

-----------------------------------------------------------------------------
(* Writes of a single column or row.                                         *)

\* UpdateInvoiceStatus: no guard on the row's current status.
UpdateInvoiceStatus(i, s) == invoices' = [invoices EXCEPT ![i].status = s]

\* SystemUpdateInvoiceStatusAndMethod, its UPDATE.
SystemUpdateInvoiceStatusAndMethod(i, s, m) ==
  invoices' = [invoices EXCEPT ![i].status = s, ![i].method = m]

\* UpdateInvoice, its UPDATE: every column of the caller's struct.
UpdateInvoiceRow(i, row) == invoices' = [invoices EXCEPT ![i] = row]

\* Mutant: uq_invoices_room_period is missing.
InsertInvoiceRowNotUnique(i, row) ==
  /\ invoices[i].status = "none"
  /\ invoices' = [invoices EXCEPT ![i] = row]

\* CreateInvoice: one row per (room, period).
InsertInvoiceRow(i, row) ==
  /\ invoices[i].status = "none"
  /\ InSlot(SlotOf[i]) = {}
  /\ invoices' = [invoices EXCEPT ![i] = row]

\* DeleteInvoice: links cascade, the invoice_id of events is set to NULL.
DeleteInvoiceRow(i) ==
  /\ invoices' = [invoices EXCEPT ![i] = [NoInvoiceRow EXCEPT !.status = "deleted"]]
  /\ links' = [r \in Refs |-> IF r \in LinksOf(i) THEN NoLinkRow ELSE links[r]]
  /\ events' = {IF e.invoice = i THEN [e EXCEPT !.invoice = None] ELSE e : e \in events}

\* UpdatePaymentLinkStatus: by row id.  The row of an invoice's link is gone
\* once the invoice is, even if another invoice's link reuses the reference.
UpdatePaymentLinkStatus(r, i, s) ==
  links' = IF r \in LinksOf(i) THEN [links EXCEPT ![r].status = s] ELSE links

\* Mutant: only links that ask for too little are invalidated.
MarkStaleByAmountTooLow(i, a) ==
  links' = [r \in Refs |->
              IF r \in LinksOf(i) /\ links[r].status = "ACTIVE" /\ links[r].amount < a
              THEN [links[r] EXCEPT !.status = "STALE"] ELSE links[r]]

\* Mutant: links are invalidated whatever their status.
MarkStaleByAmountAnyStatus(i, a) ==
  links' = [r \in Refs |->
              IF r \in LinksOf(i) /\ links[r].amount # a
              THEN [links[r] EXCEPT !.status = "STALE"] ELSE links[r]]

\* markActivePaymentLinksStaleByInvoiceAmount
MarkStaleByAmount(i, a) ==
  links' = [r \in Refs |->
              IF r \in LinksOf(i) /\ links[r].status = "ACTIVE" /\ links[r].amount # a
              THEN [links[r] EXCEPT !.status = "STALE"] ELSE links[r]]

\* MarkActivePaymentLinksStaleByManager
MarkStaleByProvider(p) ==
  links' = [r \in Refs |->
              IF ProviderOf[r] = p /\ links[r].status = "ACTIVE"
              THEN [links[r] EXCEPT !.status = "STALE"] ELSE links[r]]

\* CreatePaymentLink: the reference is UNIQUE per provider and the invoice
\* must still exist.
LinkInsertable(r, i) == ~LinkExists(r) /\ InvoiceExists(i)
InsertLinkRow(r, i, a, v) ==
  links' = [links EXCEPT ![r] =
              [status |-> "ACTIVE", invoice |-> i, amount |-> a, account |-> v,
               created |-> 1 + Cardinality(LinksOf(i))]]

\* Mutant: payment_events has no UNIQUE key.
EventInsertableTwice(r, t, s, i) == i # None => InvoiceExists(i)

\* CreatePaymentEvent: UNIQUE(provider, provider_order_ref, transaction_reference),
\* and a foreign key to the invoice.
EventInsertable(r, t, s, i) ==
  /\ ~EventRecorded(r, t, s)
  /\ i # None => InvoiceExists(i)
InsertEventRow(r, t, s, i, a) ==
  events' = events \cup {[ref |-> r, transfer |-> t, source |-> s,
                          invoice |-> i, amount |-> a]}

\* A statement fails, or the goroutine running the handler is lost.
Fault == faults < MaxFaults /\ faults' = faults + 1
=============================================================================
