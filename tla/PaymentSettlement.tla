------------------------- MODULE PaymentSettlement -------------------------
(* PaymentService.ProcessVerifiedTransaction and its two callers: provider   *)
(* webhooks (HandleWebhook) and the SePay API v2 pull (ReconcileManager).    *)
(* Every request runs in a goroutine of its own, a worker; each of its SQL   *)
(* statements is one action.                                                 *)
EXTENDS InvoiceStore

CONSTANT Workers   \* request goroutines

ASSUME WorkersAssumption == IsFiniteSet(Workers)

VARIABLES
  bank,     \* the bank and the provider: each transfer and how far it has got
  tasks,    \* what each worker is doing
  notices   \* payment notifications sent, per transfer and source

settleVars == <<bank, tasks, notices>>
settlementAloneVars ==
  <<invoices, links, events, credentials, faults, bank, tasks, notices>>

\* A provider keeps delivering a webhook until it is answered with 200.
BankRows == [ref : Refs, amount : Amounts, state : {"pending", "made", "acked"},
             account : Nat]   \* credential version of the account paid into

Stages == {"idle", "next", "check", "link", "record", "settle", "reload", "mark", "notify"}

Tasks == [pc : Stages, source : Sources,
          transfer : Transfers \cup {None},
          todo : SUBSET Transfers,          \* rest of a reconciliation's batch
          link : LinkRows]                  \* the link as read, line 231

Idle == [pc |-> "idle", source |-> "webhook", transfer |-> None, todo |-> {},
         link |-> NoLinkRow]

SettlementTypeOK ==
  /\ bank \in [Transfers -> BankRows]
  /\ tasks \in [Workers -> Tasks]
  /\ notices \in [Transfers -> [Sources -> Nat]]

SettlementInit ==
  /\ bank \in [Transfers -> [ref : Refs, amount : Amounts, state : {"pending"},
                            account : {0}]]
  /\ tasks = [w \in Workers |-> Idle]
  /\ notices = [t \in Transfers |-> [s \in Sources |-> 0]]

-----------------------------------------------------------------------------
RefOf(w) == bank[tasks[w].transfer].ref
AmountOf(w) == bank[tasks[w].transfer].amount
InvoiceOf(w) == tasks[w].link.invoice
Step(w, from, to) == tasks[w].pc = from /\ tasks' = [tasks EXCEPT ![w].pc = to]

\* The task once its current transaction is done with: the end of a webhook
\* request, the next transaction of a reconciliation.
Rest(task) ==
  IF task.source = "reconcile" /\ task.todo # {}
  THEN [task EXCEPT !.pc = "next", !.transfer = None, !.link = NoLinkRow]
  ELSE Idle

\* The transaction has been processed without error: a webhook answers 200.
Finish(w) ==
  /\ tasks' = [tasks EXCEPT ![w] = Rest(@)]
  /\ bank' = IF tasks[w].source = "webhook"
             THEN [bank EXCEPT ![tasks[w].transfer].state = "acked"] ELSE bank

\* The transaction failed: a webhook answers 500, a reconciliation skips it.
Reject(w) == tasks' = [tasks EXCEPT ![w] = Rest(@)] /\ UNCHANGED bank

-----------------------------------------------------------------------------
(* The outside world.                                                        *)

\* A tenant transfers money quoting a reference, to the account of its QR.
MakeTransfer(t) ==
  LET r == bank[t].ref
  IN /\ bank[t].state = "pending"
     /\ bank' = [bank EXCEPT ![t].state = "made",
                             ![t].account = IF LinkExists(r) THEN links[r].account
                                            ELSE credentials[ProviderOf[r]]]
     /\ UNCHANGED <<storeVars, tasks, notices>>

\* The manager deletes an invoice meanwhile.  InvoiceEditing has the request that
\* does so; from here it comes at any time, since that request checked the status
\* some steps ago.
InvoiceDeleted(i) ==
  /\ InvoiceExists(i)
  /\ DeleteInvoiceRow(i)
  /\ UNCHANGED <<credentials, faults, bank, tasks, notices>>

\* What the stored credentials can verify or list: transfers into the account
\* they belong to.
Verifiable(t) == bank[t].account = credentials[ProviderOf[bank[t].ref]]

\* A webhook request arrives and passes verification (HandleWebhook).  Nothing
\* stops the provider from repeating it while an earlier delivery is running.
DeliverWebhook(w, t) ==
  /\ tasks[w].pc = "idle"
  /\ bank[t].state = "made"
  /\ Usable(ProviderOf[bank[t].ref]) /\ Verifiable(t)
  /\ tasks' = [tasks EXCEPT ![w] = [Idle EXCEPT !.pc = "check", !.transfer = t]]
  /\ UNCHANGED <<storeVars, bank, notices>>

\* The manager starts a reconciliation: it lists the SePay transfers so far.
StartReconcile(w) ==
  LET listed == {t \in Transfers : /\ bank[t].state # "pending" /\ Verifiable(t)
                                   /\ ProviderOf[bank[t].ref] = "sepay"}
  IN /\ tasks[w].pc = "idle"
     /\ listed # {}
     /\ credentials["sepay"] > 0
     /\ tasks' = [tasks EXCEPT ![w] = [Idle EXCEPT !.pc = "next", !.source = "reconcile",
                                                   !.todo = listed]]
     /\ UNCHANGED <<storeVars, bank, notices>>

NextTransaction(w) ==
  /\ tasks[w].pc = "next"
  /\ \E t \in tasks[w].todo :
       tasks' = [tasks EXCEPT ![w].pc = "check", ![w].transfer = t,
                              ![w].todo = @ \ {t}]
  /\ UNCHANGED <<storeVars, bank, notices>>

-----------------------------------------------------------------------------
(* ProcessVerifiedTransaction.                                               *)

\* CheckProviderEventExists: a transaction already recorded is done.
SkipRecorded(w) ==
  /\ tasks[w].pc = "check"
  /\ EventRecorded(RefOf(w), tasks[w].transfer, tasks[w].source)
  /\ Finish(w)
  /\ UNCHANGED <<storeVars, notices>>

CheckEvent(w) ==
  /\ Step(w, "check", "link")
  /\ ~EventRecorded(RefOf(w), tasks[w].transfer, tasks[w].source)
  /\ UNCHANGED <<storeVars, bank, notices>>

\* GetPaymentLinkByProviderOrderRefForManager: later steps use this copy.
ReadLink(w) ==
  /\ tasks[w].pc = "link"
  /\ tasks' = [tasks EXCEPT ![w].pc = "record", ![w].link = links[RefOf(w)]]
  /\ UNCHANGED <<storeVars, bank, notices>>

\* Mutant: the amount is not compared.
AuditOnlyAnyAmount(w) == InvoiceOf(w) = None \/ tasks[w].link.status = "PAID"

\* Mutant: the already-paid guard is missing.
AuditOnlyUnpaidOrPaid(w) ==
  InvoiceOf(w) = None \/ AmountOf(w) < tasks[w].link.amount

\* Mutant: the exact amount counts as underpaid.
AuditOnlyExact(w) ==
  \/ InvoiceOf(w) = None
  \/ tasks[w].link.status = "PAID"
  \/ AmountOf(w) <= tasks[w].link.amount

\* An unmatched, already paid or underpaid transaction is only recorded.
AuditOnly(w) ==
  \/ InvoiceOf(w) = None
  \/ tasks[w].link.status = "PAID"
  \/ AmountOf(w) < tasks[w].link.amount

\* CreatePaymentEvent, and the decisions on the copy of the link after it.
RecordEvent(w) ==
  LET task == tasks[w]
  IN /\ task.pc = "record"
     /\ EventInsertable(RefOf(w), task.transfer, task.source, InvoiceOf(w))
     /\ InsertEventRow(RefOf(w), task.transfer, task.source, InvoiceOf(w), AmountOf(w))
     /\ IF AuditOnly(w)
        THEN Finish(w)
        ELSE tasks' = [tasks EXCEPT ![w].pc = "settle"] /\ UNCHANGED bank
     /\ UNCHANGED <<invoices, links, credentials, faults, notices>>

\* The insert violates a constraint: a concurrent delivery was first, or the
\* invoice is gone.
RecordRejected(w) ==
  /\ tasks[w].pc = "record"
  /\ ~EventInsertable(RefOf(w), tasks[w].transfer, tasks[w].source, InvoiceOf(w))
  /\ Reject(w)
  /\ UNCHANGED <<storeVars, notices>>

-----------------------------------------------------------------------------
(* processInvoicePayment.                                                    *)

\* Mutant: the two string arguments are swapped.
SettleInvoiceSwapped(w) ==
  /\ Step(w, "settle", "reload")
  /\ InvoiceExists(InvoiceOf(w))
  /\ SystemUpdateInvoiceStatusAndMethod(InvoiceOf(w), ProviderOf[RefOf(w)], "PAID")
  /\ UNCHANGED <<links, events, credentials, faults, bank, notices>>

\* The UPDATE of SystemUpdateInvoiceStatusAndMethod.
SettleInvoice(w) ==
  /\ Step(w, "settle", "reload")
  /\ InvoiceExists(InvoiceOf(w))
  /\ SystemUpdateInvoiceStatusAndMethod(InvoiceOf(w), "PAID", ProviderOf[RefOf(w)])
  /\ UNCHANGED <<links, events, credentials, faults, bank, notices>>

\* Its second statement reads the row back with its room.
ReloadInvoice(w) ==
  /\ Step(w, "reload", "mark")
  /\ InvoiceExists(InvoiceOf(w))
  /\ UNCHANGED <<storeVars, bank, notices>>

\* Either statement finds no row: ErrInvoiceNotFound.
InvoiceGone(w) ==
  /\ tasks[w].pc \in {"settle", "reload"}
  /\ ~InvoiceExists(InvoiceOf(w))
  /\ Reject(w)
  /\ UNCHANGED <<storeVars, notices>>

\* Mutant: the link keeps its status.
MarkLinkPaidForgotten(w) ==
  /\ Step(w, "mark", "notify")
  /\ UNCHANGED <<storeVars, bank, notices>>

\* The link's status is what later transactions for it are checked against.
MarkLinkPaid(w) ==
  /\ Step(w, "mark", "notify")
  /\ UpdatePaymentLinkStatus(RefOf(w), InvoiceOf(w), "PAID")
  /\ UNCHANGED <<invoices, events, credentials, faults, bank, notices>>

\* A failure to mark the link is only logged.
MarkFails(w) ==
  /\ Step(w, "mark", "notify")
  /\ Fault
  /\ UNCHANGED <<invoices, links, events, credentials, bank, notices>>

\* Tenants and manager are told; sending is best effort.
Notify(w) ==
  /\ tasks[w].pc = "notify"
  /\ notices' = [notices EXCEPT ![tasks[w].transfer][tasks[w].source] = @ + 1]
  /\ Finish(w)
  /\ UNCHANGED storeVars

\* A statement before the settlement is complete returns an error.
StatementFails(w) ==
  /\ tasks[w].pc \in {"check", "link", "record", "settle", "reload"}
  /\ Fault
  /\ Reject(w)
  /\ UNCHANGED <<invoices, links, events, credentials, notices>>

\* The request is lost with its process, or its context is cancelled.
WorkerLost(w) ==
  /\ tasks[w].pc # "idle"
  /\ Fault
  /\ tasks' = [tasks EXCEPT ![w] = Idle]
  /\ UNCHANGED <<invoices, links, events, credentials, bank, notices>>

-----------------------------------------------------------------------------
\* What a worker does on its own once it has a request.
Progress(w) ==
  \/ NextTransaction(w) \/ SkipRecorded(w) \/ CheckEvent(w) \/ ReadLink(w)
  \/ RecordEvent(w) \/ RecordRejected(w) \/ SettleInvoice(w) \/ ReloadInvoice(w)
  \/ InvoiceGone(w) \/ MarkLinkPaid(w) \/ Notify(w)

SettlementNext ==
  \/ \E t \in Transfers : MakeTransfer(t)
  \/ \E w \in Workers, t \in Transfers : DeliverWebhook(w, t)
  \/ \E w \in Workers : StartReconcile(w)
  \/ \E w \in Workers : Progress(w)
  \/ \E w \in Workers : MarkFails(w)
  \/ \E w \in Workers : StatementFails(w)
  \/ \E w \in Workers : WorkerLost(w)

\* Go runs every goroutine, and a provider repeats a webhook until it is
\* answered.  A request never waits for a goroutine: strong fairness makes up for
\* the bounded number of workers.  Nobody has to transfer money or to reconcile.
SettlementFairness ==
  /\ \A w \in Workers : WF_settlementAloneVars(Progress(w))
  /\ \A t \in Transfers : SF_settlementAloneVars(\E w \in Workers : DeliverWebhook(w, t))

\* The component on its own: payments, and invoices that disappear.
SettlementAloneInit == SeededStore /\ SettlementInit
SettlementAloneNext == SettlementNext \/ \E i \in Invoices : InvoiceDeleted(i)
SettlementSafeSpec ==
  SettlementAloneInit /\ [][SettlementAloneNext]_settlementAloneVars
SettlementSpec == SettlementSafeSpec /\ SettlementFairness

-----------------------------------------------------------------------------
(* Properties.                                                               *)

\* The payments tables, the bank and the workers hold values of their types.
SettlementAloneTypeOK == StoreTypeOK /\ SettlementTypeOK

\* However often one source repeats a transaction, and whatever fails on the
\* way, tenants are notified of it at most once: the check at line 223 and the
\* UNIQUE key behind the insert at line 237 together make processing
\* idempotent per (order reference, transaction reference).
NotifiedOncePerReference ==
  \A t \in Transfers, s \in Sources : notices[t][s] <= 1

\* A transaction that pays a link in full.
PaysInFull(e) ==
  /\ LinkExists(e.ref)
  /\ e.invoice = links[e.ref].invoice
  /\ e.amount >= links[e.ref].amount

\* A link is PAID only if an audit event shows money received for it, of at
\* least its amount: the event is written before the link is marked, and an
\* underpaid or unmatched transaction never reaches line 281.
PaidLinkIsBacked ==
  \A r \in Refs : links[r].status = "PAID" =>
    \E e \in events : e.ref = r /\ PaysInFull(e)

\* An invoice names a provider as its payment method only if that provider
\* reported a transaction that pays one of the invoice's links in full.
ProviderMethodIsBacked ==
  \A i \in Invoices : invoices[i].method \in Providers =>
    \E e \in events : /\ e.invoice = i
                      /\ ProviderOf[e.ref] = invoices[i].method
                      /\ PaysInFull(e)

\* Some worker has recorded a transfer for the reference and is settling it.
Settling(r) ==
  \E w \in Workers : /\ tasks[w].pc \in {"settle", "reload", "mark"}
                     /\ RefOf(w) = r

FullTransfer(t) == LET r == bank[t].ref
                   IN LinkExists(r) /\ bank[t].amount >= links[r].amount

\* Once the provider's webhook for a full payment has been answered with 200
\* the link is PAID or about to be: a provider does not deliver it again.
AcknowledgedMeansSettled ==
  \A t \in Transfers :
    (bank[t].state = "acked" /\ FullTransfer(t)) =>
      \/ links[bank[t].ref].status = "PAID"
      \/ Settling(bank[t].ref)

\* Overlapping deliveries alone cannot lose a payment: that takes a failure.
OnlyFaultsLosePayments == faults = 0 => AcknowledgedMeansSettled

\* Reconciliation recovers a webhook that failed half way: it takes two failures
\* to use up both transaction references of a transfer and leave its link unsettled.
SecondSourceRecovers ==
  faults <= 1 =>
    \A t \in Transfers :
      (FullTransfer(t) /\ \A s \in Sources : EventRecorded(bank[t].ref, t, s)) =>
        \/ links[bank[t].ref].status = "PAID"
        \/ Settling(bank[t].ref)

\* The notifications about one link, as (transfer, source) pairs.
NotifiedFor(r) == {x \in Transfers \X Sources :
                     bank[x[1]].ref = r /\ notices[x[1]][x[2]] > 0}

\* While nothing fails a link is settled and notified once, whatever repeats or
\* overpays it, and again only by requests that overlap the first: never more often
\* than there are workers.  With requests one after the other that is once.
SettledOncePerWorker ==
  faults = 0 => \A r \in Refs : Cardinality(NotifiedFor(r)) <= Cardinality(Workers)

\* A full payment that the bank has reported is settled in the end, unless its
\* invoice, and the link with it, is deleted first.
FullPaymentSettles ==
  \A t \in Transfers :
    (bank[t].state = "made" /\ FullTransfer(t)) ~>
      (links[bank[t].ref].status \in {"PAID", "none"})

\* Neither a link nor an invoice is settled without the money behind it.
PaymentsBacked == PaidLinkIsBacked /\ ProviderMethodIsBacked

-----------------------------------------------------------------------------
(* The ledger behind the statements.                                         *)

LedgerBrings == [t \in Transfers |-> [ref |-> bank[t].ref, amount |-> bank[t].amount]]
LedgerEntry(t, s) ==
  IF notices[t][s] > 1 THEN "repeated"
  ELSE IF notices[t][s] = 1 THEN "told"
  ELSE IF EventRecorded(bank[t].ref, t, s) THEN "recorded"
  ELSE "new"
LedgerBook == [t \in Transfers |-> [s \in Sources |-> LedgerEntry(t, s)]]
LedgerBill(r) == [ref |-> r, invoice |-> links[r].invoice, amount |-> links[r].amount]
LedgerBills == {LedgerBill(r) : r \in {q \in Refs : LinkExists(q)}}
LedgerSettled == {i \in Invoices : invoices[i].status = "PAID"}
LedgerPaid == {LedgerBill(r) : r \in {q \in Refs : links[q].status = "PAID"}}

Ledger == INSTANCE PaymentLedger WITH
  brings <- LedgerBrings, bills <- LedgerBills, book <- LedgerBook,
  settled <- LedgerSettled, paid <- LedgerPaid

\* Settlement implements the ledger: overlapping webhooks and reconciliations,
\* repeats, failures between two statements, lost workers and deleted invoices
\* never add up to anything but its steps.
RefinesLedger == Ledger!Spec
=============================================================================
