----------------------- MODULE PaymentSettlement_proof -----------------------
(* What PaymentSettlement guarantees for any number of workers, transfers,   *)
(* references and faults: its variables keep their types, and tenants are    *)
(* notified at most once of a transaction reference.                         *)
(*                                                                           *)
(* Settlement implements the payment ledger, for any number of workers,       *)
(* transfers, references, invoices and failures.  What makes it so: the copy  *)
(* of a link that a worker decides on stays true of the link for as long as   *)
(* the link is there, and what follows the decision follows it in order.      *)
EXTENDS PaymentSettlement, TLAPS

-----------------------------------------------------------------------------
(* Type correctness.                                                         *)

\* A worker that is processing a transaction has one.
TasksHaveTransfers ==
  \A w \in Workers : tasks[w].pc \notin {"idle", "next"} =>
                       tasks[w].transfer \in Transfers

TypeInv == SettlementAloneTypeOK /\ TasksHaveTransfers

\* Stopping with a transaction leaves a well-typed task without one.
LEMMA RestType ==
  ASSUME NEW task \in Tasks
  PROVE  Rest(task) \in Tasks /\ Rest(task).pc \in {"idle", "next"}
<1>1. NoLinkRow \in LinkRows
  BY DEF NoLinkRow, LinkRows, LinkStatus
<1>2. Idle \in Tasks /\ Idle.pc = "idle"
  BY <1>1 DEF Idle, Tasks, Stages, Sources
<1>3. CASE task.source = "reconcile" /\ task.todo # {}
  <2>1. Rest(task) = [task EXCEPT !.pc = "next", !.transfer = None, !.link = NoLinkRow]
    BY <1>3 DEF Rest
  <2> QED BY <1>1, <2>1 DEF Tasks, Stages
<1>4. CASE ~(task.source = "reconcile" /\ task.todo # {})
  BY <1>2, <1>4 DEF Rest
<1> QED BY <1>3, <1>4

\* A worker that stops with its transaction keeps the types.
LEMMA TasksAfterRest ==
  ASSUME TypeInv, NEW w \in Workers, tasks' = [tasks EXCEPT ![w] = Rest(@)]
  PROVE  tasks' \in [Workers -> Tasks] /\ TasksHaveTransfers'
<1>1. tasks[w] \in Tasks
  BY DEF TypeInv, SettlementAloneTypeOK, SettlementTypeOK
<1>2. Rest(tasks[w]) \in Tasks /\ Rest(tasks[w]).pc \in {"idle", "next"}
  BY <1>1, RestType
<1>3. tasks' \in [Workers -> Tasks]
  BY <1>2 DEF TypeInv, SettlementAloneTypeOK, SettlementTypeOK
<1>4. ASSUME NEW v \in Workers, tasks'[v].pc \notin {"idle", "next"}
      PROVE  tasks'[v].transfer \in Transfers
  <2>1. v # w
    BY <1>2, <1>4 DEF TypeInv, SettlementAloneTypeOK, SettlementTypeOK
  <2>2. tasks'[v] = tasks[v]
    BY <2>1 DEF TypeInv, SettlementAloneTypeOK, SettlementTypeOK
  <2> QED BY <1>4, <2>2 DEF TypeInv, TasksHaveTransfers
<1> QED BY <1>3, <1>4 DEF TasksHaveTransfers

LEMMA FinishType ==
  ASSUME TypeInv, NEW w \in Workers, tasks[w].transfer \in Transfers, Finish(w)
  PROVE  bank' \in [Transfers -> BankRows] /\ tasks' \in [Workers -> Tasks]
         /\ TasksHaveTransfers'
<1>1. tasks' \in [Workers -> Tasks] /\ TasksHaveTransfers'
  BY TasksAfterRest DEF Finish
<1>2. bank' \in [Transfers -> BankRows]
  BY DEF Finish, TypeInv, SettlementAloneTypeOK, SettlementTypeOK, BankRows
<1> QED BY <1>1, <1>2

LEMMA RejectType ==
  ASSUME TypeInv, NEW w \in Workers, Reject(w)
  PROVE  bank' \in [Transfers -> BankRows] /\ tasks' \in [Workers -> Tasks]
         /\ TasksHaveTransfers'
BY TasksAfterRest DEF Reject, TypeInv, SettlementAloneTypeOK, SettlementTypeOK

\* A worker that moves from one statement of its transaction to the next.
LEMMA StepType ==
  ASSUME TypeInv, NEW w \in Workers, NEW from \in Stages \ {"idle", "next"},
         NEW to \in Stages, Step(w, from, to)
  PROVE  /\ tasks' \in [Workers -> Tasks] /\ TasksHaveTransfers'
         /\ tasks[w].pc = from /\ tasks[w].transfer \in Transfers
<1> USE DEF TypeInv, SettlementAloneTypeOK, SettlementTypeOK
<1>1. tasks[w].pc = from /\ tasks[w].transfer \in Transfers
  BY DEF Step, TasksHaveTransfers
<1>2. tasks[w] \in Tasks /\ [tasks[w] EXCEPT !.pc = to] \in Tasks
  BY DEF Tasks
<1>3. tasks' = [tasks EXCEPT ![w] = [tasks[w] EXCEPT !.pc = to]]
  BY DEF Step
<1>4. tasks' \in [Workers -> Tasks]
  BY <1>2, <1>3
<1>5. ASSUME NEW v \in Workers, tasks'[v].pc \notin {"idle", "next"}
      PROVE  tasks'[v].transfer \in Transfers
  <2>1. CASE v = w
    BY <1>1, <1>2, <1>3, <2>1 DEF Tasks
  <2>2. CASE v # w
    BY <1>3, <1>5, <2>2 DEF TasksHaveTransfers
  <2> QED BY <2>1, <2>2
<1> QED BY <1>1, <1>4, <1>5 DEF TasksHaveTransfers

\* The tables a running system may start from are well typed.
LEMMA InitType == SettlementAloneInit => TypeInv
<1> SUFFICES ASSUME SettlementAloneInit PROVE TypeInv
  OBVIOUS
<1> USE DEF SettlementAloneInit
<1>0. PICK live \in SUBSET Invoices, total \in [Invoices -> Amounts] :
        /\ invoices = SeededInvoices(live, total)
        /\ \E issued \in [Refs -> live \cup {None}], asked \in [Refs -> Amounts] :
             links = SeededLinks(total, issued, asked)
  BY DEF SeededStore
<1>1. invoices \in [Invoices -> InvoiceRows]
  BY <1>0, StoreAssumption DEF SeededInvoices, NoInvoiceRow, InvoiceRows, InvoiceStatus, Methods
<1>2. links \in [Refs -> LinkRows]
  <2>1. PICK issued \in [Refs -> live \cup {None}], asked \in [Refs -> Amounts] :
          links = SeededLinks(total, issued, asked)
    BY <1>0
  <2>2. ASSUME NEW r \in Refs PROVE links[r] \in LinkRows
    BY <2>1, StoreAssumption DEF SeededLinks, NoLinkRow, LinkRows, LinkStatus
  <2> QED BY <2>1, <2>2 DEF SeededLinks
<1>3. events \subseteq EventRows /\ credentials \in [Providers -> Nat] /\ faults \in 0..MaxFaults
  BY StoreAssumption DEF SeededStore
<1>4. bank \in [Transfers -> BankRows] /\ notices \in [Transfers -> [Sources -> Nat]]
  BY DEF SettlementInit, BankRows
<1>5. tasks \in [Workers -> Tasks] /\ TasksHaveTransfers
  BY DEF SettlementInit, Idle, NoLinkRow, LinkRows, LinkStatus, Tasks, Stages, Sources, TasksHaveTransfers
<1> QED BY <1>1, <1>2, <1>3, <1>4, <1>5
        DEF TypeInv, SettlementAloneTypeOK, StoreTypeOK, SettlementTypeOK

\* Every step of the component keeps the types.
LEMMA NextType == TypeInv /\ [SettlementNext]_settlementAloneVars => TypeInv'
<1> SUFFICES ASSUME TypeInv, [SettlementNext]_settlementAloneVars PROVE TypeInv'
  OBVIOUS
<1> USE DEF TypeInv, SettlementAloneTypeOK, StoreTypeOK, SettlementTypeOK
<1>1. ASSUME NEW t \in Transfers, MakeTransfer(t) PROVE TypeInv'
  <2>1. (IF LinkExists(bank[t].ref) THEN links[bank[t].ref].account
         ELSE credentials[ProviderOf[bank[t].ref]]) \in Nat
    BY StoreAssumption DEF BankRows, LinkRows
  <2>2. bank' \in [Transfers -> BankRows]
    BY <1>1, <2>1, ZenonT(30) DEF MakeTransfer, BankRows
  <2> QED BY <1>1, <2>2 DEF MakeTransfer, storeVars, TasksHaveTransfers
<1>2. ASSUME NEW w \in Workers, NEW t \in Transfers, DeliverWebhook(w, t) PROVE TypeInv'
  <2>1. [Idle EXCEPT !.pc = "check", !.transfer = t] \in Tasks
    BY DEF Idle, NoLinkRow, LinkRows, LinkStatus, Tasks, Stages, Sources
  <2>2. tasks' \in [Workers -> Tasks]
    BY <1>2, <2>1 DEF DeliverWebhook
  <2>3. TasksHaveTransfers'
    BY <1>2, <2>1 DEF DeliverWebhook, TasksHaveTransfers, Idle
  <2> QED BY <1>2, <2>2, <2>3 DEF DeliverWebhook, storeVars
<1>3. ASSUME NEW w \in Workers, StartReconcile(w) PROVE TypeInv'
  <2>1. PICK listed \in SUBSET Transfers :
          tasks' = [tasks EXCEPT ![w] = [Idle EXCEPT !.pc = "next", !.source = "reconcile",
                                                     !.todo = listed]]
    BY <1>3 DEF StartReconcile
  <2>2. [Idle EXCEPT !.pc = "next", !.source = "reconcile", !.todo = listed] \in Tasks
    BY DEF Idle, NoLinkRow, LinkRows, LinkStatus, Tasks, Stages, Sources
  <2>3. tasks' \in [Workers -> Tasks]
    BY <2>1, <2>2
  <2>4. TasksHaveTransfers'
    BY <2>1, <2>2 DEF TasksHaveTransfers, Idle
  <2> QED BY <1>3, <2>3, <2>4 DEF StartReconcile, storeVars
<1>4. ASSUME NEW w \in Workers, NextTransaction(w) PROVE TypeInv'
  <2>1. PICK t \in tasks[w].todo :
          tasks' = [tasks EXCEPT ![w] = [tasks[w] EXCEPT !.pc = "check", !.transfer = t,
                                                         !.todo = @ \ {t}]]
    BY <1>4 DEF NextTransaction
  <2>2. t \in Transfers
    BY DEF Tasks
  <2>3. [tasks[w] EXCEPT !.pc = "check", !.transfer = t, !.todo = @ \ {t}] \in Tasks
    BY <2>2 DEF Tasks, Stages
  <2>4. tasks' \in [Workers -> Tasks]
    BY <2>1, <2>3
  <2>5. TasksHaveTransfers'
    BY <2>1, <2>2, <2>3 DEF TasksHaveTransfers, Tasks
  <2> QED BY <1>4, <2>4, <2>5 DEF NextTransaction, storeVars
<1>5. ASSUME NEW w \in Workers, SkipRecorded(w) PROVE TypeInv'
  <2>1. tasks[w].transfer \in Transfers
    BY <1>5 DEF SkipRecorded, TasksHaveTransfers
  <2> QED BY <1>5, <2>1, FinishType DEF SkipRecorded, storeVars
<1>6. ASSUME NEW w \in Workers, CheckEvent(w) PROVE TypeInv'
  BY <1>6, StepType DEF CheckEvent, Stages, storeVars
<1>7. ASSUME NEW w \in Workers, ReadLink(w) PROVE TypeInv'
  <2>1. tasks[w].transfer \in Transfers
    BY <1>7 DEF ReadLink, TasksHaveTransfers
  <2>2. links[RefOf(w)] \in LinkRows
    BY <2>1 DEF RefOf, BankRows
  <2>3. [tasks[w] EXCEPT !.pc = "record", !.link = links[RefOf(w)]] \in Tasks
    BY <2>2 DEF Tasks, Stages
  <2>4. tasks' = [tasks EXCEPT ![w] = [tasks[w] EXCEPT !.pc = "record", !.link = links[RefOf(w)]]]
    BY <1>7 DEF ReadLink
  <2>5. tasks' \in [Workers -> Tasks]
    BY <2>3, <2>4
  <2>6. TasksHaveTransfers'
    BY <2>1, <2>3, <2>4 DEF TasksHaveTransfers, Tasks
  <2> QED BY <1>7, <2>5, <2>6 DEF ReadLink, storeVars
<1>8. ASSUME NEW w \in Workers, RecordEvent(w) PROVE TypeInv'
  <2>1. tasks[w].transfer \in Transfers
    BY <1>8 DEF RecordEvent, TasksHaveTransfers
  <2>2. [ref |-> RefOf(w), transfer |-> tasks[w].transfer, source |-> tasks[w].source,
         invoice |-> InvoiceOf(w), amount |-> AmountOf(w)] \in EventRows
    BY <2>1, StoreAssumption DEF RefOf, AmountOf, InvoiceOf, BankRows, Tasks, LinkRows, EventRows
  <2>3. events' \subseteq EventRows
    BY <1>8, <2>2 DEF RecordEvent, InsertEventRow
  <2>4. bank' \in [Transfers -> BankRows] /\ tasks' \in [Workers -> Tasks]
        /\ TasksHaveTransfers'
    <3>1. CASE AuditOnly(w)
      BY <1>8, <2>1, <3>1, FinishType DEF RecordEvent
    <3>2. CASE ~AuditOnly(w)
      <4>1. Step(w, "record", "settle")
        BY <1>8, <3>2 DEF RecordEvent, Step
      <4> QED BY <1>8, <3>2, <4>1, StepType DEF RecordEvent, Stages
    <3> QED BY <3>1, <3>2
  <2> QED BY <1>8, <2>3, <2>4 DEF RecordEvent
<1>9. ASSUME NEW w \in Workers, RecordRejected(w) PROVE TypeInv'
  BY <1>9, RejectType DEF RecordRejected, storeVars
<1>10. ASSUME NEW w \in Workers, SettleInvoice(w) PROVE TypeInv'
  <2>1. tasks' \in [Workers -> Tasks] /\ TasksHaveTransfers' /\ tasks[w].transfer \in Transfers
    BY <1>10, StepType DEF SettleInvoice, Stages
  <2>2. ProviderOf[RefOf(w)] \in Methods
    BY <2>1, StoreAssumption DEF RefOf, BankRows, Methods
  <2>3. invoices' \in [Invoices -> InvoiceRows]
    BY <1>10, <2>2 DEF SettleInvoice, SystemUpdateInvoiceStatusAndMethod, InvoiceRows, InvoiceStatus
  <2> QED BY <1>10, <2>1, <2>3 DEF SettleInvoice
<1>11. ASSUME NEW w \in Workers, ReloadInvoice(w) PROVE TypeInv'
  BY <1>11, StepType DEF ReloadInvoice, Stages, storeVars
<1>12. ASSUME NEW w \in Workers, InvoiceGone(w) PROVE TypeInv'
  BY <1>12, RejectType DEF InvoiceGone, storeVars
<1>13. ASSUME NEW w \in Workers, MarkLinkPaid(w) PROVE TypeInv'
  <2>1. tasks' \in [Workers -> Tasks] /\ TasksHaveTransfers'
    BY <1>13, StepType DEF MarkLinkPaid, Stages
  <2>2. links' \in [Refs -> LinkRows]
    BY <1>13 DEF MarkLinkPaid, UpdatePaymentLinkStatus, LinkRows, LinkStatus
  <2> QED BY <1>13, <2>1, <2>2 DEF MarkLinkPaid
<1>14. ASSUME NEW w \in Workers, MarkFails(w) PROVE TypeInv'
  <2>1. tasks' \in [Workers -> Tasks] /\ TasksHaveTransfers'
    BY <1>14, StepType DEF MarkFails, Stages
  <2> QED BY <1>14, <2>1, StoreAssumption DEF MarkFails, Fault
<1>15. ASSUME NEW w \in Workers, Notify(w) PROVE TypeInv'
  <2>1. tasks[w].transfer \in Transfers /\ tasks[w].source \in Sources
    BY <1>15 DEF Notify, TasksHaveTransfers, Tasks
  <2>2. notices' \in [Transfers -> [Sources -> Nat]]
    BY <1>15, <2>1 DEF Notify
  <2> QED BY <1>15, <2>1, <2>2, FinishType DEF Notify, storeVars
<1>16. ASSUME NEW w \in Workers, StatementFails(w) PROVE TypeInv'
  BY <1>16, RejectType, StoreAssumption DEF StatementFails, Fault
<1>17. ASSUME NEW w \in Workers, WorkerLost(w) PROVE TypeInv'
  <2>1. Idle \in Tasks /\ Idle.pc = "idle"
    BY DEF Idle, NoLinkRow, LinkRows, LinkStatus, Tasks, Stages, Sources
  <2>2. tasks' \in [Workers -> Tasks] /\ TasksHaveTransfers'
    BY <1>17, <2>1 DEF WorkerLost, TasksHaveTransfers
  <2> QED BY <1>17, <2>2, StoreAssumption DEF WorkerLost, Fault
<1>18. CASE UNCHANGED settlementAloneVars
  BY <1>18 DEF settlementAloneVars, TasksHaveTransfers
<1> QED BY <1>1, <1>2, <1>3, <1>4, <1>5, <1>6, <1>7, <1>8, <1>9, <1>10, <1>11, <1>12,
           <1>13, <1>14, <1>15, <1>16, <1>17, <1>18 DEF SettlementNext, Progress

\* So does the deletion of an invoice by another component.
LEMMA DeletedType ==
  ASSUME TypeInv, NEW i \in Invoices, InvoiceDeleted(i)
  PROVE  TypeInv'
<1> USE DEF TypeInv, SettlementAloneTypeOK, StoreTypeOK, SettlementTypeOK
<1>1. [NoInvoiceRow EXCEPT !.status = "deleted"] \in InvoiceRows /\ NoLinkRow \in LinkRows
  BY DEF NoInvoiceRow, InvoiceRows, InvoiceStatus, Methods, NoLinkRow, LinkRows, LinkStatus
<1>2. invoices' \in [Invoices -> InvoiceRows] /\ links' \in [Refs -> LinkRows]
  BY <1>1 DEF InvoiceDeleted, DeleteInvoiceRow
<1>3. \A e \in EventRows : [e EXCEPT !.invoice = None] \in EventRows
  BY DEF EventRows
<1>4. events' \subseteq EventRows
  BY <1>3 DEF InvoiceDeleted, DeleteInvoiceRow
<1> QED BY <1>2, <1>4 DEF InvoiceDeleted, TasksHaveTransfers

\* The tables, the bank and the workers always hold values of their types,
\* whatever the number of workers, transfers and failures.
THEOREM TypeCorrect == SettlementSafeSpec => []SettlementAloneTypeOK
<1>1. SettlementSafeSpec => []TypeInv
  <2>1. TypeInv /\ [SettlementAloneNext]_settlementAloneVars => TypeInv'
    BY NextType, DeletedType DEF SettlementAloneNext
  <2> QED BY InitType, <2>1, PTL DEF SettlementSafeSpec
<1>2. TypeInv => SettlementAloneTypeOK
  BY DEF TypeInv
<1> QED BY <1>1, <1>2, PTL

-----------------------------------------------------------------------------
(* Idempotence.  A worker that has recorded its transaction is the only one   *)
(* to have done so, because the insert into payment_events succeeds once; and *)
(* as long as it works on the transaction nobody has been notified of it.     *)

Handling(w) == tasks[w].pc \in {"settle", "reload", "mark", "notify"}

HandledOnce ==
  \A v, w \in Workers :
    (/\ Handling(v) /\ Handling(w)
     /\ tasks[v].transfer = tasks[w].transfer
     /\ tasks[v].source = tasks[w].source) => v = w

HandledIsRecorded ==
  \A w \in Workers : Handling(w) =>
    EventRecorded(RefOf(w), tasks[w].transfer, tasks[w].source)

HandledIsUnnotified ==
  \A w \in Workers : Handling(w) => notices[tasks[w].transfer][tasks[w].source] = 0

NotifiedIsRecorded ==
  \A t \in Transfers, s \in Sources :
    notices[t][s] > 0 => EventRecorded(bank[t].ref, t, s)

IdempotenceInv ==
  /\ HandledOnce /\ HandledIsRecorded /\ HandledIsUnnotified
  /\ NotifiedIsRecorded /\ NotifiedOncePerReference

\* A worker works on the same transaction after the step as before it.
SameTransaction(w) ==
  /\ Handling(w)
  /\ tasks'[w].transfer = tasks[w].transfer
  /\ tasks'[w].source = tasks[w].source

\* A step that lets nobody begin with a transaction, forgets no event and
\* notifies nobody keeps the invariant.
LEMMA QuietStep ==
  ASSUME TypeInv, IdempotenceInv,
         \A w \in Workers : Handling(w)' => SameTransaction(w),
         \A t \in Transfers : bank'[t].ref = bank[t].ref,
         \A r \in Refs, t \in Transfers, s \in Sources :
           EventRecorded(r, t, s) => EventRecorded(r, t, s)',
         notices' = notices
  PROVE  IdempotenceInv'
<1> USE DEF IdempotenceInv
<1>1. \A t \in Transfers : bank[t].ref \in Refs
  BY DEF TypeInv, SettlementAloneTypeOK, SettlementTypeOK, BankRows
<1>2. ASSUME NEW w \in Workers, Handling(w)
      PROVE  tasks[w].transfer \in Transfers /\ tasks[w].source \in Sources
  BY <1>2 DEF Handling, TypeInv, TasksHaveTransfers, SettlementAloneTypeOK, SettlementTypeOK, Tasks
<1>3. HandledOnce'
  BY DEF HandledOnce, SameTransaction
<1>4. HandledIsRecorded'
  <2> SUFFICES ASSUME NEW w \in Workers, Handling(w)'
               PROVE  EventRecorded(RefOf(w), tasks[w].transfer, tasks[w].source)'
    BY DEF HandledIsRecorded
  <2>1. EventRecorded(bank[tasks[w].transfer].ref, tasks[w].transfer, tasks[w].source)
    BY DEF HandledIsRecorded, SameTransaction, RefOf
  <2>2. tasks[w].transfer \in Transfers /\ tasks[w].source \in Sources
    BY <1>2 DEF SameTransaction
  <2>3. EventRecorded(bank[tasks[w].transfer].ref, tasks[w].transfer, tasks[w].source)'
    BY <1>1, <2>1, <2>2 DEF SameTransaction, EventRecorded
  <2> QED BY <2>3 DEF RefOf
<1>5. HandledIsUnnotified'
  BY DEF HandledIsUnnotified, SameTransaction
<1>6. NotifiedIsRecorded'
  BY <1>1 DEF NotifiedIsRecorded, EventRecorded
<1>7. NotifiedOncePerReference'
  BY DEF NotifiedOncePerReference
<1> QED BY <1>3, <1>4, <1>5, <1>6, <1>7

\* What Rest leaves of a task is not handling a transaction.
LEMMA RestIsQuiet ==
  ASSUME TypeInv, NEW w \in Workers, tasks' = [tasks EXCEPT ![w] = Rest(@)]
  PROVE  \A v \in Workers : Handling(v)' => SameTransaction(v)
<1>1. tasks \in [Workers -> Tasks] /\ Rest(tasks[w]).pc \in {"idle", "next"}
  BY RestType DEF TypeInv, SettlementAloneTypeOK, SettlementTypeOK
<1>2. \A v \in Workers : tasks'[v] = IF v = w THEN Rest(tasks[w]) ELSE tasks[v]
  BY <1>1
<1> QED BY <1>1, <1>2 DEF Handling, SameTransaction

LEMMA FinishKeepsRefs ==
  ASSUME TypeInv, NEW w \in Workers, Finish(w)
  PROVE  \A t \in Transfers : bank'[t].ref = bank[t].ref
BY DEF Finish, TypeInv, SettlementAloneTypeOK, SettlementTypeOK, BankRows

\* Moving on within a transaction, or before it is recorded, is quiet.
LEMMA StepIsQuiet ==
  ASSUME TypeInv, NEW w \in Workers, NEW from, NEW to, Step(w, from, to),
         to \in {"settle", "reload", "mark", "notify"} =>
           from \in {"settle", "reload", "mark", "notify"}
  PROVE  \A v \in Workers : Handling(v)' => SameTransaction(v)
<1>1. tasks \in [Workers -> Tasks]
  BY DEF TypeInv, SettlementAloneTypeOK, SettlementTypeOK
<1>2. tasks[w].pc = from
  BY DEF Step
<1>3. \A v \in Workers : tasks'[v] = IF v = w THEN [tasks[w] EXCEPT !.pc = to] ELSE tasks[v]
  BY <1>1 DEF Step
<1>4. /\ tasks'[w].pc = to /\ tasks'[w].transfer = tasks[w].transfer
      /\ tasks'[w].source = tasks[w].source
  BY <1>1, <1>3 DEF Tasks
<1> QED BY <1>2, <1>3, <1>4 DEF Handling, SameTransaction

\* Recording a transaction that is to be settled: nobody had recorded it, so
\* nobody handles it and nobody was notified of it.
LEMMA RecordKeepsIdempotence ==
  ASSUME TypeInv, IdempotenceInv, NEW w \in Workers, RecordEvent(w), ~AuditOnly(w)
  PROVE  IdempotenceInv'
<1> DEFINE t == tasks[w].transfer
           s == tasks[w].source
           new == [ref |-> RefOf(w), transfer |-> t, source |-> s,
                   invoice |-> InvoiceOf(w), amount |-> AmountOf(w)]
<1> USE DEF IdempotenceInv
<1>1. /\ tasks \in [Workers -> Tasks] /\ bank \in [Transfers -> BankRows]
      /\ notices \in [Transfers -> [Sources -> Nat]]
  BY DEF TypeInv, SettlementAloneTypeOK, SettlementTypeOK
<1>2. t \in Transfers /\ s \in Sources
  BY <1>1 DEF RecordEvent, TypeInv, TasksHaveTransfers, Tasks
<1>3. /\ ~EventRecorded(RefOf(w), t, s) /\ events' = events \cup {new}
      /\ bank' = bank /\ notices' = notices
  BY DEF RecordEvent, EventInsertable, InsertEventRow
<1>4. tasks' = [tasks EXCEPT ![w].pc = "settle"]
  BY DEF RecordEvent
<1>5. /\ Handling(w)' /\ tasks'[w].transfer = t /\ tasks'[w].source = s
      /\ \A v \in Workers \ {w} : tasks'[v] = tasks[v]
  BY <1>1, <1>4 DEF Handling, Tasks
<1>6. \A r \in Refs, x \in Transfers, y \in Sources :
        EventRecorded(r, x, y) => EventRecorded(r, x, y)'
  BY <1>3 DEF EventRecorded
<1>7. EventRecorded(RefOf(w), t, s)'
  <2>1. new \in events' /\ RefOf(w)' = RefOf(w)
    BY <1>3, <1>5 DEF RefOf
  <2>2. new.ref = RefOf(w) /\ new.transfer = t /\ new.source = s
    OBVIOUS
  <2>3. t' = t /\ s' = s
    BY <1>5
  <2> HIDE DEF new, t, s
  <2> QED BY <2>1, <2>2, <2>3 DEF EventRecorded
<1>8. ASSUME NEW v \in Workers, v # w, Handling(v)
      PROVE  tasks[v].transfer # t \/ tasks[v].source # s
  BY <1>3, <1>8 DEF HandledIsRecorded, RefOf
<1>9. HandledOnce'
  BY <1>5, <1>8 DEF HandledOnce, Handling
<1>10. HandledIsRecorded'
  <2> SUFFICES ASSUME NEW v \in Workers, Handling(v)'
               PROVE  EventRecorded(RefOf(v), tasks[v].transfer, tasks[v].source)'
    BY DEF HandledIsRecorded
  <2>1. CASE v = w
    <3>1. EventRecorded(RefOf(w), tasks[w].transfer, tasks[w].source)'
      BY <1>7, <1>5
    <3> QED BY <3>1, <2>1
  <2>2. CASE v # w
    <3>1. Handling(v) /\ tasks'[v] = tasks[v]
      BY <1>5, <2>2 DEF Handling
    <3>2. /\ EventRecorded(RefOf(v), tasks[v].transfer, tasks[v].source)
          /\ tasks[v].transfer \in Transfers /\ tasks[v].source \in Sources
      BY <1>1, <3>1 DEF HandledIsRecorded, Handling, TypeInv, TasksHaveTransfers, Tasks
    <3>3. RefOf(v) \in Refs /\ RefOf(v)' = RefOf(v)
      BY <1>1, <1>3, <3>1, <3>2 DEF RefOf, BankRows
    <3> QED BY <1>3, <3>1, <3>2, <3>3 DEF EventRecorded
  <2> QED BY <2>1, <2>2
<1>11. HandledIsUnnotified'
  <2>1. notices[t][s] = 0
    BY <1>1, <1>2, <1>3 DEF NotifiedIsRecorded, RefOf
  <2> QED BY <1>3, <1>5, <2>1 DEF HandledIsUnnotified, Handling
<1>12. NotifiedIsRecorded'
  BY <1>1, <1>3 DEF NotifiedIsRecorded, EventRecorded
<1>13. NotifiedOncePerReference'
  BY <1>3 DEF NotifiedOncePerReference
<1> QED BY <1>9, <1>10, <1>11, <1>12, <1>13

\* Notifying ends the handling: the count goes from 0 to 1.
LEMMA NotifyKeepsIdempotence ==
  ASSUME TypeInv, IdempotenceInv, NEW w \in Workers, Notify(w)
  PROVE  IdempotenceInv'
<1> DEFINE t == tasks[w].transfer
           s == tasks[w].source
<1> USE DEF IdempotenceInv
<1>1. /\ tasks \in [Workers -> Tasks] /\ bank \in [Transfers -> BankRows]
      /\ notices \in [Transfers -> [Sources -> Nat]]
  BY DEF TypeInv, SettlementAloneTypeOK, SettlementTypeOK
<1>2. t \in Transfers /\ s \in Sources /\ Handling(w)
  BY <1>1 DEF Notify, Handling, TypeInv, TasksHaveTransfers, Tasks
<1>3. /\ notices' = [notices EXCEPT ![t][s] = @ + 1] /\ events' = events
      /\ notices[t][s] = 0
  BY <1>2 DEF Notify, storeVars, HandledIsUnnotified
<1>4. /\ \A v \in Workers : Handling(v)' => SameTransaction(v)
      /\ \A x \in Transfers : bank'[x].ref = bank[x].ref
  BY RestIsQuiet, FinishKeepsRefs DEF Notify, Finish
<1>5. ~Handling(w)'
  <2>1. tasks'[w] = Rest(tasks[w])
    BY <1>1 DEF Notify, Finish
  <2> QED BY <1>1, <2>1, RestType DEF Handling
<1>6. HandledOnce'
  BY <1>4 DEF HandledOnce, SameTransaction
<1>7. HandledIsRecorded'
  BY <1>1, <1>3, <1>4 DEF HandledIsRecorded, SameTransaction, RefOf, EventRecorded,
     Handling, TypeInv, TasksHaveTransfers
<1>8. HandledIsUnnotified'
  <2> SUFFICES ASSUME NEW v \in Workers, Handling(v)'
               PROVE  notices'[tasks'[v].transfer][tasks'[v].source] = 0
    BY DEF HandledIsUnnotified
  <2>1. /\ Handling(v) /\ v # w
        /\ tasks'[v].transfer = tasks[v].transfer /\ tasks'[v].source = tasks[v].source
    BY <1>4, <1>5 DEF SameTransaction
  <2>2. tasks[v].transfer # t \/ tasks[v].source # s
    BY <1>2, <2>1 DEF HandledOnce
  <2>3. tasks[v].transfer \in Transfers /\ tasks[v].source \in Sources
    BY <1>1, <2>1 DEF Handling, TypeInv, TasksHaveTransfers, Tasks
  <2>4. notices[tasks[v].transfer][tasks[v].source] = 0
    BY <2>1 DEF HandledIsUnnotified
  <2> QED BY <1>1, <1>2, <1>3, <2>1, <2>2, <2>3, <2>4
<1>9. NotifiedIsRecorded'
  <2>1. EventRecorded(bank[t].ref, t, s)
    BY <1>2 DEF HandledIsRecorded, RefOf
  <2> QED BY <1>1, <1>2, <1>3, <1>4, <2>1 DEF NotifiedIsRecorded, EventRecorded
<1>10. NotifiedOncePerReference'
  BY <1>1, <1>2, <1>3 DEF NotifiedOncePerReference
<1> QED BY <1>6, <1>7, <1>8, <1>9, <1>10

\* Every step of the component keeps the invariant.
LEMMA NextIdempotent ==
  TypeInv /\ IdempotenceInv /\ [SettlementNext]_settlementAloneVars => IdempotenceInv'
<1> SUFFICES ASSUME TypeInv, IdempotenceInv, [SettlementNext]_settlementAloneVars
             PROVE  IdempotenceInv'
  OBVIOUS
<1> DEFINE Quiet == \A v \in Workers : Handling(v)' => SameTransaction(v)
           SameRefs == \A t \in Transfers : bank'[t].ref = bank[t].ref
<1>0. /\ tasks \in [Workers -> Tasks] /\ bank \in [Transfers -> BankRows]
  BY DEF TypeInv, SettlementAloneTypeOK, SettlementTypeOK
<1>1. ASSUME Quiet, SameRefs, events' = events, notices' = notices PROVE IdempotenceInv'
  BY <1>1, QuietStep DEF EventRecorded
<1>2. ASSUME NEW t \in Transfers, MakeTransfer(t) PROVE IdempotenceInv'
  <2>1. Quiet
    BY <1>2 DEF MakeTransfer, Handling, SameTransaction
  <2>2. SameRefs
    BY <1>0, <1>2 DEF MakeTransfer, BankRows
  <2> QED BY <1>1, <1>2, <2>1, <2>2 DEF MakeTransfer, storeVars
<1>3. ASSUME NEW w \in Workers, NEW t \in Transfers, DeliverWebhook(w, t)
      PROVE  IdempotenceInv'
  <2>1. Quiet
    BY <1>0, <1>3 DEF DeliverWebhook, Handling, SameTransaction, Idle
  <2> QED BY <1>1, <1>3, <2>1 DEF DeliverWebhook, storeVars
<1>4. ASSUME NEW w \in Workers, StartReconcile(w) PROVE IdempotenceInv'
  <2>1. Quiet
    BY <1>0, <1>4 DEF StartReconcile, Handling, SameTransaction, Idle
  <2> QED BY <1>1, <1>4, <2>1 DEF StartReconcile, storeVars
<1>5. ASSUME NEW w \in Workers, NextTransaction(w) PROVE IdempotenceInv'
  <2>1. PICK t \in tasks[w].todo :
          tasks' = [tasks EXCEPT ![w] = [tasks[w] EXCEPT !.pc = "check", !.transfer = t,
                                                         !.todo = @ \ {t}]]
    BY <1>5 DEF NextTransaction
  <2>2. Quiet
    BY <1>0, <2>1 DEF Handling, SameTransaction, Tasks
  <2> QED BY <1>1, <1>5, <2>2 DEF NextTransaction, storeVars
<1>6. ASSUME NEW w \in Workers, SkipRecorded(w) PROVE IdempotenceInv'
  BY <1>1, <1>6, RestIsQuiet, FinishKeepsRefs DEF SkipRecorded, Finish, storeVars
<1>7. ASSUME NEW w \in Workers, CheckEvent(w) PROVE IdempotenceInv'
  BY <1>1, <1>7, StepIsQuiet DEF CheckEvent, storeVars
<1>8. ASSUME NEW w \in Workers, ReadLink(w) PROVE IdempotenceInv'
  <2>1. tasks' = [tasks EXCEPT ![w] = [tasks[w] EXCEPT !.pc = "record", !.link = links[RefOf(w)]]]
    BY <1>8 DEF ReadLink
  <2>2. Quiet
    BY <1>0, <2>1 DEF Handling, SameTransaction, Tasks
  <2> QED BY <1>1, <1>8, <2>2 DEF ReadLink, storeVars
<1>9. ASSUME NEW w \in Workers, RecordEvent(w) PROVE IdempotenceInv'
  <2>1. CASE AuditOnly(w)
    <3>1. Quiet /\ SameRefs /\ notices' = notices
      BY <1>9, <2>1, RestIsQuiet, FinishKeepsRefs DEF RecordEvent, Finish
    <3>2. \A r \in Refs, t \in Transfers, s \in Sources :
            EventRecorded(r, t, s) => EventRecorded(r, t, s)'
      BY <1>9 DEF RecordEvent, InsertEventRow, EventRecorded
    <3> QED BY <3>1, <3>2, QuietStep
  <2> QED BY <1>9, <2>1, RecordKeepsIdempotence
<1>10. ASSUME NEW w \in Workers, RecordRejected(w) PROVE IdempotenceInv'
  BY <1>1, <1>10, RestIsQuiet DEF RecordRejected, Reject, storeVars
<1>11. ASSUME NEW w \in Workers, SettleInvoice(w) PROVE IdempotenceInv'
  BY <1>1, <1>11, StepIsQuiet DEF SettleInvoice
<1>12. ASSUME NEW w \in Workers, ReloadInvoice(w) PROVE IdempotenceInv'
  BY <1>1, <1>12, StepIsQuiet DEF ReloadInvoice, storeVars
<1>13. ASSUME NEW w \in Workers, InvoiceGone(w) PROVE IdempotenceInv'
  BY <1>1, <1>13, RestIsQuiet DEF InvoiceGone, Reject, storeVars
<1>14. ASSUME NEW w \in Workers, MarkLinkPaid(w) PROVE IdempotenceInv'
  BY <1>1, <1>14, StepIsQuiet DEF MarkLinkPaid
<1>15. ASSUME NEW w \in Workers, Notify(w) PROVE IdempotenceInv'
  BY <1>15, NotifyKeepsIdempotence
<1>16. ASSUME NEW w \in Workers, MarkFails(w) PROVE IdempotenceInv'
  BY <1>1, <1>16, StepIsQuiet DEF MarkFails
<1>17. ASSUME NEW w \in Workers, StatementFails(w) PROVE IdempotenceInv'
  BY <1>1, <1>17, RestIsQuiet DEF StatementFails, Reject
<1>18. ASSUME NEW w \in Workers, WorkerLost(w) PROVE IdempotenceInv'
  <2>1. Quiet
    BY <1>0, <1>18 DEF WorkerLost, Handling, SameTransaction, Idle
  <2> QED BY <1>1, <1>18, <2>1 DEF WorkerLost
<1>19. CASE UNCHANGED settlementAloneVars
  <2>1. Quiet
    BY <1>19 DEF settlementAloneVars, Handling, SameTransaction
  <2> QED BY <1>1, <1>19, <2>1 DEF settlementAloneVars
<1> QED BY <1>2, <1>3, <1>4, <1>5, <1>6, <1>7, <1>8, <1>9, <1>10, <1>11, <1>12, <1>13,
           <1>14, <1>15, <1>16, <1>17, <1>18, <1>19 DEF SettlementNext, Progress

\* Deleting an invoice clears the invoice of its events and keeps the events.
LEMMA DeletedIdempotent ==
  ASSUME TypeInv, IdempotenceInv, NEW i \in Invoices, InvoiceDeleted(i)
  PROVE  IdempotenceInv'
<1>1. ASSUME NEW r, NEW t, NEW s, EventRecorded(r, t, s)
      PROVE  EventRecorded(r, t, s)'
  <2>1. PICK e \in events : e.ref = r /\ e.transfer = t /\ e.source = s
    BY <1>1 DEF EventRecorded
  <2>2. e \in EventRows
    BY DEF TypeInv, SettlementAloneTypeOK, StoreTypeOK
  <2> DEFINE kept == IF e.invoice = i THEN [e EXCEPT !.invoice = None] ELSE e
  <2>3. kept \in events'
    BY DEF InvoiceDeleted, DeleteInvoiceRow
  <2>4. kept.ref = r /\ kept.transfer = t /\ kept.source = s
    BY <2>1, <2>2 DEF EventRows
  <2> QED BY <2>3, <2>4 DEF EventRecorded
<1>2. \A w \in Workers : Handling(w)' => SameTransaction(w)
  BY DEF InvoiceDeleted, Handling, SameTransaction
<1> QED BY <1>1, <1>2, QuietStep DEF InvoiceDeleted

LEMMA InitIdempotent == SettlementAloneInit => IdempotenceInv
BY DEF SettlementAloneInit, SettlementInit, Idle, IdempotenceInv, Handling, HandledOnce,
       HandledIsRecorded, HandledIsUnnotified, NotifiedIsRecorded, NotifiedOncePerReference

\* Tenants are notified at most once of a transaction reference, however many
\* deliveries of it run at once and whatever fails (lines 222-261, 273-316).
THEOREM Idempotent == SettlementSafeSpec => []NotifiedOncePerReference
<1>1. SettlementSafeSpec => [](TypeInv /\ IdempotenceInv)
  <2>1. TypeInv /\ IdempotenceInv /\ [SettlementAloneNext]_settlementAloneVars
          => (TypeInv /\ IdempotenceInv)'
    BY NextType, DeletedType, NextIdempotent, DeletedIdempotent DEF SettlementAloneNext
  <2> QED BY InitType, InitIdempotent, <2>1, PTL DEF SettlementSafeSpec
<1>2. IdempotenceInv => NotifiedOncePerReference
  BY DEF IdempotenceInv
<1> QED BY <1>1, <1>2, PTL


-----------------------------------------------------------------------------
(* A worker's copy of its link.                                              *)

Copied(w) == tasks[w].pc \in {"record", "settle", "reload", "mark", "notify"}
Settled(w) == tasks[w].pc \in {"reload", "mark", "notify"}

\* A link's invoice is there, and no link has none.
ForeignKeys ==
  \A r \in Refs :
    /\ LinkExists(r) => links[r].invoice \in Invoices /\ InvoiceExists(links[r].invoice)
    /\ ~LinkExists(r) => links[r].invoice = None

\* The copy agrees with the link, which lives as long as its invoice.
CopyIsTrue ==
  \A w \in Workers : Copied(w) =>
    /\ LinkExists(RefOf(w)) => /\ links[RefOf(w)].invoice = InvoiceOf(w)
                               /\ links[RefOf(w)].amount = tasks[w].link.amount
    /\ InvoiceOf(w) \in Invoices /\ InvoiceExists(InvoiceOf(w)) => LinkExists(RefOf(w))

\* Only a payment in full is settled.
HandledPays ==
  \A w \in Workers : Handling(w) =>
    InvoiceOf(w) \in Invoices /\ AmountOf(w) >= tasks[w].link.amount

\* Past its UPDATE the invoice is PAID, unless it has been deleted.
SettledIsPaid ==
  \A w \in Workers : Settled(w) /\ InvoiceExists(InvoiceOf(w)) =>
    invoices[InvoiceOf(w)].status = "PAID"

CopyInv == ForeignKeys /\ CopyIsTrue /\ HandledPays /\ SettledIsPaid

-----------------------------------------------------------------------------
(* The invariant is inductive.                                               *)

\* What a worker that has a transaction works with.
LEMMA Working ==
  ASSUME TypeInv, NEW w \in Workers, tasks[w].pc \notin {"idle", "next"}
  PROVE  /\ tasks[w] \in Tasks /\ tasks[w].transfer \in Transfers
         /\ tasks[w].source \in Sources /\ RefOf(w) \in Refs /\ AmountOf(w) \in Nat
         /\ links[RefOf(w)] \in LinkRows /\ tasks[w].link \in LinkRows
<1> USE DEF TypeInv, SettlementAloneTypeOK, StoreTypeOK, SettlementTypeOK
<1>1. tasks[w] \in Tasks /\ tasks[w].transfer \in Transfers
  BY DEF TasksHaveTransfers
<1>2. bank[tasks[w].transfer] \in BankRows
  BY <1>1
<1>3. RefOf(w) \in Refs /\ AmountOf(w) \in Nat
  BY <1>2, StoreAssumption DEF RefOf, AmountOf, BankRows
<1> QED BY <1>1, <1>3 DEF Tasks

\* A step that leaves w's copy, and what it has decided on it, as they are.
KeepsCopy(w) ==
  Copied(w)' =>
    /\ Copied(w) /\ tasks'[w].transfer = tasks[w].transfer /\ tasks'[w].link = tasks[w].link
    /\ Handling(w)' => Handling(w)
    /\ Settled(w)' => Settled(w)

SameTransfers ==
  \A t \in Transfers : bank'[t].ref = bank[t].ref /\ bank'[t].amount = bank[t].amount

\* The part of the invariant that is about one worker.
LEMMA CalmWorker ==
  ASSUME TypeInv, SameTransfers, NEW w \in Workers, KeepsCopy(w), Copied(w)'
  PROVE  /\ RefOf(w)' = RefOf(w) /\ AmountOf(w)' = AmountOf(w) /\ InvoiceOf(w)' = InvoiceOf(w)
         /\ tasks'[w].link = tasks[w].link /\ RefOf(w) \in Refs
<1>1. Copied(w) /\ tasks'[w].transfer = tasks[w].transfer /\ tasks'[w].link = tasks[w].link
  BY DEF KeepsCopy
<1>2. tasks[w].transfer \in Transfers /\ RefOf(w) \in Refs
  BY <1>1, Working DEF Copied
<1> QED BY <1>1, <1>2 DEF SameTransfers, RefOf, AmountOf, InvoiceOf

\* A step that changes neither table and lets nobody go further keeps it.
LEMMA CalmStep ==
  ASSUME TypeInv, CopyInv, links' = links, invoices' = invoices, SameTransfers,
         \A w \in Workers : KeepsCopy(w)
  PROVE  CopyInv'
<1>1. ForeignKeys'
  BY DEF CopyInv, ForeignKeys, LinkExists, InvoiceExists
<1>2. CopyIsTrue'
  <2> SUFFICES ASSUME NEW w \in Workers, Copied(w)'
               PROVE  /\ LinkExists(RefOf(w))' => /\ links'[RefOf(w)'].invoice = InvoiceOf(w)'
                                                  /\ links'[RefOf(w)'].amount = tasks'[w].link.amount
                      /\ InvoiceOf(w)' \in Invoices /\ InvoiceExists(InvoiceOf(w))' => LinkExists(RefOf(w))'
    BY DEF CopyIsTrue
  <2>1. /\ RefOf(w)' = RefOf(w) /\ InvoiceOf(w)' = InvoiceOf(w)
        /\ tasks'[w].link = tasks[w].link /\ Copied(w)
    BY CalmWorker DEF KeepsCopy
  <2> QED BY <2>1 DEF CopyInv, CopyIsTrue, LinkExists, InvoiceExists
<1>3. HandledPays'
  <2> SUFFICES ASSUME NEW w \in Workers, Handling(w)'
               PROVE  InvoiceOf(w)' \in Invoices /\ AmountOf(w)' >= tasks'[w].link.amount
    BY DEF HandledPays
  <2>1. Copied(w)'
    BY DEF Handling, Copied
  <2>2. /\ AmountOf(w)' = AmountOf(w) /\ InvoiceOf(w)' = InvoiceOf(w)
        /\ tasks'[w].link = tasks[w].link /\ Handling(w)
    BY <2>1, CalmWorker DEF KeepsCopy
  <2> QED BY <2>2 DEF CopyInv, HandledPays
<1>4. SettledIsPaid'
  <2> SUFFICES ASSUME NEW w \in Workers, Settled(w)', InvoiceExists(InvoiceOf(w))'
               PROVE  invoices'[InvoiceOf(w)'].status = "PAID"
    BY DEF SettledIsPaid
  <2>1. Copied(w)'
    BY DEF Settled, Copied
  <2>2. InvoiceOf(w)' = InvoiceOf(w) /\ Settled(w)
    BY <2>1, CalmWorker DEF KeepsCopy
  <2> QED BY <2>2 DEF CopyInv, SettledIsPaid, InvoiceExists
<1> QED BY <1>1, <1>2, <1>3, <1>4 DEF CopyInv

\* Stopping with a transaction gives the copy up.
LEMMA RestKeepsCopies ==
  ASSUME TypeInv, NEW w \in Workers, tasks' = [tasks EXCEPT ![w] = Rest(@)]
  PROVE  \A v \in Workers : KeepsCopy(v)
<1>1. tasks \in [Workers -> Tasks] /\ Rest(tasks[w]).pc \in {"idle", "next"}
  BY RestType DEF TypeInv, SettlementAloneTypeOK, SettlementTypeOK
<1>2. \A v \in Workers : tasks'[v] = IF v = w THEN Rest(tasks[w]) ELSE tasks[v]
  BY <1>1
<1> QED BY <1>1, <1>2 DEF KeepsCopy, Copied, Handling, Settled

\* So does a step of w from one stage to another that decides nothing.
LEMMA StepKeepsCopies ==
  ASSUME TypeInv, NEW w \in Workers, NEW from, NEW to, Step(w, from, to),
         \/ to \notin {"record", "settle", "reload", "mark", "notify"}
         \/ from \in {"reload", "mark"} /\ to \in {"mark", "notify"}
  PROVE  \A v \in Workers : KeepsCopy(v)
<1>1. tasks \in [Workers -> Tasks] /\ tasks[w].pc = from
  BY DEF Step, TypeInv, SettlementAloneTypeOK, SettlementTypeOK
<1>2. \A v \in Workers : tasks'[v] = IF v = w THEN [tasks[w] EXCEPT !.pc = to] ELSE tasks[v]
  BY <1>1 DEF Step
<1>3. /\ tasks'[w].pc = to /\ tasks'[w].transfer = tasks[w].transfer
      /\ tasks'[w].link = tasks[w].link
  BY <1>1, <1>2 DEF Tasks
<1> QED BY <1>1, <1>2, <1>3 DEF KeepsCopy, Copied, Handling, Settled

LEMMA FinishKeepsTransfers ==
  ASSUME TypeInv, NEW w \in Workers, Finish(w)
  PROVE  SameTransfers
BY DEF SameTransfers, Finish, TypeInv, SettlementAloneTypeOK, SettlementTypeOK, BankRows

\* The tables before the first payment; nobody has copied anything.
LEMMA InitCopy == SettlementAloneInit => CopyInv
<1> SUFFICES ASSUME SettlementAloneInit PROVE CopyInv
  OBVIOUS
<1>1. PICK live \in SUBSET Invoices, total \in [Invoices -> Amounts] :
        /\ invoices = SeededInvoices(live, total)
        /\ \E issued \in [Refs -> live \cup {None}], asked \in [Refs -> Amounts] :
             links = SeededLinks(total, issued, asked)
  BY DEF SettlementAloneInit, SeededStore
<1>2. PICK issued \in [Refs -> live \cup {None}], asked \in [Refs -> Amounts] :
        links = SeededLinks(total, issued, asked)
  BY <1>1
<1>3. ForeignKeys
  BY <1>1, <1>2, StoreAssumption
     DEF ForeignKeys, SeededLinks, SeededInvoices, LinkExists, InvoiceExists, NoLinkRow,
         LinkStatus, InvoiceStatus
<1>4. \A w \in Workers : tasks[w].pc = "idle"
  BY DEF SettlementAloneInit, SettlementInit, Idle
<1> QED BY <1>3, <1>4 DEF CopyInv, CopyIsTrue, HandledPays, SettledIsPaid, Copied, Handling, Settled

\* The copy is made of the link as it is.
LEMMA ReadKeepsCopies ==
  ASSUME TypeInv, CopyInv, NEW w \in Workers, ReadLink(w)
  PROVE  CopyInv'
<1>1. /\ tasks \in [Workers -> Tasks] /\ bank' = bank /\ links' = links /\ invoices' = invoices
      /\ tasks[w].pc = "link"
      /\ tasks' = [tasks EXCEPT ![w] = [tasks[w] EXCEPT !.pc = "record", !.link = links[RefOf(w)]]]
  BY DEF ReadLink, storeVars, TypeInv, SettlementAloneTypeOK, SettlementTypeOK
<1>2. RefOf(w) \in Refs /\ tasks[w] \in Tasks
  BY <1>1, Working
<1>3. /\ tasks'[w].pc = "record" /\ tasks'[w].link = links[RefOf(w)] /\ RefOf(w)' = RefOf(w)
      /\ InvoiceOf(w)' = links[RefOf(w)].invoice
      /\ \A v \in Workers \ {w} : tasks'[v] = tasks[v]
  BY <1>1, <1>2 DEF Tasks, RefOf, InvoiceOf
<1>4. ForeignKeys'
  BY <1>1 DEF CopyInv, ForeignKeys, LinkExists, InvoiceExists
<1>5. CopyIsTrue'
  <2> SUFFICES ASSUME NEW v \in Workers, Copied(v)'
               PROVE  /\ LinkExists(RefOf(v))' => /\ links'[RefOf(v)'].invoice = InvoiceOf(v)'
                                                  /\ links'[RefOf(v)'].amount = tasks'[v].link.amount
                      /\ InvoiceOf(v)' \in Invoices /\ InvoiceExists(InvoiceOf(v))' => LinkExists(RefOf(v))'
    BY DEF CopyIsTrue
  <2>1. CASE v = w
    <3>1. links[RefOf(w)].invoice \in Invoices => LinkExists(RefOf(w))
      BY <1>2, StoreAssumption DEF CopyInv, ForeignKeys
    <3> QED BY <1>1, <1>3, <2>1, <3>1 DEF LinkExists
  <2>2. CASE v # w
    BY <1>1, <1>3, <2>2 DEF CopyInv, CopyIsTrue, Copied, RefOf, InvoiceOf, LinkExists, InvoiceExists
  <2> QED BY <2>1, <2>2
<1>6. HandledPays'
  BY <1>1, <1>3 DEF CopyInv, HandledPays, Handling, RefOf, InvoiceOf, AmountOf
<1>7. SettledIsPaid'
  BY <1>1, <1>3 DEF CopyInv, SettledIsPaid, Settled, InvoiceOf, InvoiceExists
<1> QED BY <1>4, <1>5, <1>6, <1>7 DEF CopyInv

\* The decision: what is not for audit only pays the copied link in full.
LEMMA RecordKeepsCopies ==
  ASSUME TypeInv, CopyInv, NEW w \in Workers, RecordEvent(w)
  PROVE  CopyInv'
<1>1. CASE AuditOnly(w)
  <2>1. Finish(w) /\ links' = links /\ invoices' = invoices
    BY <1>1 DEF RecordEvent
  <2> QED BY <2>1, CalmStep, RestKeepsCopies, FinishKeepsTransfers DEF Finish
<1>2. CASE ~AuditOnly(w)
  <2>1. /\ tasks \in [Workers -> Tasks] /\ bank' = bank /\ links' = links /\ invoices' = invoices
        /\ tasks[w].pc = "record" /\ tasks' = [tasks EXCEPT ![w] = [tasks[w] EXCEPT !.pc = "settle"]]
    BY <1>2 DEF RecordEvent, TypeInv, SettlementAloneTypeOK, SettlementTypeOK
  <2>2. tasks[w] \in Tasks /\ AmountOf(w) \in Nat /\ tasks[w].link \in LinkRows
    BY <2>1, Working
  <2>3. InvoiceOf(w) \in Invoices /\ AmountOf(w) >= tasks[w].link.amount
    BY <1>2, <2>2 DEF AuditOnly, InvoiceOf, LinkRows
  <2>4. /\ tasks'[w].pc = "settle" /\ tasks'[w].link = tasks[w].link
        /\ tasks'[w].transfer = tasks[w].transfer
        /\ \A v \in Workers \ {w} : tasks'[v] = tasks[v]
    BY <2>1, <2>2 DEF Tasks
  <2>5. \A v \in Workers : /\ Copied(v)' => Copied(v)
                           /\ RefOf(v)' = RefOf(v) /\ InvoiceOf(v)' = InvoiceOf(v)
                           /\ AmountOf(v)' = AmountOf(v) /\ tasks'[v].link = tasks[v].link
    BY <2>1, <2>4 DEF Copied, Settled, RefOf, InvoiceOf, AmountOf
  <2>6. ForeignKeys'
    BY <2>1 DEF CopyInv, ForeignKeys, LinkExists, InvoiceExists
  <2>7. CopyIsTrue'
    BY <2>1, <2>5 DEF CopyInv, CopyIsTrue, LinkExists, InvoiceExists
  <2>8. HandledPays'
    <3> SUFFICES ASSUME NEW v \in Workers, Handling(v)'
                 PROVE  InvoiceOf(v)' \in Invoices /\ AmountOf(v)' >= tasks'[v].link.amount
      BY DEF HandledPays
    <3>1. CASE v = w
      BY <2>3, <2>5, <3>1
    <3>2. CASE v # w
      BY <2>4, <2>5, <3>2 DEF CopyInv, HandledPays, Handling
    <3> QED BY <3>1, <3>2
  <2>9. SettledIsPaid'
    <3>1. \A v \in Workers : Settled(v)' => Settled(v)
      BY <2>1, <2>4 DEF Settled
    <3> QED BY <2>1, <2>5, <3>1 DEF CopyInv, SettledIsPaid, InvoiceExists
  <2> QED BY <2>6, <2>7, <2>8, <2>9 DEF CopyInv
<1> QED BY <1>1, <1>2

\* The UPDATE makes the invoice PAID.
LEMMA SettleKeepsCopies ==
  ASSUME TypeInv, CopyInv, NEW w \in Workers, SettleInvoice(w)
  PROVE  CopyInv'
<1> DEFINE i == InvoiceOf(w)
<1>1. /\ tasks \in [Workers -> Tasks] /\ bank' = bank /\ links' = links
      /\ invoices \in [Invoices -> InvoiceRows] /\ tasks[w].pc = "settle" /\ InvoiceExists(i)
      /\ tasks' = [tasks EXCEPT ![w] = [tasks[w] EXCEPT !.pc = "reload"]]
      /\ invoices' = [invoices EXCEPT ![i].status = "PAID", ![i].method = ProviderOf[RefOf(w)]]
  BY DEF SettleInvoice, SystemUpdateInvoiceStatusAndMethod, Step, TypeInv, SettlementAloneTypeOK,
         SettlementTypeOK, StoreTypeOK
<1>2. tasks[w] \in Tasks /\ i \in Invoices
  BY <1>1, Working DEF CopyInv, HandledPays, Handling
<1>3. /\ tasks'[w].pc = "reload" /\ tasks'[w].link = tasks[w].link
      /\ tasks'[w].transfer = tasks[w].transfer
      /\ \A v \in Workers \ {w} : tasks'[v] = tasks[v]
  BY <1>1, <1>2 DEF Tasks
<1>4. \A v \in Workers : /\ Copied(v)' => Copied(v)
                         /\ Handling(v)' => Handling(v)
                         /\ RefOf(v)' = RefOf(v) /\ InvoiceOf(v)' = InvoiceOf(v)
                         /\ AmountOf(v)' = AmountOf(v) /\ tasks'[v].link = tasks[v].link
  BY <1>1, <1>3 DEF Copied, Handling, RefOf, InvoiceOf, AmountOf
<1>5. \A j \in Invoices : /\ j # i => invoices'[j] = invoices[j]
                          /\ invoices'[i].status = "PAID"
                          /\ InvoiceExists(j)' <=> InvoiceExists(j)
  BY <1>1, <1>2 DEF InvoiceExists, InvoiceStatus, InvoiceRows
<1>6. ForeignKeys'
  BY <1>1, <1>5 DEF CopyInv, ForeignKeys, LinkExists
<1>7. CopyIsTrue'
  <2> SUFFICES ASSUME NEW v \in Workers, Copied(v)'
               PROVE  /\ LinkExists(RefOf(v))' => /\ links'[RefOf(v)'].invoice = InvoiceOf(v)'
                                                  /\ links'[RefOf(v)'].amount = tasks'[v].link.amount
                      /\ InvoiceOf(v)' \in Invoices /\ InvoiceExists(InvoiceOf(v))' => LinkExists(RefOf(v))'
    BY DEF CopyIsTrue
  <2>1. Copied(v) /\ RefOf(v)' = RefOf(v) /\ InvoiceOf(v)' = InvoiceOf(v) /\ tasks'[v].link = tasks[v].link
    BY <1>4
  <2>2. InvoiceOf(v)' \in Invoices /\ InvoiceExists(InvoiceOf(v))' => InvoiceExists(InvoiceOf(v))
    BY <1>5, <2>1 DEF InvoiceExists
  <2> QED BY <1>1, <2>1, <2>2 DEF CopyInv, CopyIsTrue, LinkExists
<1>8. HandledPays'
  BY <1>4 DEF CopyInv, HandledPays
<1>9. SettledIsPaid'
  <2> SUFFICES ASSUME NEW v \in Workers, Settled(v)', InvoiceExists(InvoiceOf(v))'
               PROVE  invoices'[InvoiceOf(v)'].status = "PAID"
    BY DEF SettledIsPaid
  <2>1. InvoiceOf(v) \in Invoices /\ InvoiceOf(v)' = InvoiceOf(v)
    BY <1>4 DEF CopyInv, HandledPays, Handling, Settled
  <2>2. CASE InvoiceOf(v) = i
    BY <1>2, <1>5, <2>1, <2>2
  <2>3. CASE InvoiceOf(v) # i
    <3>1. v # w /\ Settled(v)
      BY <1>3, <2>3 DEF Settled
    <3>2. InvoiceExists(InvoiceOf(v)) /\ invoices'[InvoiceOf(v)] = invoices[InvoiceOf(v)]
      BY <1>5, <2>1, <2>3 DEF InvoiceExists
    <3> QED BY <2>1, <3>1, <3>2 DEF CopyInv, SettledIsPaid
  <2> QED BY <2>2, <2>3
<1> QED BY <1>6, <1>7, <1>8, <1>9 DEF CopyInv

\* Marking a link PAID touches nothing the copies are compared with.
LEMMA MarkKeepsCopies ==
  ASSUME TypeInv, CopyInv, NEW w \in Workers, MarkLinkPaid(w)
  PROVE  CopyInv'
<1>1. /\ tasks \in [Workers -> Tasks] /\ bank' = bank /\ invoices' = invoices
      /\ links \in [Refs -> LinkRows] /\ tasks[w].pc = "mark"
      /\ tasks' = [tasks EXCEPT ![w] = [tasks[w] EXCEPT !.pc = "notify"]]
      /\ UpdatePaymentLinkStatus(RefOf(w), InvoiceOf(w), "PAID")
  BY DEF MarkLinkPaid, Step, TypeInv, SettlementAloneTypeOK, SettlementTypeOK, StoreTypeOK
<1>2. \A r \in Refs : /\ LinkExists(r)' <=> LinkExists(r)
                      /\ links'[r].invoice = links[r].invoice /\ links'[r].amount = links[r].amount
  BY <1>1 DEF UpdatePaymentLinkStatus, LinksOf, LinkExists, LinkStatus, LinkRows
<1>3. \A v \in Workers : KeepsCopy(v)
  BY <1>1, StepKeepsCopies DEF MarkLinkPaid
<1>4. SameTransfers
  BY <1>1 DEF SameTransfers
<1>5. ASSUME NEW v \in Workers, Copied(v)'
      PROVE  /\ RefOf(v)' = RefOf(v) /\ RefOf(v) \in Refs /\ InvoiceOf(v)' = InvoiceOf(v)
             /\ AmountOf(v)' = AmountOf(v) /\ tasks'[v].link = tasks[v].link /\ Copied(v)
             /\ (Handling(v)' => Handling(v)) /\ (Settled(v)' => Settled(v))
  BY <1>3, <1>4, <1>5, CalmWorker DEF KeepsCopy
<1>6. ForeignKeys'
  BY <1>1, <1>2 DEF CopyInv, ForeignKeys, InvoiceExists
<1>7. CopyIsTrue'
  <2> SUFFICES ASSUME NEW v \in Workers, Copied(v)'
               PROVE  /\ LinkExists(RefOf(v))' => /\ links'[RefOf(v)'].invoice = InvoiceOf(v)'
                                                  /\ links'[RefOf(v)'].amount = tasks'[v].link.amount
                      /\ InvoiceOf(v)' \in Invoices /\ InvoiceExists(InvoiceOf(v))' => LinkExists(RefOf(v))'
    BY DEF CopyIsTrue
  <2>1. /\ RefOf(v)' = RefOf(v) /\ RefOf(v) \in Refs /\ InvoiceOf(v)' = InvoiceOf(v)
        /\ tasks'[v].link = tasks[v].link /\ Copied(v)
    BY <1>5
  <2>2. LinkExists(RefOf(v))' <=> LinkExists(RefOf(v))
    BY <1>2, <2>1 DEF LinkExists
  <2> QED BY <1>1, <1>2, <2>1, <2>2 DEF CopyInv, CopyIsTrue, InvoiceExists
<1>8. HandledPays'
  BY <1>5 DEF CopyInv, HandledPays, Handling, Copied
<1>9. SettledIsPaid'
  BY <1>1, <1>5 DEF CopyInv, SettledIsPaid, Settled, Copied, InvoiceExists
<1> QED BY <1>6, <1>7, <1>8, <1>9 DEF CopyInv

\* An invoice goes with exactly its links.
LEMMA DeletionKeepsCopies ==
  ASSUME TypeInv, CopyInv, NEW i \in Invoices, InvoiceDeleted(i)
  PROVE  CopyInv'
<1>1. /\ bank' = bank /\ tasks' = tasks /\ invoices \in [Invoices -> InvoiceRows]
      /\ invoices' = [invoices EXCEPT ![i] = [NoInvoiceRow EXCEPT !.status = "deleted"]]
      /\ links' = [r \in Refs |-> IF r \in LinksOf(i) THEN NoLinkRow ELSE links[r]]
  BY DEF InvoiceDeleted, DeleteInvoiceRow, TypeInv, SettlementAloneTypeOK, StoreTypeOK
<1>2. \A v \in Workers : /\ RefOf(v)' = RefOf(v) /\ InvoiceOf(v)' = InvoiceOf(v)
                         /\ AmountOf(v)' = AmountOf(v) /\ tasks'[v] = tasks[v]
                         /\ Copied(v)' <=> Copied(v)
  BY <1>1 DEF RefOf, InvoiceOf, AmountOf, Copied
<1>3. \A j \in Invoices : /\ ~InvoiceExists(i)'
                          /\ j # i => invoices'[j] = invoices[j] /\ (InvoiceExists(j)' <=> InvoiceExists(j))
  BY <1>1 DEF InvoiceExists, NoInvoiceRow, InvoiceStatus
<1>4. \A r \in Refs : IF LinkExists(r) /\ links[r].invoice = i
                      THEN ~LinkExists(r)' /\ links'[r].invoice = None
                      ELSE links'[r] = links[r] /\ (LinkExists(r)' <=> LinkExists(r))
  BY <1>1 DEF LinksOf, LinkExists, NoLinkRow, LinkStatus
<1>5. ForeignKeys'
  BY <1>3, <1>4 DEF CopyInv, ForeignKeys
<1>6. CopyIsTrue'
  <2> SUFFICES ASSUME NEW v \in Workers, Copied(v)'
               PROVE  /\ LinkExists(RefOf(v))' => /\ links'[RefOf(v)'].invoice = InvoiceOf(v)'
                                                  /\ links'[RefOf(v)'].amount = tasks'[v].link.amount
                      /\ InvoiceOf(v)' \in Invoices /\ InvoiceExists(InvoiceOf(v))' => LinkExists(RefOf(v))'
    BY DEF CopyIsTrue
  <2>1. /\ RefOf(v)' = RefOf(v) /\ InvoiceOf(v)' = InvoiceOf(v) /\ tasks'[v].link = tasks[v].link
        /\ Copied(v) /\ RefOf(v) \in Refs
    BY <1>2, Working DEF Copied
  <2>2. IF LinkExists(RefOf(v)) /\ links[RefOf(v)].invoice = i
        THEN ~LinkExists(RefOf(v))' /\ links'[RefOf(v)].invoice = None
        ELSE links'[RefOf(v)] = links[RefOf(v)] /\ (LinkExists(RefOf(v))' <=> LinkExists(RefOf(v)))
    BY <1>4, <2>1 DEF LinkExists
  <2>3. InvoiceOf(v) \in Invoices /\ InvoiceExists(InvoiceOf(v))' =>
          InvoiceOf(v) # i /\ InvoiceExists(InvoiceOf(v))
    BY <1>3, <2>1 DEF InvoiceExists
  <2> QED BY <2>1, <2>2, <2>3 DEF CopyInv, CopyIsTrue
<1>7. HandledPays'
  BY <1>1, <1>2 DEF CopyInv, HandledPays, Handling
<1>8. SettledIsPaid'
  <2> SUFFICES ASSUME NEW v \in Workers, Settled(v)', InvoiceExists(InvoiceOf(v))'
               PROVE  invoices'[InvoiceOf(v)'].status = "PAID"
    BY DEF SettledIsPaid
  <2>1. Settled(v) /\ InvoiceOf(v) \in Invoices /\ InvoiceOf(v)' = InvoiceOf(v)
    BY <1>1, <1>2 DEF CopyInv, HandledPays, Handling, Settled
  <2>2. InvoiceOf(v) # i /\ InvoiceExists(InvoiceOf(v)) /\ invoices'[InvoiceOf(v)] = invoices[InvoiceOf(v)]
    BY <1>3, <2>1 DEF InvoiceExists
  <2> QED BY <2>1, <2>2 DEF CopyInv, SettledIsPaid
<1> QED BY <1>5, <1>6, <1>7, <1>8 DEF CopyInv

LEMMA NextKeepsCopies ==
  TypeInv /\ CopyInv /\ [SettlementAloneNext]_settlementAloneVars => CopyInv'
<1> SUFFICES ASSUME TypeInv, CopyInv, [SettlementAloneNext]_settlementAloneVars PROVE CopyInv'
  OBVIOUS
<1> DEFINE Quiet == \A v \in Workers : KeepsCopy(v)
<1>0. tasks \in [Workers -> Tasks] /\ bank \in [Transfers -> BankRows]
  BY DEF TypeInv, SettlementAloneTypeOK, SettlementTypeOK
<1>1. ASSUME Quiet, SameTransfers, links' = links, invoices' = invoices PROVE CopyInv'
  BY <1>1, CalmStep
<1>2. ASSUME NEW t \in Transfers, MakeTransfer(t) PROVE CopyInv'
  <2>1. Quiet
    BY <1>2 DEF MakeTransfer, KeepsCopy, Copied, Handling, Settled
  <2>2. SameTransfers
    BY <1>0, <1>2 DEF MakeTransfer, BankRows, SameTransfers
  <2> QED BY <1>1, <1>2, <2>1, <2>2 DEF MakeTransfer, storeVars
<1>3. ASSUME NEW w \in Workers, NEW t \in Transfers, DeliverWebhook(w, t) PROVE CopyInv'
  <2>1. Quiet
    BY <1>0, <1>3 DEF DeliverWebhook, KeepsCopy, Copied, Handling, Settled, Idle
  <2> QED BY <1>1, <1>3, <2>1 DEF DeliverWebhook, storeVars, SameTransfers
<1>4. ASSUME NEW w \in Workers, StartReconcile(w) PROVE CopyInv'
  <2>1. Quiet
    BY <1>0, <1>4 DEF StartReconcile, KeepsCopy, Copied, Handling, Settled, Idle
  <2> QED BY <1>1, <1>4, <2>1 DEF StartReconcile, storeVars, SameTransfers
<1>5. ASSUME NEW w \in Workers, NextTransaction(w) PROVE CopyInv'
  <2>1. PICK t \in tasks[w].todo :
          tasks' = [tasks EXCEPT ![w] = [tasks[w] EXCEPT !.pc = "check", !.transfer = t,
                                                         !.todo = @ \ {t}]]
    BY <1>5 DEF NextTransaction
  <2>2. Quiet
    BY <1>0, <2>1 DEF KeepsCopy, Copied, Handling, Settled, Tasks
  <2> QED BY <1>1, <1>5, <2>2 DEF NextTransaction, storeVars, SameTransfers
<1>6. ASSUME NEW w \in Workers, SkipRecorded(w) PROVE CopyInv'
  BY <1>1, <1>6, RestKeepsCopies, FinishKeepsTransfers DEF SkipRecorded, Finish, storeVars
<1>7. ASSUME NEW w \in Workers, CheckEvent(w) PROVE CopyInv'
  BY <1>1, <1>7, StepKeepsCopies DEF CheckEvent, storeVars, SameTransfers
<1>8. ASSUME NEW w \in Workers, RecordRejected(w) PROVE CopyInv'
  BY <1>1, <1>8, RestKeepsCopies DEF RecordRejected, Reject, storeVars, SameTransfers
<1>9. ASSUME NEW w \in Workers, ReloadInvoice(w) PROVE CopyInv'
  BY <1>1, <1>9, StepKeepsCopies DEF ReloadInvoice, storeVars, SameTransfers
<1>10. ASSUME NEW w \in Workers, InvoiceGone(w) PROVE CopyInv'
  BY <1>1, <1>10, RestKeepsCopies DEF InvoiceGone, Reject, storeVars, SameTransfers
<1>11. ASSUME NEW w \in Workers, MarkFails(w) PROVE CopyInv'
  BY <1>1, <1>11, StepKeepsCopies DEF MarkFails, SameTransfers
<1>12. ASSUME NEW w \in Workers, Notify(w) PROVE CopyInv'
  BY <1>1, <1>12, RestKeepsCopies, FinishKeepsTransfers DEF Notify, Finish, storeVars
<1>13. ASSUME NEW w \in Workers, StatementFails(w) PROVE CopyInv'
  BY <1>1, <1>13, RestKeepsCopies DEF StatementFails, Reject, SameTransfers
<1>14. ASSUME NEW w \in Workers, WorkerLost(w) PROVE CopyInv'
  <2>1. Quiet
    BY <1>0, <1>14 DEF WorkerLost, KeepsCopy, Copied, Handling, Settled, Idle
  <2> QED BY <1>1, <1>14, <2>1 DEF WorkerLost, SameTransfers
<1>15. CASE UNCHANGED settlementAloneVars
  <2>1. Quiet
    BY <1>15 DEF settlementAloneVars, KeepsCopy, Copied, Handling, Settled
  <2> QED BY <1>1, <1>15, <2>1 DEF settlementAloneVars, SameTransfers
<1> QED BY <1>2, <1>3, <1>4, <1>5, <1>6, <1>7, <1>8, <1>9, <1>10, <1>11, <1>12, <1>13, <1>14,
           <1>15, ReadKeepsCopies, RecordKeepsCopies, SettleKeepsCopies, MarkKeepsCopies,
           DeletionKeepsCopies DEF SettlementAloneNext, SettlementNext, Progress

-----------------------------------------------------------------------------
(* Steps of the ledger.                                                      *)

LedgerUnchanged ==
  /\ LedgerBrings' = LedgerBrings /\ LedgerBills' = LedgerBills /\ LedgerBook' = LedgerBook
  /\ LedgerSettled' = LedgerSettled /\ LedgerPaid' = LedgerPaid

LEMMA SameBrings == ASSUME SameTransfers PROVE LedgerBrings' = LedgerBrings
BY DEF SameTransfers, LedgerBrings

LEMMA SameBills ==
  ASSUME links' = links
  PROVE  LedgerBills' = LedgerBills /\ LedgerPaid' = LedgerPaid
BY DEF LedgerBills, LedgerPaid, LedgerBill, LinkExists

LEMMA SameBook ==
  ASSUME TypeInv, SameTransfers, notices' = notices,
         \A r \in Refs, t \in Transfers, s \in Sources :
           EventRecorded(r, t, s)' <=> EventRecorded(r, t, s)
  PROVE  LedgerBook' = LedgerBook
<1>1. ASSUME NEW t \in Transfers, NEW s \in Sources
      PROVE  EventRecorded(bank[t].ref, t, s)' <=> EventRecorded(bank[t].ref, t, s)
  <2>1. bank[t].ref \in Refs /\ bank'[t].ref = bank[t].ref
    BY DEF SameTransfers, TypeInv, SettlementAloneTypeOK, SettlementTypeOK, BankRows
  <2> QED BY <2>1 DEF EventRecorded
<1> QED BY <1>1 DEF LedgerBook, LedgerEntry

\* One entry of the book changes.
LEMMA BookUpdate ==
  ASSUME NEW t \in Transfers, NEW s \in Sources, NEW v,
         \A x \in Transfers, y \in Sources :
           LedgerEntry(x, y)' = IF x = t /\ y = s THEN v ELSE LedgerEntry(x, y)
  PROVE  LedgerBook' = [LedgerBook EXCEPT ![t][s] = v]
<1> DEFINE book == [LedgerBook EXCEPT ![t] = [LedgerBook[t] EXCEPT ![s] = v]]
<1>1. \A x \in Transfers : LedgerBook[x] = [y \in Sources |-> LedgerEntry(x, y)]
  BY DEF LedgerBook
<1>2. LedgerBook' = [x \in Transfers |-> [y \in Sources |-> LedgerEntry(x, y)']]
  BY DEF LedgerBook
<1>3. \A x \in Transfers : LedgerBook'[x] = [y \in Sources |-> LedgerEntry(x, y)']
  BY <1>2
<1>4. LedgerBook = [x \in Transfers |-> LedgerBook[x]]
  BY DEF LedgerBook
<1>5. ASSUME NEW x \in Transfers PROVE LedgerBook'[x] = book[x]
  <2>1. CASE x = t
    <3>1. book[x] = [[y \in Sources |-> LedgerEntry(t, y)] EXCEPT ![s] = v]
      BY <1>1, <1>4, <2>1
    <3>2. \A y \in Sources : LedgerEntry(t, y)' = IF y = s THEN v ELSE LedgerEntry(t, y)
      OBVIOUS
    <3>3. LedgerBook'[x] = [y \in Sources |-> LedgerEntry(t, y)']
      BY <1>3, <2>1
    <3>4. LedgerBook'[x] = [y \in Sources |-> IF y = s THEN v ELSE LedgerEntry(t, y)]
      BY <3>2, <3>3
    <3> QED BY <3>1, <3>4
  <2>2. CASE x # t
    <3>1. book[x] = [y \in Sources |-> LedgerEntry(x, y)]
      BY <1>1, <1>4, <2>2
    <3>2. \A y \in Sources : LedgerEntry(x, y)' = LedgerEntry(x, y)
      BY <2>2
    <3> QED BY <1>3, <3>1, <3>2
  <2> QED BY <2>1, <2>2
<1>6. LedgerBook' = book
  <2>1. LedgerBook' = [x \in Transfers |-> LedgerBook'[x]]
    BY <1>2
  <2>2. book = [x \in Transfers |-> book[x]]
    BY <1>4
  <2> HIDE DEF book
  <2> QED BY <1>5, <2>1, <2>2
<1> QED BY <1>6

\* The ledger sees nothing of most statements.
LEMMA CalmLedger ==
  ASSUME TypeInv, links' = links, invoices' = invoices, events' = events, notices' = notices,
         SameTransfers
  PROVE  LedgerUnchanged
BY SameBrings, SameBills, SameBook DEF LedgerUnchanged, LedgerSettled, EventRecorded

\* What a transaction's entry is while a worker settles it.
LEMMA HandledEntry ==
  ASSUME TypeInv, IdempotenceInv, NEW w \in Workers, Handling(w)
  PROVE  LedgerBook[tasks[w].transfer][tasks[w].source] = "recorded"
<1>1. tasks[w].transfer \in Transfers /\ tasks[w].source \in Sources
  BY Working DEF Handling
<1>2. notices[tasks[w].transfer][tasks[w].source] = 0
  BY DEF IdempotenceInv, HandledIsUnnotified
<1>3. EventRecorded(bank[tasks[w].transfer].ref, tasks[w].transfer, tasks[w].source)
  BY DEF IdempotenceInv, HandledIsRecorded, RefOf
<1> QED BY <1>1, <1>2, <1>3 DEF LedgerBook, LedgerEntry

\* Its link, if still there, is paid in full by it.
LEMMA HandledCovers ==
  ASSUME TypeInv, IdempotenceInv, CopyInv, NEW w \in Workers, Handling(w), LinkExists(RefOf(w))
  PROVE  /\ LedgerBill(RefOf(w)) \in LedgerBills
         /\ Ledger!Covers(tasks[w].transfer, LedgerBill(RefOf(w)))
         /\ Ledger!Received(LedgerBill(RefOf(w)))
         /\ LedgerBill(RefOf(w)).invoice = InvoiceOf(w)
<1>1. /\ tasks[w].transfer \in Transfers /\ tasks[w].source \in Sources /\ RefOf(w) \in Refs
      /\ Copied(w)
  BY Working DEF Handling, Copied
<1>2. /\ links[RefOf(w)].invoice = InvoiceOf(w) /\ links[RefOf(w)].amount = tasks[w].link.amount
      /\ AmountOf(w) >= tasks[w].link.amount
  BY <1>1 DEF CopyInv, CopyIsTrue, HandledPays
<1>3. LedgerBill(RefOf(w)) \in LedgerBills
  BY <1>1 DEF LedgerBills
<1>4. Ledger!Covers(tasks[w].transfer, LedgerBill(RefOf(w)))
  BY <1>1, <1>2 DEF Ledger!Covers, LedgerBrings, LedgerBill, RefOf, AmountOf
<1>5. Ledger!Received(LedgerBill(RefOf(w)))
  BY <1>1, <1>4, HandledEntry DEF Ledger!Received
<1> QED BY <1>2, <1>3, <1>4, <1>5 DEF LedgerBill

\* Inserting the event of a transaction is recording it.
LEMMA RecordInLedger ==
  ASSUME TypeInv, IdempotenceInv, NEW w \in Workers, RecordEvent(w)
  PROVE  Ledger!Record(tasks[w].transfer, tasks[w].source)
<1> DEFINE t == tasks[w].transfer
           s == tasks[w].source
<1>1. t \in Transfers /\ s \in Sources /\ RefOf(w) \in Refs
  BY Working DEF RecordEvent
<1>2. /\ ~EventRecorded(bank[t].ref, t, s) /\ links' = links /\ invoices' = invoices
      /\ notices' = notices
      /\ events' = events \cup {[ref |-> RefOf(w), transfer |-> t, source |-> s,
                                 invoice |-> InvoiceOf(w), amount |-> AmountOf(w)]}
  BY DEF RecordEvent, EventInsertable, InsertEventRow, RefOf
<1>3. SameTransfers
  BY FinishKeepsTransfers DEF RecordEvent, SameTransfers
<1>4. notices[t][s] = 0
  <2>1. notices[t][s] \in Nat /\ ~(notices[t][s] > 0)
    BY <1>1, <1>2 DEF TypeInv, SettlementAloneTypeOK, SettlementTypeOK, IdempotenceInv, NotifiedIsRecorded
  <2> QED BY <2>1
<1>5. LedgerBook[t][s] = "new"
  BY <1>1, <1>2, <1>4 DEF LedgerBook, LedgerEntry
<1>6. \A x \in Transfers, y \in Sources :
        EventRecorded(bank[x].ref, x, y)' <=> (EventRecorded(bank[x].ref, x, y) \/ (x = t /\ y = s))
  <2> SUFFICES ASSUME NEW x \in Transfers, NEW y \in Sources
               PROVE  EventRecorded(bank[x].ref, x, y)' <=>
                        (EventRecorded(bank[x].ref, x, y) \/ (x = t /\ y = s))
    OBVIOUS
  <2> DEFINE new == [ref |-> RefOf(w), transfer |-> t, source |-> s,
                     invoice |-> InvoiceOf(w), amount |-> AmountOf(w)]
  <2>1. bank'[x].ref = bank[x].ref
    BY <1>3 DEF SameTransfers
  <2>2. new.ref = bank[t].ref /\ new.transfer = t /\ new.source = s
    BY DEF RefOf
  <2>3. events' = events \cup {new}
    BY <1>2
  <2> HIDE DEF new
  <2>4. EventRecorded(bank[x].ref, x, y)' <=>
          \E e \in events \cup {new} : e.ref = bank[x].ref /\ e.transfer = x /\ e.source = y
    BY <2>1, <2>3 DEF EventRecorded
  <2> QED BY <2>2, <2>4 DEF EventRecorded
<1>7. LedgerBook' = [LedgerBook EXCEPT ![t][s] = "recorded"]
  <2>1. ASSUME NEW x \in Transfers, NEW y \in Sources
        PROVE  LedgerEntry(x, y)' = IF x = t /\ y = s THEN "recorded" ELSE LedgerEntry(x, y)
    BY <1>2, <1>4, <1>6 DEF LedgerEntry
  <2> QED BY <1>1, <2>1, BookUpdate
<1>8. LedgerBrings' = LedgerBrings /\ LedgerBills' = LedgerBills /\ LedgerPaid' = LedgerPaid
  BY <1>2, <1>3, SameBrings, SameBills
<1>9. LedgerSettled' = LedgerSettled
  BY <1>2 DEF LedgerSettled
<1> QED BY <1>5, <1>7, <1>8, <1>9 DEF Ledger!Record

\* The UPDATE of the invoice is settling its bill.
LEMMA SettleInLedger ==
  ASSUME TypeInv, IdempotenceInv, CopyInv, NEW w \in Workers, SettleInvoice(w)
  PROVE  \E b \in LedgerBills : Ledger!Settle(b)
<1> DEFINE b == LedgerBill(RefOf(w))
           i == InvoiceOf(w)
<1>1. /\ Handling(w) /\ InvoiceExists(i) /\ bank' = bank /\ links' = links /\ events' = events
      /\ notices' = notices /\ SystemUpdateInvoiceStatusAndMethod(i, "PAID", ProviderOf[RefOf(w)])
  BY DEF SettleInvoice, Step, Handling
<1>2. i \in Invoices /\ LinkExists(RefOf(w))
  BY <1>1 DEF CopyInv, HandledPays, CopyIsTrue, Handling, Copied
<1>3. b \in LedgerBills /\ Ledger!Received(b) /\ b.invoice = i
  BY <1>1, <1>2, HandledCovers
<1>4. invoices \in [Invoices -> InvoiceRows]
  BY DEF TypeInv, SettlementAloneTypeOK, StoreTypeOK
<1>5. LedgerSettled' = LedgerSettled \cup {i}
  BY <1>1, <1>2, <1>4 DEF LedgerSettled, SystemUpdateInvoiceStatusAndMethod, InvoiceRows
<1>6. /\ LedgerBrings' = LedgerBrings /\ LedgerBills' = LedgerBills /\ LedgerPaid' = LedgerPaid
      /\ LedgerBook' = LedgerBook
  BY <1>1, SameBrings, SameBills, SameBook DEF SameTransfers, EventRecorded
<1> HIDE DEF b, i
<1> QED BY <1>3, <1>5, <1>6 DEF Ledger!Settle

\* Marking the link is closing its bill, or nothing when the link is gone.
LEMMA MarkInLedger ==
  ASSUME TypeInv, IdempotenceInv, CopyInv, NEW w \in Workers, MarkLinkPaid(w)
  PROVE  LedgerUnchanged \/ \E b \in LedgerBills : Ledger!Close(b)
<1> DEFINE r == RefOf(w)
           i == InvoiceOf(w)
           b == LedgerBill(r)
<1>1. /\ Handling(w) /\ Settled(w) /\ bank' = bank /\ invoices' = invoices /\ events' = events
      /\ notices' = notices /\ UpdatePaymentLinkStatus(r, i, "PAID")
      /\ links \in [Refs -> LinkRows] /\ r \in Refs
  BY Working DEF MarkLinkPaid, Step, Handling, Settled, TypeInv, SettlementAloneTypeOK, StoreTypeOK
<1>2. LedgerBrings' = LedgerBrings /\ LedgerBook' = LedgerBook /\ LedgerSettled' = LedgerSettled
  BY <1>1, SameBrings, SameBook DEF SameTransfers, LedgerSettled, EventRecorded
<1>3. CASE r \notin LinksOf(i)
  <2>1. links' = links
    BY <1>1, <1>3 DEF UpdatePaymentLinkStatus
  <2> QED BY <1>2, <2>1, SameBills DEF LedgerUnchanged
<1>4. CASE r \in LinksOf(i)
  <2>1. LinkExists(r) /\ links' = [links EXCEPT ![r].status = "PAID"]
    BY <1>1, <1>4 DEF UpdatePaymentLinkStatus, LinksOf
  <2>2. b \in LedgerBills /\ Ledger!Received(b) /\ b.invoice = i
    BY <1>1, <2>1, HandledCovers
  <2>3. i \in LedgerSettled
    <3>1. i \in Invoices /\ InvoiceExists(i)
      BY <1>1, <1>4, <2>1 DEF CopyInv, ForeignKeys, HandledPays, LinksOf
    <3> QED BY <1>1, <3>1 DEF CopyInv, SettledIsPaid, LedgerSettled
  <2>4. \A q \in Refs : /\ LedgerBill(q)' = LedgerBill(q) /\ (LinkExists(q)' <=> LinkExists(q))
                        /\ links'[q].status = "PAID" <=> (links[q].status = "PAID" \/ q = r)
    BY <1>1, <2>1 DEF LedgerBill, LinkExists, LinkStatus, LinkRows
  <2>5. LedgerBills' = LedgerBills
    <3>1. \A q \in Refs : q \in {x \in Refs : LinkExists(x)'} <=> q \in {x \in Refs : LinkExists(x)}
      BY <2>4
    <3> QED BY <2>4, <3>1 DEF LedgerBills
  <2>6. LedgerPaid' = LedgerPaid \cup {b}
    <3>1. \A q \in Refs : links'[q].status = "PAID" <=> (links[q].status = "PAID" \/ q = r)
      BY <2>4
    <3>2. LedgerPaid' = {LedgerBill(q) : q \in {x \in Refs : links'[x].status = "PAID"}}
      BY <2>4 DEF LedgerPaid
    <3> QED BY <1>1, <3>1, <3>2 DEF LedgerPaid
  <2> HIDE DEF b, i, r
  <2> QED BY <1>2, <2>2, <2>3, <2>5, <2>6 DEF Ledger!Close
<1> QED BY <1>3, <1>4

\* The notifications are telling of the transaction, whose invoice is settled.
LEMMA NotifyInLedger ==
  ASSUME TypeInv, IdempotenceInv, CopyInv, NEW w \in Workers, Notify(w)
  PROVE  Ledger!Tell(tasks[w].transfer, tasks[w].source)
<1> DEFINE t == tasks[w].transfer
           s == tasks[w].source
<1>1. /\ Handling(w) /\ Settled(w) /\ t \in Transfers /\ s \in Sources /\ RefOf(w) \in Refs
      /\ links' = links /\ invoices' = invoices /\ events' = events
      /\ notices' = [notices EXCEPT ![t][s] = @ + 1]
  BY Working DEF Notify, Handling, Settled, storeVars
<1>2. SameTransfers
  BY FinishKeepsTransfers DEF Notify
<1>3. notices \in [Transfers -> [Sources -> Nat]] /\ notices[t][s] = 0
  BY <1>1 DEF TypeInv, SettlementAloneTypeOK, SettlementTypeOK, IdempotenceInv, HandledIsUnnotified
<1>4. LedgerBook[t][s] = "recorded"
  BY <1>1, HandledEntry
<1>5. \A x \in Transfers, y \in Sources :
        /\ EventRecorded(bank[x].ref, x, y)' <=> EventRecorded(bank[x].ref, x, y)
        /\ notices'[x][y] = IF x = t /\ y = s THEN 1 ELSE notices[x][y]
  BY <1>1, <1>2, <1>3 DEF SameTransfers, EventRecorded
<1>6. LedgerBook' = [LedgerBook EXCEPT ![t][s] = "told"]
  <2>1. ASSUME NEW x \in Transfers, NEW y \in Sources
        PROVE  LedgerEntry(x, y)' = IF x = t /\ y = s THEN "told" ELSE LedgerEntry(x, y)
    BY <1>5 DEF LedgerEntry
  <2> QED BY <1>1, <2>1, BookUpdate
<1>7. ASSUME NEW b \in LedgerBills, b.ref = LedgerBrings[t].ref
      PROVE  Ledger!Covers(t, b) /\ b.invoice \in LedgerSettled
  <2>1. b = LedgerBill(RefOf(w)) /\ LinkExists(RefOf(w))
    BY <1>1, <1>7 DEF LedgerBills, LedgerBill, LedgerBrings, RefOf
  <2>2. Ledger!Covers(t, b) /\ b.invoice = InvoiceOf(w) /\ b.invoice = links[RefOf(w)].invoice
    BY <1>1, <2>1, HandledCovers DEF LedgerBill
  <2>3. InvoiceOf(w) \in Invoices /\ InvoiceExists(InvoiceOf(w))
    BY <1>1, <2>1, <2>2 DEF CopyInv, ForeignKeys
  <2> QED BY <1>1, <2>2, <2>3 DEF CopyInv, SettledIsPaid, LedgerSettled
<1>8. /\ LedgerBrings' = LedgerBrings /\ LedgerBills' = LedgerBills /\ LedgerPaid' = LedgerPaid
      /\ LedgerSettled' = LedgerSettled
  BY <1>1, <1>2, SameBrings, SameBills DEF LedgerSettled
<1> QED BY <1>4, <1>6, <1>7, <1>8 DEF Ledger!Tell

\* Deleting an invoice cancels it.
LEMMA DeletionInLedger ==
  ASSUME TypeInv, CopyInv, NEW i \in Invoices, InvoiceDeleted(i)
  PROVE  Ledger!Cancel(i)
<1>1. /\ bank' = bank /\ notices' = notices /\ invoices \in [Invoices -> InvoiceRows]
      /\ events \subseteq EventRows
      /\ invoices' = [invoices EXCEPT ![i] = [NoInvoiceRow EXCEPT !.status = "deleted"]]
      /\ links' = [r \in Refs |-> IF r \in LinksOf(i) THEN NoLinkRow ELSE links[r]]
      /\ events' = {IF e.invoice = i THEN [e EXCEPT !.invoice = None] ELSE e : e \in events}
  BY DEF InvoiceDeleted, DeleteInvoiceRow, TypeInv, SettlementAloneTypeOK, StoreTypeOK
<1>2. \A r \in Refs, t \in Transfers, s \in Sources :
        EventRecorded(r, t, s)' <=> EventRecorded(r, t, s)
  <2>1. \A e \in events : LET f == IF e.invoice = i THEN [e EXCEPT !.invoice = None] ELSE e
                          IN f.ref = e.ref /\ f.transfer = e.transfer /\ f.source = e.source
    BY <1>1 DEF EventRows
  <2> SUFFICES ASSUME NEW r \in Refs, NEW t \in Transfers, NEW s \in Sources
               PROVE  EventRecorded(r, t, s)' <=> EventRecorded(r, t, s)
    OBVIOUS
  <2>2. ASSUME EventRecorded(r, t, s) PROVE EventRecorded(r, t, s)'
    <3>1. PICK e \in events : e.ref = r /\ e.transfer = t /\ e.source = s
      BY <2>2 DEF EventRecorded
    <3> DEFINE f == IF e.invoice = i THEN [e EXCEPT !.invoice = None] ELSE e
    <3>2. f \in events' /\ f.ref = r /\ f.transfer = t /\ f.source = s
      BY <1>1, <2>1, <3>1
    <3> QED BY <3>2 DEF EventRecorded
  <2>3. ASSUME EventRecorded(r, t, s)' PROVE EventRecorded(r, t, s)
    <3>1. PICK f \in events' : f.ref = r /\ f.transfer = t /\ f.source = s
      BY <2>3 DEF EventRecorded
    <3>2. PICK e \in events : f = IF e.invoice = i THEN [e EXCEPT !.invoice = None] ELSE e
      BY <1>1
    <3> QED BY <2>1, <3>1, <3>2 DEF EventRecorded
  <2> QED BY <2>2, <2>3
<1>3. LedgerBrings' = LedgerBrings /\ LedgerBook' = LedgerBook
  BY <1>1, <1>2, SameBrings, SameBook DEF SameTransfers
<1>4. LedgerSettled' = LedgerSettled \ {i}
  BY <1>1 DEF LedgerSettled, NoInvoiceRow
<1>5. \A r \in Refs : IF LinkExists(r) /\ links[r].invoice = i
                      THEN ~LinkExists(r)' /\ links'[r].status # "PAID"
                      ELSE links'[r] = links[r]
  BY <1>1 DEF LinksOf, LinkExists, NoLinkRow, LinkStatus
<1>6. LedgerBills' = {b \in LedgerBills : b.invoice # i}
  BY <1>5 DEF LedgerBills, LedgerBill, LinkExists
<1>7. LedgerPaid' = {b \in LedgerPaid : b.invoice # i}
  BY <1>5 DEF LedgerPaid, LedgerBill, LinkExists, LinkStatus
<1> QED BY <1>3, <1>4, <1>6, <1>7 DEF Ledger!Cancel

-----------------------------------------------------------------------------
(* The refinement.                                                           *)

LEMMA InitInLedger == SettlementAloneInit => Ledger!Init
<1> SUFFICES ASSUME SettlementAloneInit PROVE Ledger!Init
  OBVIOUS
<1>1. TypeInv /\ CopyInv
  BY InitType, InitCopy
<1>2. LedgerBrings \in [Transfers -> [ref : Refs, amount : Nat]]
  BY <1>1, StoreAssumption DEF LedgerBrings, TypeInv, SettlementAloneTypeOK, SettlementTypeOK, BankRows
<1>3. \A r \in Refs : LinkExists(r) => LedgerBill(r) \in [ref : Refs, invoice : Invoices, amount : Nat]
  BY <1>1 DEF LedgerBill, CopyInv, ForeignKeys, TypeInv, SettlementAloneTypeOK, StoreTypeOK, LinkRows
<1>4. LedgerBills \subseteq [ref : Refs, invoice : Invoices, amount : Nat]
  BY <1>3 DEF LedgerBills
<1>5. \A a, b \in LedgerBills : a.ref = b.ref => a = b
  BY DEF LedgerBills, LedgerBill
<1>6. LedgerBook = [t \in Transfers |-> [s \in Sources |-> "new"]]
  <2>1. \A t \in Transfers, s \in Sources : notices[t][s] = 0 /\ ~EventRecorded(bank[t].ref, t, s)
    BY DEF SettlementAloneInit, SettlementInit, SeededStore, EventRecorded
  <2> QED BY <2>1 DEF LedgerBook, LedgerEntry
<1>7. PICK live \in SUBSET Invoices, total \in [Invoices -> Amounts] :
        /\ invoices = SeededInvoices(live, total)
        /\ \E issued \in [Refs -> live \cup {None}], asked \in [Refs -> Amounts] :
             links = SeededLinks(total, issued, asked)
  BY DEF SettlementAloneInit, SeededStore
<1>8. LedgerSettled = {}
  BY <1>7 DEF LedgerSettled, SeededInvoices, NoInvoiceRow
<1>9. LedgerPaid = {}
  BY <1>7 DEF LedgerPaid, SeededLinks, NoLinkRow
<1> QED BY <1>2, <1>4, <1>5, <1>6, <1>8, <1>9 DEF Ledger!Init

\* Every step of a statement is a step of the ledger, or none.
LEMMA NextInLedger ==
  TypeInv /\ IdempotenceInv /\ CopyInv /\ [SettlementAloneNext]_settlementAloneVars
    => Ledger!Next \/ LedgerUnchanged
<1> SUFFICES ASSUME TypeInv, IdempotenceInv, CopyInv, [SettlementAloneNext]_settlementAloneVars
             PROVE  Ledger!Next \/ LedgerUnchanged
  OBVIOUS
<1>1. ASSUME links' = links, invoices' = invoices, events' = events, notices' = notices, SameTransfers
      PROVE  LedgerUnchanged
  BY <1>1, CalmLedger
<1>2. ASSUME NEW t \in Transfers, MakeTransfer(t) PROVE LedgerUnchanged
  <2>1. SameTransfers
    BY <1>2 DEF MakeTransfer, BankRows, SameTransfers, TypeInv, SettlementAloneTypeOK, SettlementTypeOK
  <2> QED BY <1>1, <1>2, <2>1 DEF MakeTransfer, storeVars
<1>3. ASSUME NEW w \in Workers, NEW t \in Transfers, DeliverWebhook(w, t) PROVE LedgerUnchanged
  BY <1>1, <1>3 DEF DeliverWebhook, storeVars, SameTransfers
<1>4. ASSUME NEW w \in Workers, StartReconcile(w) \/ NextTransaction(w) PROVE LedgerUnchanged
  BY <1>1, <1>4 DEF StartReconcile, NextTransaction, storeVars, SameTransfers
<1>5. ASSUME NEW w \in Workers, SkipRecorded(w) PROVE LedgerUnchanged
  BY <1>1, <1>5, FinishKeepsTransfers DEF SkipRecorded, storeVars
<1>6. ASSUME NEW w \in Workers, CheckEvent(w) \/ ReadLink(w) \/ ReloadInvoice(w) PROVE LedgerUnchanged
  BY <1>1, <1>6 DEF CheckEvent, ReadLink, ReloadInvoice, storeVars, SameTransfers
<1>7. ASSUME NEW w \in Workers, RecordRejected(w) \/ InvoiceGone(w) PROVE LedgerUnchanged
  BY <1>1, <1>7 DEF RecordRejected, InvoiceGone, Reject, storeVars, SameTransfers
<1>8. ASSUME NEW w \in Workers, MarkFails(w) \/ StatementFails(w) \/ WorkerLost(w) PROVE LedgerUnchanged
  BY <1>1, <1>8 DEF MarkFails, StatementFails, WorkerLost, Reject, SameTransfers
<1>9. ASSUME NEW w \in Workers, RecordEvent(w) PROVE Ledger!Next
  <2>1. tasks[w].transfer \in Transfers /\ tasks[w].source \in Sources
    BY <1>9, Working DEF RecordEvent
  <2> QED BY <1>9, <2>1, RecordInLedger DEF Ledger!Next
<1>10. ASSUME NEW w \in Workers, SettleInvoice(w) PROVE Ledger!Next
  BY <1>10, SettleInLedger DEF Ledger!Next
<1>11. ASSUME NEW w \in Workers, MarkLinkPaid(w) PROVE Ledger!Next \/ LedgerUnchanged
  BY <1>11, MarkInLedger DEF Ledger!Next
<1>12. ASSUME NEW w \in Workers, Notify(w) PROVE Ledger!Next
  <2>1. tasks[w].transfer \in Transfers /\ tasks[w].source \in Sources
    BY <1>12, Working DEF Notify
  <2> QED BY <1>12, <2>1, NotifyInLedger DEF Ledger!Next
<1>13. ASSUME NEW i \in Invoices, InvoiceDeleted(i) PROVE Ledger!Next
  BY <1>13, DeletionInLedger DEF Ledger!Next
<1>14. CASE UNCHANGED settlementAloneVars
  BY <1>1, <1>14 DEF settlementAloneVars, SameTransfers
<1> QED BY <1>2, <1>3, <1>4, <1>5, <1>6, <1>7, <1>8, <1>9, <1>10, <1>11, <1>12, <1>13, <1>14
        DEF SettlementAloneNext, SettlementNext, Progress

\* Settlement, statement by statement (lines 222-316), implements the payment
\* ledger: whatever overlaps, repeats, fails or is deleted meanwhile.
THEOREM Refinement == SettlementSafeSpec => RefinesLedger
<1> DEFINE Inv == TypeInv /\ IdempotenceInv /\ CopyInv
<1>1. SettlementAloneInit => Inv /\ Ledger!Init
  BY InitType, InitIdempotent, InitCopy, InitInLedger
<1>2. Inv /\ [SettlementAloneNext]_settlementAloneVars => Inv'
  BY NextType, DeletedType, NextIdempotent, DeletedIdempotent, NextKeepsCopies DEF SettlementAloneNext
<1>3. Inv /\ [SettlementAloneNext]_settlementAloneVars => [Ledger!Next]_(Ledger!vars)
  BY NextInLedger DEF LedgerUnchanged, Ledger!vars
<1> HIDE DEF Inv
<1> QED BY <1>1, <1>2, <1>3, PTL DEF SettlementSafeSpec, RefinesLedger, Ledger!Spec

-----------------------------------------------------------------------------
(* No payment is invented.  Until its invoice is deleted, the event a worker  *)
(* has recorded is the proof of what it goes on to do.                        *)

Evidence(i, r, a) == \E e \in events : e.ref = r /\ e.invoice = i /\ e.amount = a

HandledHasEvent ==
  \A w \in Workers : Handling(w) /\ InvoiceExists(InvoiceOf(w)) =>
    Evidence(InvoiceOf(w), RefOf(w), AmountOf(w))

BackedInv == HandledHasEvent /\ PaymentsBacked

\* An event that pays a link in full does so as long as the link is there.
LEMMA CalmBacked ==
  ASSUME TypeInv, CopyInv, BackedInv, links' = links, invoices' = invoices,
         events \subseteq events', SameTransfers, \A w \in Workers : KeepsCopy(w)
  PROVE  BackedInv'
<1>1. \A e \in events : PaysInFull(e)' <=> PaysInFull(e)
  BY DEF PaysInFull, LinkExists
<1>2. PaymentsBacked'
  BY <1>1 DEF BackedInv, PaymentsBacked, PaidLinkIsBacked, ProviderMethodIsBacked
<1>3. HandledHasEvent'
  <2> SUFFICES ASSUME NEW w \in Workers, Handling(w)', InvoiceExists(InvoiceOf(w))'
               PROVE  Evidence(InvoiceOf(w), RefOf(w), AmountOf(w))'
    BY DEF HandledHasEvent
  <2>1. Copied(w)'
    BY DEF Handling, Copied
  <2>2. /\ RefOf(w)' = RefOf(w) /\ AmountOf(w)' = AmountOf(w) /\ InvoiceOf(w)' = InvoiceOf(w)
        /\ Handling(w)
    BY <2>1, CalmWorker DEF KeepsCopy
  <2>3. Evidence(InvoiceOf(w), RefOf(w), AmountOf(w))
    BY <2>2 DEF BackedInv, HandledHasEvent, InvoiceExists
  <2> QED BY <2>2, <2>3 DEF Evidence
<1> QED BY <1>2, <1>3 DEF BackedInv

LEMMA ReadBacked ==
  ASSUME TypeInv, CopyInv, BackedInv, NEW w \in Workers, ReadLink(w)
  PROVE  BackedInv'
<1>1. /\ tasks \in [Workers -> Tasks] /\ bank' = bank /\ links' = links /\ invoices' = invoices
      /\ events' = events
      /\ tasks' = [tasks EXCEPT ![w] = [tasks[w] EXCEPT !.pc = "record", !.link = links[RefOf(w)]]]
  BY DEF ReadLink, storeVars, TypeInv, SettlementAloneTypeOK, SettlementTypeOK
<1>2. tasks'[w].pc = "record" /\ \A v \in Workers \ {w} : tasks'[v] = tasks[v]
  BY <1>1 DEF Tasks
<1>3. PaymentsBacked'
  BY <1>1 DEF BackedInv, PaymentsBacked, PaidLinkIsBacked, ProviderMethodIsBacked, PaysInFull, LinkExists
<1>4. HandledHasEvent'
  BY <1>1, <1>2 DEF BackedInv, HandledHasEvent, Handling, InvoiceOf, RefOf, AmountOf, Evidence, InvoiceExists
<1> QED BY <1>3, <1>4 DEF BackedInv

LEMMA RecordBacked ==
  ASSUME TypeInv, CopyInv, BackedInv, NEW w \in Workers, RecordEvent(w)
  PROVE  BackedInv'
<1> DEFINE new == [ref |-> RefOf(w), transfer |-> tasks[w].transfer, source |-> tasks[w].source,
                   invoice |-> InvoiceOf(w), amount |-> AmountOf(w)]
<1>1. links' = links /\ invoices' = invoices /\ events' = events \cup {new}
  BY DEF RecordEvent, InsertEventRow
<1>2. CASE AuditOnly(w)
  BY <1>1, <1>2, CalmBacked, RestKeepsCopies, FinishKeepsTransfers DEF RecordEvent, Finish
<1>3. CASE ~AuditOnly(w)
  <2>1. /\ tasks \in [Workers -> Tasks] /\ bank' = bank
        /\ tasks' = [tasks EXCEPT ![w] = [tasks[w] EXCEPT !.pc = "settle"]]
    BY <1>3 DEF RecordEvent, TypeInv, SettlementAloneTypeOK, SettlementTypeOK
  <2>2. \A v \in Workers : /\ RefOf(v)' = RefOf(v) /\ InvoiceOf(v)' = InvoiceOf(v)
                           /\ AmountOf(v)' = AmountOf(v)
                           /\ v # w => (Handling(v)' <=> Handling(v))
    BY <2>1 DEF Tasks, RefOf, InvoiceOf, AmountOf, Handling
  <2>3. PaymentsBacked'
    BY <1>1 DEF BackedInv, PaymentsBacked, PaidLinkIsBacked, ProviderMethodIsBacked, PaysInFull, LinkExists
  <2>4. ASSUME NEW v \in Workers, Handling(v)', InvoiceExists(InvoiceOf(v))'
        PROVE  Evidence(InvoiceOf(v), RefOf(v), AmountOf(v))'
    <3>1. CASE v = w
      <4>1. new \in events' /\ new.ref = RefOf(w) /\ new.invoice = InvoiceOf(w) /\ new.amount = AmountOf(w)
        BY <1>1
      <4> HIDE DEF new
      <4> QED BY <2>2, <3>1, <4>1 DEF Evidence
    <3>2. CASE v # w
      <4>1. Evidence(InvoiceOf(v), RefOf(v), AmountOf(v))
        BY <1>1, <2>2, <2>4, <3>2 DEF BackedInv, HandledHasEvent, InvoiceExists
      <4> HIDE DEF new
      <4> QED BY <1>1, <2>2, <4>1 DEF Evidence
    <3> QED BY <3>1, <3>2
  <2> QED BY <2>3, <2>4 DEF BackedInv, HandledHasEvent
<1> QED BY <1>2, <1>3

\* The event that a worker goes by pays its link in full.
LEMMA EvidencePays ==
  ASSUME TypeInv, CopyInv, BackedInv, NEW w \in Workers, Handling(w), InvoiceExists(InvoiceOf(w))
  PROVE  \E e \in events : e.ref = RefOf(w) /\ e.invoice = InvoiceOf(w) /\ PaysInFull(e)
<1>1. PICK e \in events : e.ref = RefOf(w) /\ e.invoice = InvoiceOf(w) /\ e.amount = AmountOf(w)
  BY DEF BackedInv, HandledHasEvent, Evidence
<1>2. /\ LinkExists(RefOf(w)) /\ links[RefOf(w)].invoice = InvoiceOf(w)
      /\ AmountOf(w) >= links[RefOf(w)].amount
  BY DEF CopyInv, CopyIsTrue, HandledPays, Handling, Copied
<1> QED BY <1>1, <1>2 DEF PaysInFull

LEMMA SettleBacked ==
  ASSUME TypeInv, CopyInv, BackedInv, NEW w \in Workers, SettleInvoice(w)
  PROVE  BackedInv'
<1> DEFINE i == InvoiceOf(w)
<1>1. /\ tasks \in [Workers -> Tasks] /\ bank' = bank /\ links' = links /\ events' = events
      /\ invoices \in [Invoices -> InvoiceRows] /\ tasks[w].pc = "settle" /\ InvoiceExists(i)
      /\ tasks' = [tasks EXCEPT ![w] = [tasks[w] EXCEPT !.pc = "reload"]]
      /\ invoices' = [invoices EXCEPT ![i].status = "PAID", ![i].method = ProviderOf[RefOf(w)]]
  BY DEF SettleInvoice, SystemUpdateInvoiceStatusAndMethod, Step, TypeInv, SettlementAloneTypeOK,
         SettlementTypeOK, StoreTypeOK
<1>2. Handling(w) /\ i \in Invoices
  BY <1>1 DEF CopyInv, HandledPays, Handling
<1>3. PICK e \in events : e.ref = RefOf(w) /\ e.invoice = i /\ PaysInFull(e)
  BY <1>1, <1>2, EvidencePays
<1>4. \A x \in events : PaysInFull(x)' <=> PaysInFull(x)
  BY <1>1 DEF PaysInFull, LinkExists
<1>5. PaidLinkIsBacked'
  BY <1>1, <1>4 DEF BackedInv, PaymentsBacked, PaidLinkIsBacked
<1>6. \A j \in Invoices : /\ j # i => invoices'[j] = invoices[j]
                          /\ invoices'[i].method = ProviderOf[RefOf(w)]
                          /\ InvoiceExists(j)' <=> InvoiceExists(j)
  BY <1>1, <1>2 DEF InvoiceExists, InvoiceStatus, InvoiceRows
<1>7. ProviderMethodIsBacked'
  BY <1>1, <1>3, <1>4, <1>6 DEF BackedInv, PaymentsBacked, ProviderMethodIsBacked
<1>8. HandledHasEvent'
  <2> SUFFICES ASSUME NEW v \in Workers, Handling(v)', InvoiceExists(InvoiceOf(v))'
               PROVE  Evidence(InvoiceOf(v), RefOf(v), AmountOf(v))'
    BY DEF HandledHasEvent
  <2>1. /\ Handling(v) /\ RefOf(v)' = RefOf(v) /\ InvoiceOf(v)' = InvoiceOf(v)
        /\ AmountOf(v)' = AmountOf(v)
    BY <1>1 DEF Tasks, Handling, RefOf, InvoiceOf, AmountOf
  <2>2. InvoiceOf(v) \in Invoices
    BY <2>1 DEF CopyInv, HandledPays
  <2>3. InvoiceExists(InvoiceOf(v))
    BY <1>6, <2>1, <2>2 DEF InvoiceExists
  <2> QED BY <1>1, <2>1, <2>3 DEF BackedInv, HandledHasEvent, Evidence
<1> QED BY <1>5, <1>7, <1>8 DEF BackedInv, PaymentsBacked

LEMMA MarkBacked ==
  ASSUME TypeInv, CopyInv, BackedInv, NEW w \in Workers, MarkLinkPaid(w)
  PROVE  BackedInv'
<1> DEFINE r == RefOf(w)
<1>1. /\ tasks \in [Workers -> Tasks] /\ bank' = bank /\ invoices' = invoices /\ events' = events
      /\ links \in [Refs -> LinkRows] /\ tasks[w].pc = "mark" /\ Handling(w)
      /\ tasks' = [tasks EXCEPT ![w] = [tasks[w] EXCEPT !.pc = "notify"]]
      /\ UpdatePaymentLinkStatus(r, InvoiceOf(w), "PAID")
  BY DEF MarkLinkPaid, Step, Handling, TypeInv, SettlementAloneTypeOK, SettlementTypeOK, StoreTypeOK
<1>2. \A q \in Refs : /\ LinkExists(q)' <=> LinkExists(q)
                      /\ links'[q].invoice = links[q].invoice /\ links'[q].amount = links[q].amount
                      /\ links'[q].status = "PAID" => links[q].status = "PAID" \/ (q = r /\ q \in LinksOf(InvoiceOf(w)))
  BY <1>1 DEF UpdatePaymentLinkStatus, LinksOf, LinkExists, LinkStatus, LinkRows
<1>3. \A e \in events : e.ref \in Refs
  BY DEF TypeInv, SettlementAloneTypeOK, StoreTypeOK, EventRows
<1>4. \A e \in events : PaysInFull(e)' <=> PaysInFull(e)
  BY <1>1, <1>2, <1>3 DEF PaysInFull, LinkExists
<1>5. ProviderMethodIsBacked'
  BY <1>1, <1>4 DEF BackedInv, PaymentsBacked, ProviderMethodIsBacked
<1>6. PaidLinkIsBacked'
  <2> SUFFICES ASSUME NEW q \in Refs, links'[q].status = "PAID"
               PROVE  \E e \in events' : e.ref = q /\ PaysInFull(e)'
    BY DEF PaidLinkIsBacked
  <2>1. CASE links[q].status = "PAID"
    BY <1>1, <1>4, <2>1 DEF BackedInv, PaymentsBacked, PaidLinkIsBacked
  <2>2. CASE q = r /\ q \in LinksOf(InvoiceOf(w))
    <3>1. InvoiceExists(InvoiceOf(w))
      BY <2>2 DEF CopyInv, ForeignKeys, LinksOf
    <3> QED BY <1>1, <1>4, <2>2, <3>1, EvidencePays
  <2> QED BY <1>2, <2>1, <2>2
<1>7. HandledHasEvent'
  <2>1. \A v \in Workers : KeepsCopy(v)
    BY <1>1, StepKeepsCopies DEF MarkLinkPaid
  <2> SUFFICES ASSUME NEW v \in Workers, Handling(v)', InvoiceExists(InvoiceOf(v))'
               PROVE  Evidence(InvoiceOf(v), RefOf(v), AmountOf(v))'
    BY DEF HandledHasEvent
  <2>2. Copied(v)' /\ SameTransfers
    BY <1>1 DEF Handling, Copied, SameTransfers
  <2>3. /\ Handling(v) /\ RefOf(v)' = RefOf(v) /\ InvoiceOf(v)' = InvoiceOf(v)
        /\ AmountOf(v)' = AmountOf(v)
    BY <2>1, <2>2, CalmWorker DEF KeepsCopy
  <2> QED BY <1>1, <2>3 DEF BackedInv, HandledHasEvent, Evidence, InvoiceExists
<1> QED BY <1>5, <1>6, <1>7 DEF BackedInv, PaymentsBacked

\* What an invoice loses with its deletion proved only payments of it.
LEMMA DeletionBacked ==
  ASSUME TypeInv, CopyInv, BackedInv, NEW i \in Invoices, InvoiceDeleted(i)
  PROVE  BackedInv'
<1>1. /\ bank' = bank /\ tasks' = tasks /\ invoices \in [Invoices -> InvoiceRows]
      /\ invoices' = [invoices EXCEPT ![i] = [NoInvoiceRow EXCEPT !.status = "deleted"]]
      /\ links' = [r \in Refs |-> IF r \in LinksOf(i) THEN NoLinkRow ELSE links[r]]
      /\ events' = {IF e.invoice = i THEN [e EXCEPT !.invoice = None] ELSE e : e \in events}
      /\ events \subseteq EventRows
  BY DEF InvoiceDeleted, DeleteInvoiceRow, TypeInv, SettlementAloneTypeOK, StoreTypeOK
<1>2. \A e \in events : e.invoice # i => e \in events'
  BY <1>1
<1>3. \A r \in Refs : IF LinkExists(r) /\ links[r].invoice = i
                      THEN ~LinkExists(r)' /\ links'[r].status # "PAID"
                      ELSE links'[r] = links[r]
  BY <1>1 DEF LinksOf, LinkExists, NoLinkRow, LinkStatus
<1>4. ASSUME NEW e \in events, PaysInFull(e), e.invoice # i
      PROVE  e \in events' /\ PaysInFull(e)'
  <2>1. e.ref \in Refs /\ links'[e.ref] = links[e.ref]
    BY <1>1, <1>3, <1>4 DEF PaysInFull, EventRows
  <2> QED BY <1>2, <1>4, <2>1 DEF PaysInFull, LinkExists
<1>5. \A j \in Invoices : /\ ~InvoiceExists(i)' /\ invoices'[i].method = "none"
                          /\ j # i => invoices'[j] = invoices[j] /\ (InvoiceExists(j)' <=> InvoiceExists(j))
  BY <1>1 DEF InvoiceExists, NoInvoiceRow, InvoiceStatus
<1>6. PaidLinkIsBacked'
  <2> SUFFICES ASSUME NEW r \in Refs, links'[r].status = "PAID"
               PROVE  \E e \in events' : e.ref = r /\ PaysInFull(e)'
    BY DEF PaidLinkIsBacked
  <2>1. links'[r] = links[r] /\ links[r].invoice # i
    BY <1>3 DEF LinkExists, LinkStatus
  <2>2. PICK e \in events : e.ref = r /\ PaysInFull(e)
    BY <2>1 DEF BackedInv, PaymentsBacked, PaidLinkIsBacked
  <2> QED BY <1>4, <2>1, <2>2 DEF PaysInFull
<1>7. ProviderMethodIsBacked'
  <2> SUFFICES ASSUME NEW j \in Invoices, invoices'[j].method \in Providers
               PROVE  \E e \in events' : e.invoice = j /\ ProviderOf[e.ref] = invoices'[j].method /\ PaysInFull(e)'
    BY DEF ProviderMethodIsBacked
  <2>1. j # i /\ invoices'[j] = invoices[j]
    BY <1>5 DEF Providers
  <2>2. PICK e \in events : e.invoice = j /\ ProviderOf[e.ref] = invoices[j].method /\ PaysInFull(e)
    BY <2>1 DEF BackedInv, PaymentsBacked, ProviderMethodIsBacked
  <2> QED BY <1>4, <2>1, <2>2
<1>8. HandledHasEvent'
  <2> SUFFICES ASSUME NEW v \in Workers, Handling(v)', InvoiceExists(InvoiceOf(v))'
               PROVE  Evidence(InvoiceOf(v), RefOf(v), AmountOf(v))'
    BY DEF HandledHasEvent
  <2>1. /\ Handling(v) /\ RefOf(v)' = RefOf(v) /\ InvoiceOf(v)' = InvoiceOf(v)
        /\ AmountOf(v)' = AmountOf(v)
    BY <1>1 DEF Handling, RefOf, InvoiceOf, AmountOf
  <2>2. InvoiceOf(v) \in Invoices
    BY <2>1 DEF CopyInv, HandledPays
  <2>3. InvoiceOf(v) # i /\ InvoiceExists(InvoiceOf(v))
    BY <1>5, <2>1, <2>2 DEF InvoiceExists
  <2> QED BY <1>2, <2>1, <2>3 DEF BackedInv, HandledHasEvent, Evidence
<1> QED BY <1>6, <1>7, <1>8 DEF BackedInv, PaymentsBacked

LEMMA NextBacked ==
  TypeInv /\ CopyInv /\ BackedInv /\ [SettlementAloneNext]_settlementAloneVars => BackedInv'
<1> SUFFICES ASSUME TypeInv, CopyInv, BackedInv, [SettlementAloneNext]_settlementAloneVars
             PROVE  BackedInv'
  OBVIOUS
<1> DEFINE Quiet == \A v \in Workers : KeepsCopy(v)
<1>0. tasks \in [Workers -> Tasks] /\ bank \in [Transfers -> BankRows]
  BY DEF TypeInv, SettlementAloneTypeOK, SettlementTypeOK
<1>1. ASSUME Quiet, SameTransfers, links' = links, invoices' = invoices, events' = events PROVE BackedInv'
  BY <1>1, CalmBacked
<1>2. ASSUME NEW t \in Transfers, MakeTransfer(t) PROVE BackedInv'
  <2>1. Quiet
    BY <1>2 DEF MakeTransfer, KeepsCopy, Copied, Handling, Settled
  <2>2. SameTransfers
    BY <1>0, <1>2 DEF MakeTransfer, BankRows, SameTransfers
  <2> QED BY <1>1, <1>2, <2>1, <2>2 DEF MakeTransfer, storeVars
<1>3. ASSUME NEW w \in Workers, NEW t \in Transfers, DeliverWebhook(w, t) PROVE BackedInv'
  <2>1. Quiet
    BY <1>0, <1>3 DEF DeliverWebhook, KeepsCopy, Copied, Handling, Settled, Idle
  <2> QED BY <1>1, <1>3, <2>1 DEF DeliverWebhook, storeVars, SameTransfers
<1>4. ASSUME NEW w \in Workers, StartReconcile(w) PROVE BackedInv'
  <2>1. Quiet
    BY <1>0, <1>4 DEF StartReconcile, KeepsCopy, Copied, Handling, Settled, Idle
  <2> QED BY <1>1, <1>4, <2>1 DEF StartReconcile, storeVars, SameTransfers
<1>5. ASSUME NEW w \in Workers, NextTransaction(w) PROVE BackedInv'
  <2>1. PICK t \in tasks[w].todo :
          tasks' = [tasks EXCEPT ![w] = [tasks[w] EXCEPT !.pc = "check", !.transfer = t,
                                                         !.todo = @ \ {t}]]
    BY <1>5 DEF NextTransaction
  <2>2. Quiet
    BY <1>0, <2>1 DEF KeepsCopy, Copied, Handling, Settled, Tasks
  <2> QED BY <1>1, <1>5, <2>2 DEF NextTransaction, storeVars, SameTransfers
<1>6. ASSUME NEW w \in Workers, SkipRecorded(w) \/ Notify(w) PROVE BackedInv'
  BY <1>1, <1>6, RestKeepsCopies, FinishKeepsTransfers DEF SkipRecorded, Notify, Finish, storeVars
<1>7. ASSUME NEW w \in Workers, CheckEvent(w) PROVE BackedInv'
  BY <1>1, <1>7, StepKeepsCopies DEF CheckEvent, storeVars, SameTransfers
<1>8. ASSUME NEW w \in Workers, RecordRejected(w) \/ InvoiceGone(w) \/ StatementFails(w) PROVE BackedInv'
  BY <1>1, <1>8, RestKeepsCopies
     DEF RecordRejected, InvoiceGone, StatementFails, Reject, storeVars, SameTransfers
<1>9. ASSUME NEW w \in Workers, ReloadInvoice(w) PROVE BackedInv'
  BY <1>1, <1>9, StepKeepsCopies DEF ReloadInvoice, storeVars, SameTransfers
<1>10. ASSUME NEW w \in Workers, MarkFails(w) PROVE BackedInv'
  BY <1>1, <1>10, StepKeepsCopies DEF MarkFails, SameTransfers
<1>11. ASSUME NEW w \in Workers, WorkerLost(w) PROVE BackedInv'
  <2>1. Quiet
    BY <1>0, <1>11 DEF WorkerLost, KeepsCopy, Copied, Handling, Settled, Idle
  <2> QED BY <1>1, <1>11, <2>1 DEF WorkerLost, SameTransfers
<1>12. CASE UNCHANGED settlementAloneVars
  <2>1. Quiet
    BY <1>12 DEF settlementAloneVars, KeepsCopy, Copied, Handling, Settled
  <2> QED BY <1>1, <1>12, <2>1 DEF settlementAloneVars, SameTransfers
<1> QED BY <1>2, <1>3, <1>4, <1>5, <1>6, <1>7, <1>8, <1>9, <1>10, <1>11, <1>12, ReadBacked,
           RecordBacked, SettleBacked, MarkBacked, DeletionBacked
        DEF SettlementAloneNext, SettlementNext, Progress

LEMMA InitBacked == SettlementAloneInit => BackedInv
<1> SUFFICES ASSUME SettlementAloneInit PROVE BackedInv
  OBVIOUS
<1>1. PICK live \in SUBSET Invoices, total \in [Invoices -> Amounts] :
        /\ invoices = SeededInvoices(live, total)
        /\ \E issued \in [Refs -> live \cup {None}], asked \in [Refs -> Amounts] :
             links = SeededLinks(total, issued, asked)
  BY DEF SettlementAloneInit, SeededStore
<1>2. \A r \in Refs : links[r].status # "PAID"
  BY <1>1 DEF SeededLinks, NoLinkRow
<1>3. \A i \in Invoices : invoices[i].method \notin Providers
  BY <1>1 DEF SeededInvoices, NoInvoiceRow, Providers
<1>4. \A w \in Workers : ~Handling(w)
  BY DEF SettlementAloneInit, SettlementInit, Idle, Handling
<1> QED BY <1>2, <1>3, <1>4
        DEF BackedInv, HandledHasEvent, PaymentsBacked, PaidLinkIsBacked, ProviderMethodIsBacked

\* No link is PAID and no invoice names a provider without a recorded transaction
\* that pays it in full, whatever the workers do (lines 237-284).
THEOREM Backed == SettlementSafeSpec => []PaymentsBacked
<1>1. SettlementSafeSpec => [](TypeInv /\ CopyInv /\ BackedInv)
  <2>1. TypeInv /\ CopyInv /\ BackedInv /\ [SettlementAloneNext]_settlementAloneVars
          => (TypeInv /\ CopyInv /\ BackedInv)'
    BY NextType, DeletedType, NextKeepsCopies, NextBacked DEF SettlementAloneNext
  <2> QED BY InitType, InitCopy, InitBacked, <2>1, PTL DEF SettlementSafeSpec
<1>2. BackedInv => PaymentsBacked
  BY DEF BackedInv
<1> QED BY <1>1, <1>2, PTL
=============================================================================
