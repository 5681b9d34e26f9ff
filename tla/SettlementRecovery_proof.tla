----------------------- MODULE SettlementRecovery_proof -----------------------
(* What it takes to lose a payment.  A transaction is stranded when its event *)
(* is recorded, so that no repeat of it is processed again, while its link is *)
(* unpaid and nobody is settling it.  Every stranded transaction has cost a   *)
(* failure of its own: overlap, repeats and deletions strand none, and one    *)
(* failure never uses up both of a transfer's references.                     *)
EXTENDS PaymentSettlement_proof, FiniteSetTheorems

\* A worker that has recorded a transaction and has not marked the link yet.
AtWork(w) == tasks[w].pc \in {"settle", "reload", "mark"}

BeingSettled(t, s) ==
  \E w \in Workers : AtWork(w) /\ tasks[w].transfer = t /\ tasks[w].source = s

Lost(t, s) ==
  /\ FullTransfer(t)
  /\ EventRecorded(bank[t].ref, t, s)
  /\ links[bank[t].ref].status # "PAID"
  /\ ~BeingSettled(t, s)

Stranded == {x \in Transfers \X Sources : Lost(x[1], x[2])}

\* A copy that says PAID is right about it.
CopiedPaid ==
  \A w \in Workers :
    (Copied(w) /\ tasks[w].link.status = "PAID" /\ LinkExists(RefOf(w))) =>
      links[RefOf(w)].status = "PAID"

\* A webhook is answered with 200 only after its event is recorded.
AckedIsRecorded ==
  \A t \in Transfers : bank[t].state = "acked" => EventRecorded(bank[t].ref, t, "webhook")

StrandedCosts == IsFiniteSet(Stranded) /\ Cardinality(Stranded) <= faults

RecoveryInv == CopiedPaid /\ AckedIsRecorded /\ StrandedCosts

BaseInv == TypeInv /\ IdempotenceInv /\ CopyInv

-----------------------------------------------------------------------------
(* What a step does to the links and the events.                             *)

\* No step adds a link, changes what one asks for or takes PAID back.
LinksLast ==
  \A r \in Refs : LinkExists(r)' =>
    /\ LinkExists(r)
    /\ links'[r].amount = links[r].amount /\ links'[r].invoice = links[r].invoice
    /\ links[r].status = "PAID" => links'[r].status = "PAID"

LEMMA SameLinksLast == ASSUME links' = links PROVE LinksLast
BY DEF LinksLast, LinkExists

LEMMA MarkLinksLast ==
  ASSUME TypeInv, NEW w \in Workers, MarkLinkPaid(w)
  PROVE  LinksLast
<1>1. links \in [Refs -> LinkRows] /\ UpdatePaymentLinkStatus(RefOf(w), InvoiceOf(w), "PAID")
  BY DEF MarkLinkPaid, TypeInv, SettlementAloneTypeOK, StoreTypeOK
<1> QED BY <1>1 DEF LinksLast, UpdatePaymentLinkStatus, LinksOf, LinkExists, LinkStatus, LinkRows

LEMMA DeletionLinksLast ==
  ASSUME NEW i \in Invoices, InvoiceDeleted(i)
  PROVE  LinksLast
BY DEF InvoiceDeleted, DeleteInvoiceRow, LinksLast, LinkExists, NoLinkRow, LinkStatus

\* The deletion of an invoice keeps what its events say of the transactions.
LEMMA DeletionKeepsEvents ==
  ASSUME TypeInv, NEW i \in Invoices, InvoiceDeleted(i)
  PROVE  \A r \in Refs, t \in Transfers, s \in Sources :
           EventRecorded(r, t, s)' <=> EventRecorded(r, t, s)
<1>1. /\ events \subseteq EventRows
      /\ events' = {IF e.invoice = i THEN [e EXCEPT !.invoice = None] ELSE e : e \in events}
  BY DEF InvoiceDeleted, DeleteInvoiceRow, TypeInv, SettlementAloneTypeOK, StoreTypeOK
<1>2. \A e \in events : LET f == IF e.invoice = i THEN [e EXCEPT !.invoice = None] ELSE e
                        IN f.ref = e.ref /\ f.transfer = e.transfer /\ f.source = e.source
  BY <1>1 DEF EventRows
<1> SUFFICES ASSUME NEW r \in Refs, NEW t \in Transfers, NEW s \in Sources
             PROVE  EventRecorded(r, t, s)' <=> EventRecorded(r, t, s)
  OBVIOUS
<1>3. ASSUME EventRecorded(r, t, s) PROVE EventRecorded(r, t, s)'
  <2>1. PICK e \in events : e.ref = r /\ e.transfer = t /\ e.source = s
    BY <1>3 DEF EventRecorded
  <2> DEFINE f == IF e.invoice = i THEN [e EXCEPT !.invoice = None] ELSE e
  <2>2. f \in events' /\ f.ref = r /\ f.transfer = t /\ f.source = s
    BY <1>1, <1>2, <2>1
  <2> QED BY <2>2 DEF EventRecorded
<1>4. ASSUME EventRecorded(r, t, s)' PROVE EventRecorded(r, t, s)
  <2>1. PICK f \in events' : f.ref = r /\ f.transfer = t /\ f.source = s
    BY <1>4 DEF EventRecorded
  <2>2. PICK e \in events : f = IF e.invoice = i THEN [e EXCEPT !.invoice = None] ELSE e
    BY <1>1
  <2> QED BY <1>2, <2>1, <2>2 DEF EventRecorded
<1> QED BY <1>3, <1>4

\* The event a worker inserts records its own transaction and no other.
LEMMA InsertRecords ==
  ASSUME TypeInv, NEW w \in Workers, RecordEvent(w)
  PROVE  \A r \in Refs, t \in Transfers, s \in Sources :
           EventRecorded(r, t, s)' <=>
             \/ EventRecorded(r, t, s)
             \/ r = RefOf(w) /\ t = tasks[w].transfer /\ s = tasks[w].source
<1> DEFINE new == [ref |-> RefOf(w), transfer |-> tasks[w].transfer, source |-> tasks[w].source,
                   invoice |-> InvoiceOf(w), amount |-> AmountOf(w)]
<1>1. events' = events \cup {new}
  BY DEF RecordEvent, InsertEventRow
<1>2. /\ new.ref = RefOf(w) /\ new.transfer = tasks[w].transfer
      /\ new.source = tasks[w].source
  OBVIOUS
<1> HIDE DEF new
<1> QED BY <1>1, <1>2 DEF EventRecorded

-----------------------------------------------------------------------------
(* How a step moves the set of stranded transactions.                        *)

KeepsWork(w) ==
  AtWork(w) => /\ AtWork(w)'
               /\ tasks'[w].transfer = tasks[w].transfer /\ tasks'[w].source = tasks[w].source

\* Only the transaction of a worker that stops or records can become stranded.
LEMMA StrandedGrows ==
  ASSUME TypeInv, LinksLast, SameTransfers, NEW w \in Workers,
         \A v \in Workers \ {w} : KeepsWork(v),
         \A r \in Refs, t \in Transfers, s \in Sources :
           EventRecorded(r, t, s)' =>
             EventRecorded(r, t, s) \/ (t = tasks[w].transfer /\ s = tasks[w].source)
  PROVE  Stranded' \subseteq Stranded \cup {<<tasks[w].transfer, tasks[w].source>>}
<1> SUFFICES ASSUME NEW t \in Transfers, NEW s \in Sources, Lost(t, s)',
                    ~(t = tasks[w].transfer /\ s = tasks[w].source)
             PROVE  Lost(t, s)
  BY DEF Stranded
<1>1. /\ bank[t].ref \in Refs /\ bank'[t].ref = bank[t].ref /\ bank'[t].amount = bank[t].amount
  BY DEF SameTransfers, TypeInv, SettlementAloneTypeOK, SettlementTypeOK, BankRows
<1>2. LinkExists(bank[t].ref)'
  BY <1>1 DEF Lost, FullTransfer, LinkExists
<1>3. FullTransfer(t) /\ links[bank[t].ref].status # "PAID"
  BY <1>1, <1>2 DEF Lost, FullTransfer, LinksLast
<1>4. EventRecorded(bank[t].ref, t, s)
  BY <1>1 DEF Lost, EventRecorded
<1>5. ~BeingSettled(t, s)
  BY DEF Lost, BeingSettled, KeepsWork
<1> QED BY <1>3, <1>4, <1>5 DEF Lost

\* A step that interrupts nobody strands nothing.
LEMMA NoneStranded ==
  ASSUME TypeInv, LinksLast, SameTransfers, \A v \in Workers : KeepsWork(v),
         \A r \in Refs, t \in Transfers, s \in Sources :
           EventRecorded(r, t, s)' => EventRecorded(r, t, s)
  PROVE  Stranded' \subseteq Stranded
<1> SUFFICES ASSUME NEW t \in Transfers, NEW s \in Sources, Lost(t, s)' PROVE Lost(t, s)
  BY DEF Stranded
<1>1. /\ bank[t].ref \in Refs /\ bank'[t].ref = bank[t].ref /\ bank'[t].amount = bank[t].amount
  BY DEF SameTransfers, TypeInv, SettlementAloneTypeOK, SettlementTypeOK, BankRows
<1>2. LinkExists(bank[t].ref)'
  BY <1>1 DEF Lost, FullTransfer, LinkExists
<1>3. FullTransfer(t) /\ links[bank[t].ref].status # "PAID"
  BY <1>1, <1>2 DEF Lost, FullTransfer, LinksLast
<1>4. EventRecorded(bank[t].ref, t, s)
  BY <1>1 DEF Lost, EventRecorded
<1>5. ~BeingSettled(t, s)
  BY DEF Lost, BeingSettled, KeepsWork
<1> QED BY <1>3, <1>4, <1>5 DEF Lost

LEMMA CountKept ==
  ASSUME TypeInv, StrandedCosts, Stranded' \subseteq Stranded, faults' = faults
  PROVE  StrandedCosts'
<1>1. IsFiniteSet(Stranded') /\ Cardinality(Stranded') <= Cardinality(Stranded)
  BY FS_Subset DEF StrandedCosts
<1>2. Cardinality(Stranded) \in Nat /\ Cardinality(Stranded') \in Nat /\ faults \in Nat
  BY <1>1, FS_CardinalityType, StoreAssumption
     DEF StrandedCosts, TypeInv, SettlementAloneTypeOK, StoreTypeOK
<1> QED BY <1>1, <1>2 DEF StrandedCosts

LEMMA CountGrows ==
  ASSUME TypeInv, StrandedCosts, NEW x, Stranded' \subseteq Stranded \cup {x}, Fault
  PROVE  StrandedCosts'
<1>1. /\ IsFiniteSet(Stranded \cup {x})
      /\ Cardinality(Stranded \cup {x}) = IF x \in Stranded THEN Cardinality(Stranded)
                                          ELSE Cardinality(Stranded) + 1
  BY FS_AddElement DEF StrandedCosts
<1>2. IsFiniteSet(Stranded') /\ Cardinality(Stranded') <= Cardinality(Stranded \cup {x})
  BY <1>1, FS_Subset
<1>3. /\ Cardinality(Stranded) \in Nat /\ Cardinality(Stranded') \in Nat
      /\ Cardinality(Stranded \cup {x}) \in Nat
  BY <1>1, <1>2, FS_CardinalityType DEF StrandedCosts
<1>4. faults \in Nat /\ faults' = faults + 1
  BY StoreAssumption DEF Fault, TypeInv, SettlementAloneTypeOK, StoreTypeOK
<1> QED BY <1>1, <1>2, <1>3, <1>4 DEF StrandedCosts

-----------------------------------------------------------------------------
(* The other two parts, kept by what most steps have in common.              *)

SameCopy(w) ==
  Copied(w)' => /\ Copied(w)
                /\ tasks'[w].transfer = tasks[w].transfer /\ tasks'[w].link = tasks[w].link

\* No step forgets what has been recorded.
EventsLast ==
  \A r \in Refs, t \in Transfers, s \in Sources : EventRecorded(r, t, s) => EventRecorded(r, t, s)'

\* A webhook is answered with 200 when its event has been recorded.
AckedFairly ==
  \A t \in Transfers : bank'[t].state = "acked" =>
    bank[t].state = "acked" \/ EventRecorded(bank[t].ref, t, "webhook")'

LEMMA CopiesStayPaid ==
  ASSUME TypeInv, CopiedPaid, LinksLast, SameTransfers, \A w \in Workers : SameCopy(w)
  PROVE  CopiedPaid'
<1> SUFFICES ASSUME NEW w \in Workers, Copied(w)', tasks'[w].link.status = "PAID",
                    LinkExists(RefOf(w))'
             PROVE  links'[RefOf(w)'].status = "PAID"
  BY DEF CopiedPaid
<1>1. Copied(w) /\ tasks'[w].transfer = tasks[w].transfer /\ tasks'[w].link = tasks[w].link
  BY DEF SameCopy
<1>2. tasks[w].transfer \in Transfers /\ RefOf(w) \in Refs
  BY <1>1, Working DEF Copied
<1>3. RefOf(w)' = RefOf(w)
  BY <1>1, <1>2 DEF SameTransfers, RefOf
<1>4. LinkExists(RefOf(w)) /\ (links[RefOf(w)].status = "PAID" => links'[RefOf(w)].status = "PAID")
  BY <1>2, <1>3 DEF LinksLast, LinkExists
<1> QED BY <1>1, <1>3, <1>4 DEF CopiedPaid

LEMMA AckedStayRecorded ==
  ASSUME TypeInv, AckedIsRecorded, SameTransfers, EventsLast, AckedFairly
  PROVE  AckedIsRecorded'
<1> SUFFICES ASSUME NEW t \in Transfers, bank'[t].state = "acked"
             PROVE  EventRecorded(bank[t].ref, t, "webhook")'
  BY DEF AckedIsRecorded
<1>1. bank[t].ref \in Refs /\ bank'[t].ref = bank[t].ref
  BY DEF SameTransfers, TypeInv, SettlementAloneTypeOK, SettlementTypeOK, BankRows
<1>2. EventRecorded(bank[t].ref, t, "webhook") \/ EventRecorded(bank[t].ref, t, "webhook")'
  BY DEF AckedIsRecorded, AckedFairly
<1>3. EventRecorded(bank[t].ref, t, "webhook") => EventRecorded(bank[t].ref, t, "webhook")'
  BY <1>1 DEF EventsLast, EventRecorded, Sources
<1> QED BY <1>2, <1>3

\* Answering 200 for the transaction a worker has, once it is recorded.
LEMMA FinishAcks ==
  ASSUME TypeInv, NEW w \in Workers, Finish(w), NEW t \in Transfers, t = tasks[w].transfer,
         tasks[w].source = "webhook" => EventRecorded(bank[t].ref, t, "webhook")'
  PROVE  AckedFairly
<1> SUFFICES ASSUME NEW u \in Transfers, bank'[u].state = "acked", bank[u].state # "acked"
             PROVE  EventRecorded(bank[u].ref, u, "webhook")'
  BY DEF AckedFairly
<1>1. tasks[w].source = "webhook" /\ bank' = [bank EXCEPT ![tasks[w].transfer].state = "acked"]
  BY DEF Finish
<1>2. u = t
  BY <1>1 DEF TypeInv, SettlementAloneTypeOK, SettlementTypeOK
<1> QED BY <1>1, <1>2

\* A worker that stops while it is not settling interrupts nothing.
LEMMA RestInterruptsNothing ==
  ASSUME TypeInv, NEW w \in Workers, tasks' = [tasks EXCEPT ![w] = Rest(@)]
  PROVE  /\ \A v \in Workers : SameCopy(v)
         /\ \A v \in Workers \ {w} : KeepsWork(v)
         /\ ~AtWork(w) => KeepsWork(w)
<1>1. tasks \in [Workers -> Tasks]
  BY DEF TypeInv, SettlementAloneTypeOK, SettlementTypeOK
<1>2. \A v \in Workers \ {w} : tasks'[v] = tasks[v]
  BY <1>1
<1> QED BY <1>2, RestKeepsCopies DEF KeepsCopy, SameCopy, KeepsWork, AtWork

\* A worker that goes from one stage to another keeps its transaction.
LEMMA StepInterruptsNothing ==
  ASSUME TypeInv, NEW w \in Workers, NEW from, NEW to, Step(w, from, to),
         to \in {"record", "settle", "reload", "mark", "notify"} =>
           from \in {"record", "settle", "reload", "mark", "notify"}
  PROVE  /\ \A v \in Workers : SameCopy(v)
         /\ \A v \in Workers \ {w} : KeepsWork(v)
         /\ (to \in {"settle", "reload", "mark"} \/ from \notin {"settle", "reload", "mark"}) => KeepsWork(w)
         /\ tasks'[w].pc = to /\ tasks'[w].transfer = tasks[w].transfer
         /\ tasks'[w].source = tasks[w].source /\ tasks'[w].link = tasks[w].link
<1>1. tasks \in [Workers -> Tasks] /\ tasks[w].pc = from
  BY DEF Step, TypeInv, SettlementAloneTypeOK, SettlementTypeOK
<1>2. \A v \in Workers : tasks'[v] = IF v = w THEN [tasks[w] EXCEPT !.pc = to] ELSE tasks[v]
  BY <1>1 DEF Step
<1>3. /\ tasks'[w].pc = to /\ tasks'[w].transfer = tasks[w].transfer
      /\ tasks'[w].source = tasks[w].source /\ tasks'[w].link = tasks[w].link
  BY <1>1, <1>2 DEF Tasks
<1> QED BY <1>1, <1>2, <1>3 DEF SameCopy, Copied, KeepsWork, AtWork

\* A step that interrupts nobody keeps the invariant.
LEMMA CalmRecovery ==
  ASSUME TypeInv, RecoveryInv, LinksLast, SameTransfers, EventsLast, AckedFairly, faults' = faults,
         \A w \in Workers : SameCopy(w) /\ KeepsWork(w),
         \A r \in Refs, t \in Transfers, s \in Sources :
           EventRecorded(r, t, s)' => EventRecorded(r, t, s)
  PROVE  RecoveryInv'
<1>1. CopiedPaid'
  BY CopiesStayPaid DEF RecoveryInv
<1>2. AckedIsRecorded'
  BY AckedStayRecorded DEF RecoveryInv
<1>3. StrandedCosts'
  BY NoneStranded, CountKept DEF RecoveryInv
<1> QED BY <1>1, <1>2, <1>3 DEF RecoveryInv

-----------------------------------------------------------------------------
(* The steps.                                                                *)

\* The copy is read from the link as it is.
LEMMA ReadRecovers ==
  ASSUME BaseInv, RecoveryInv, NEW w \in Workers, ReadLink(w)
  PROVE  RecoveryInv'
<1>1. /\ TypeInv /\ tasks \in [Workers -> Tasks] /\ bank' = bank /\ links' = links /\ events' = events
      /\ faults' = faults /\ tasks[w].pc = "link"
      /\ tasks' = [tasks EXCEPT ![w] = [tasks[w] EXCEPT !.pc = "record", !.link = links[RefOf(w)]]]
  BY DEF ReadLink, storeVars, BaseInv, TypeInv, SettlementAloneTypeOK, SettlementTypeOK
<1>2. /\ tasks'[w].pc = "record" /\ tasks'[w].link = links[RefOf(w)] /\ RefOf(w)' = RefOf(w)
      /\ \A v \in Workers \ {w} : tasks'[v] = tasks[v]
  BY <1>1 DEF Tasks, RefOf
<1>3. CopiedPaid'
  <2> SUFFICES ASSUME NEW v \in Workers, Copied(v)', tasks'[v].link.status = "PAID", LinkExists(RefOf(v))'
               PROVE  links'[RefOf(v)'].status = "PAID"
    BY DEF CopiedPaid
  <2>1. CASE v = w
    BY <1>1, <1>2, <2>1
  <2>2. CASE v # w
    BY <1>1, <1>2, <2>2 DEF RecoveryInv, CopiedPaid, Copied, RefOf, LinkExists
  <2> QED BY <2>1, <2>2
<1>4. AckedIsRecorded'
  BY <1>1 DEF RecoveryInv, AckedIsRecorded, EventRecorded
<1>5. SameTransfers /\ LinksLast
  BY <1>1, SameLinksLast DEF SameTransfers
<1>6. \A v \in Workers : KeepsWork(v)
  BY <1>1, <1>2 DEF KeepsWork, AtWork
<1>7. StrandedCosts'
  BY <1>1, <1>5, <1>6, NoneStranded, CountKept DEF RecoveryInv, EventRecorded
<1> QED BY <1>3, <1>4, <1>7 DEF RecoveryInv

\* What is recorded without being settled does not pay an unpaid link in full.
LEMMA AuditedIsNotLost ==
  ASSUME BaseInv, RecoveryInv, NEW w \in Workers, tasks[w].pc = "record", AuditOnly(w),
         LinkExists(RefOf(w)), AmountOf(w) >= links[RefOf(w)].amount
  PROVE  links[RefOf(w)].status = "PAID"
<1>1. /\ RefOf(w) \in Refs /\ AmountOf(w) \in Nat /\ links[RefOf(w)] \in LinkRows
      /\ tasks[w].link \in LinkRows /\ Copied(w)
  BY Working DEF BaseInv, Copied
<1>2. links[RefOf(w)].invoice = InvoiceOf(w) /\ links[RefOf(w)].amount = tasks[w].link.amount
  BY <1>1 DEF BaseInv, CopyInv, CopyIsTrue
<1>3. InvoiceOf(w) # None
  BY <1>1, <1>2, StoreAssumption DEF BaseInv, CopyInv, ForeignKeys
<1>4. tasks[w].link.status = "PAID"
  BY <1>1, <1>2, <1>3 DEF AuditOnly, LinkRows
<1> QED BY <1>1, <1>4 DEF RecoveryInv, CopiedPaid

\* An event that is only kept for audit strands nothing; one that is not has its
\* worker settling it.
LEMMA RecordRecovers ==
  ASSUME BaseInv, RecoveryInv, NEW w \in Workers, RecordEvent(w)
  PROVE  RecoveryInv'
<1>1. /\ TypeInv /\ tasks \in [Workers -> Tasks] /\ bank \in [Transfers -> BankRows]
      /\ links' = links /\ faults' = faults /\ tasks[w].pc = "record"
  BY DEF RecordEvent, BaseInv, TypeInv, SettlementAloneTypeOK, SettlementTypeOK
<1>2. PICK t \in Transfers, s \in Sources : t = tasks[w].transfer /\ s = tasks[w].source
  BY <1>1, Working
<1>3. RefOf(w) \in Refs /\ RefOf(w) = bank[t].ref /\ AmountOf(w) = bank[t].amount
  BY <1>1, <1>2, Working DEF RefOf, AmountOf
<1>4. LinksLast /\ EventsLast
  BY <1>1, SameLinksLast, InsertRecords DEF EventsLast
<1>5. SameTransfers
  BY <1>1, FinishKeepsTransfers DEF RecordEvent, SameTransfers
<1>6. EventRecorded(bank[t].ref, t, s)'
  <2>1. bank'[t].ref = bank[t].ref
    BY <1>5 DEF SameTransfers
  <2>2. \E e \in events' : e.ref = bank[t].ref /\ e.transfer = t /\ e.source = s
    BY <1>1, <1>2, <1>3, InsertRecords DEF EventRecorded
  <2> QED BY <2>1, <2>2 DEF EventRecorded
<1>7. /\ \A v \in Workers : SameCopy(v)
      /\ \A v \in Workers \ {w} : KeepsWork(v)
      /\ ~AuditOnly(w) => AtWork(w)' /\ tasks'[w].transfer = t /\ tasks'[w].source = s
  <2>1. CASE AuditOnly(w)
    BY <1>1, <2>1, RestInterruptsNothing DEF RecordEvent, Finish
  <2>2. CASE ~AuditOnly(w)
    <3>1. Step(w, "record", "settle")
      BY <2>2 DEF RecordEvent, Step
    <3> QED BY <1>1, <1>2, <3>1, StepInterruptsNothing DEF AtWork
  <2> QED BY <2>1, <2>2
<1>8. AckedFairly
  BY <1>1, <1>2, <1>6, FinishAcks DEF RecordEvent, AckedFairly
<1>9. CopiedPaid' /\ AckedIsRecorded'
  BY <1>1, <1>4, <1>5, <1>7, <1>8, CopiesStayPaid, AckedStayRecorded DEF RecoveryInv
<1>10. Stranded' \subseteq Stranded
  <2>1. Stranded' \subseteq Stranded \cup {<<t, s>>}
    BY <1>1, <1>2, <1>4, <1>5, <1>7, InsertRecords, StrandedGrows
  <2>2. ~Lost(t, s)'
    <3>1. CASE AuditOnly(w)
      <4>1. FullTransfer(t)' => LinkExists(RefOf(w)) /\ AmountOf(w) >= links[RefOf(w)].amount
        BY <1>1, <1>3, <1>5 DEF FullTransfer, LinkExists, SameTransfers
      <4>2. FullTransfer(t)' => links[RefOf(w)].status = "PAID"
        BY <1>1, <3>1, <4>1, AuditedIsNotLost
      <4> QED BY <1>1, <1>3, <1>5, <4>2 DEF Lost, SameTransfers
    <3>2. CASE ~AuditOnly(w)
      BY <1>7, <3>2 DEF Lost, BeingSettled
    <3> QED BY <3>1, <3>2
  <2>3. <<t, s>> \notin Stranded'
    BY <2>2 DEF Stranded
  <2> QED BY <2>1, <2>3
<1>11. StrandedCosts'
  BY <1>1, <1>10, CountKept DEF RecoveryInv
<1> QED BY <1>9, <1>11 DEF RecoveryInv

\* A worker whose invoice is gone has lost its link with it.
LEMMA GoneRecovers ==
  ASSUME BaseInv, RecoveryInv, NEW w \in Workers, InvoiceGone(w)
  PROVE  RecoveryInv'
<1>1. /\ TypeInv /\ bank' = bank /\ links' = links /\ events' = events /\ faults' = faults
      /\ tasks' = [tasks EXCEPT ![w] = Rest(@)] /\ tasks[w].pc \in {"settle", "reload"}
      /\ ~InvoiceExists(InvoiceOf(w))
  BY DEF InvoiceGone, Reject, storeVars, BaseInv
<1>2. PICK t \in Transfers, s \in Sources : t = tasks[w].transfer /\ s = tasks[w].source
  BY <1>1, Working
<1>3. RefOf(w) = bank[t].ref /\ RefOf(w) \in Refs
  BY <1>1, <1>2, Working DEF RefOf
<1>4. LinksLast /\ SameTransfers /\ EventsLast /\ AckedFairly
  BY <1>1, SameLinksLast DEF SameTransfers, EventsLast, EventRecorded, AckedFairly
<1>5. /\ \A v \in Workers : SameCopy(v)
      /\ \A v \in Workers \ {w} : KeepsWork(v)
  BY <1>1, RestInterruptsNothing
<1>6. CopiedPaid' /\ AckedIsRecorded'
  BY <1>1, <1>4, <1>5, CopiesStayPaid, AckedStayRecorded DEF RecoveryInv
<1>7. ~LinkExists(RefOf(w))
  BY <1>1, <1>3 DEF BaseInv, CopyInv, CopyIsTrue, ForeignKeys, Copied
<1>8. Stranded' \subseteq Stranded
  <2>1. Stranded' \subseteq Stranded \cup {<<t, s>>}
    BY <1>1, <1>2, <1>4, <1>5, StrandedGrows DEF EventRecorded
  <2>2. <<t, s>> \notin Stranded'
    BY <1>1, <1>3, <1>7 DEF Stranded, Lost, FullTransfer, LinkExists
  <2> QED BY <2>1, <2>2
<1>9. StrandedCosts'
  BY <1>1, <1>8, CountKept DEF RecoveryInv
<1> QED BY <1>6, <1>9 DEF RecoveryInv

\* The worker's link, if it is still there, is PAID once it is marked.
LEMMA MarkPays ==
  ASSUME BaseInv, NEW w \in Workers, MarkLinkPaid(w)
  PROVE  /\ RefOf(w) \in Refs /\ RefOf(w)' = RefOf(w)
         /\ LinkExists(RefOf(w))' => links'[RefOf(w)].status = "PAID"
<1>1. /\ TypeInv /\ bank' = bank /\ Step(w, "mark", "notify") /\ tasks[w].pc = "mark"
      /\ links \in [Refs -> LinkRows] /\ UpdatePaymentLinkStatus(RefOf(w), InvoiceOf(w), "PAID")
  BY DEF MarkLinkPaid, Step, BaseInv, TypeInv, SettlementAloneTypeOK, StoreTypeOK
<1>2. RefOf(w) \in Refs
  BY <1>1, Working
<1>3. RefOf(w)' = RefOf(w)
  BY <1>1, StepInterruptsNothing DEF RefOf
<1>4. LinkExists(RefOf(w))' => LinkExists(RefOf(w))
  BY <1>1, <1>2, <1>3, MarkLinksLast DEF LinksLast, LinkExists
<1>5. LinkExists(RefOf(w)) => RefOf(w) \in LinksOf(InvoiceOf(w))
  BY <1>1, <1>2 DEF BaseInv, CopyInv, CopyIsTrue, Copied, LinksOf
<1> QED BY <1>1, <1>2, <1>3, <1>4, <1>5 DEF UpdatePaymentLinkStatus

\* Once the link is marked the transaction is not missed any more.
LEMMA MarkRecovers ==
  ASSUME BaseInv, RecoveryInv, NEW w \in Workers, MarkLinkPaid(w)
  PROVE  RecoveryInv'
<1>1. /\ TypeInv /\ bank' = bank /\ events' = events /\ faults' = faults
      /\ Step(w, "mark", "notify") /\ tasks[w].pc = "mark" /\ links \in [Refs -> LinkRows]
      /\ UpdatePaymentLinkStatus(RefOf(w), InvoiceOf(w), "PAID")
  BY DEF MarkLinkPaid, Step, BaseInv, TypeInv, SettlementAloneTypeOK, StoreTypeOK
<1>2. PICK t \in Transfers, s \in Sources : t = tasks[w].transfer /\ s = tasks[w].source
  BY <1>1, Working
<1>3. RefOf(w) = bank[t].ref /\ RefOf(w) \in Refs
  BY <1>1, <1>2, Working DEF RefOf
<1>4. LinksLast /\ SameTransfers /\ EventsLast /\ AckedFairly
  BY <1>1, MarkLinksLast DEF SameTransfers, EventsLast, EventRecorded, AckedFairly
<1>5. /\ \A v \in Workers : SameCopy(v)
      /\ \A v \in Workers \ {w} : KeepsWork(v)
  BY <1>1, StepInterruptsNothing
<1>6. CopiedPaid' /\ AckedIsRecorded'
  BY <1>1, <1>4, <1>5, CopiesStayPaid, AckedStayRecorded DEF RecoveryInv
<1>7. RefOf(w)' = RefOf(w) /\ (LinkExists(RefOf(w))' => links'[RefOf(w)].status = "PAID")
  BY MarkPays
<1>8. Stranded' \subseteq Stranded
  <2>1. Stranded' \subseteq Stranded \cup {<<t, s>>}
    BY <1>1, <1>2, <1>4, <1>5, StrandedGrows DEF EventRecorded
  <2>2. <<t, s>> \notin Stranded'
    BY <1>1, <1>3, <1>7 DEF Stranded, Lost, FullTransfer, LinkExists
  <2> QED BY <2>1, <2>2
<1>9. StrandedCosts'
  BY <1>1, <1>8, CountKept DEF RecoveryInv
<1> QED BY <1>6, <1>9 DEF RecoveryInv

\* A failure interrupts at most the one worker it happens to.
LEMMA FaultRecovers ==
  ASSUME TypeInv, RecoveryInv, NEW w \in Workers, Fault,
         bank' = bank, links' = links, events' = events,
         \A v \in Workers : SameCopy(v), \A v \in Workers \ {w} : KeepsWork(v)
  PROVE  RecoveryInv'
<1>1. LinksLast /\ SameTransfers /\ EventsLast /\ AckedFairly
  BY SameLinksLast DEF SameTransfers, EventsLast, EventRecorded, AckedFairly
<1>2. CopiedPaid' /\ AckedIsRecorded'
  BY <1>1, CopiesStayPaid, AckedStayRecorded DEF RecoveryInv
<1>3. Stranded' \subseteq Stranded \cup {<<tasks[w].transfer, tasks[w].source>>}
  BY <1>1, StrandedGrows DEF EventRecorded
<1>4. StrandedCosts'
  BY <1>3, CountGrows DEF RecoveryInv
<1> QED BY <1>2, <1>4 DEF RecoveryInv

LEMMA NextRecovers ==
  BaseInv /\ RecoveryInv /\ [SettlementAloneNext]_settlementAloneVars => RecoveryInv'
<1> SUFFICES ASSUME BaseInv, RecoveryInv, [SettlementAloneNext]_settlementAloneVars
             PROVE  RecoveryInv'
  OBVIOUS
<1> DEFINE Undisturbed == \A v \in Workers : SameCopy(v) /\ KeepsWork(v)
<1>0. /\ TypeInv /\ tasks \in [Workers -> Tasks] /\ bank \in [Transfers -> BankRows]
  BY DEF BaseInv, TypeInv, SettlementAloneTypeOK, SettlementTypeOK
<1>1. ASSUME Undisturbed, SameTransfers, AckedFairly, links' = links, events' = events, faults' = faults
      PROVE  RecoveryInv'
  BY <1>0, <1>1, CalmRecovery, SameLinksLast DEF EventsLast, EventRecorded
<1>2. ASSUME NEW t \in Transfers, MakeTransfer(t) PROVE RecoveryInv'
  <2>1. Undisturbed
    BY <1>2 DEF MakeTransfer, SameCopy, KeepsWork, Copied, AtWork
  <2>2. SameTransfers /\ AckedFairly
    BY <1>0, <1>2 DEF MakeTransfer, BankRows, SameTransfers, AckedFairly
  <2> QED BY <1>1, <1>2, <2>1, <2>2 DEF MakeTransfer, storeVars
<1>3. ASSUME NEW w \in Workers, NEW t \in Transfers, DeliverWebhook(w, t) PROVE RecoveryInv'
  <2>1. Undisturbed
    BY <1>0, <1>3 DEF DeliverWebhook, SameCopy, KeepsWork, Copied, AtWork, Idle
  <2> QED BY <1>1, <1>3, <2>1 DEF DeliverWebhook, storeVars, SameTransfers, AckedFairly
<1>4. ASSUME NEW w \in Workers, StartReconcile(w) PROVE RecoveryInv'
  <2>1. Undisturbed
    BY <1>0, <1>4 DEF StartReconcile, SameCopy, KeepsWork, Copied, AtWork, Idle
  <2> QED BY <1>1, <1>4, <2>1 DEF StartReconcile, storeVars, SameTransfers, AckedFairly
<1>5. ASSUME NEW w \in Workers, NextTransaction(w) PROVE RecoveryInv'
  <2>1. PICK t \in tasks[w].todo :
          tasks' = [tasks EXCEPT ![w] = [tasks[w] EXCEPT !.pc = "check", !.transfer = t,
                                                         !.todo = @ \ {t}]]
    BY <1>5 DEF NextTransaction
  <2>2. Undisturbed
    BY <1>0, <1>5, <2>1 DEF NextTransaction, SameCopy, KeepsWork, Copied, AtWork, Tasks
  <2> QED BY <1>1, <1>5, <2>2 DEF NextTransaction, storeVars, SameTransfers, AckedFairly
<1>6. ASSUME NEW w \in Workers, SkipRecorded(w) \/ Notify(w) PROVE RecoveryInv'
  <2>1. /\ Finish(w) /\ links' = links /\ events' = events /\ faults' = faults /\ ~AtWork(w)
        /\ tasks[w].pc \notin {"idle", "next"}
    BY <1>6 DEF SkipRecorded, Notify, storeVars, AtWork
  <2>2. Undisturbed
    BY <1>0, <2>1, RestInterruptsNothing DEF Finish
  <2>3. SameTransfers
    BY <1>0, <2>1, FinishKeepsTransfers
  <2>4. PICK t \in Transfers : t = tasks[w].transfer
    BY <1>0, <2>1, Working
  <2>5. EventRecorded(RefOf(w), t, tasks[w].source)
    BY <1>6, <2>4 DEF SkipRecorded, Notify, BaseInv, IdempotenceInv, HandledIsRecorded, Handling
  <2>6. tasks[w].source = "webhook" => EventRecorded(bank[t].ref, t, "webhook")'
    BY <2>1, <2>3, <2>4, <2>5 DEF SameTransfers, RefOf, EventRecorded
  <2>7. AckedFairly
    BY <1>0, <2>1, <2>4, <2>6, FinishAcks
  <2> QED BY <1>1, <2>1, <2>2, <2>3, <2>7
<1>7. ASSUME NEW w \in Workers, CheckEvent(w) PROVE RecoveryInv'
  <2>1. Undisturbed
    BY <1>0, <1>7, StepInterruptsNothing DEF CheckEvent
  <2> QED BY <1>1, <1>7, <2>1 DEF CheckEvent, storeVars, SameTransfers, AckedFairly
<1>8. ASSUME NEW w \in Workers, RecordRejected(w) PROVE RecoveryInv'
  <2>1. Undisturbed
    BY <1>0, <1>8, RestInterruptsNothing DEF RecordRejected, Reject, AtWork
  <2> QED BY <1>1, <1>8, <2>1 DEF RecordRejected, Reject, storeVars, SameTransfers, AckedFairly
<1>9. ASSUME NEW w \in Workers, SettleInvoice(w) \/ ReloadInvoice(w) PROVE RecoveryInv'
  <2>1. Undisturbed
    BY <1>0, <1>9, StepInterruptsNothing DEF SettleInvoice, ReloadInvoice
  <2> QED BY <1>1, <1>9, <2>1 DEF SettleInvoice, ReloadInvoice, storeVars, SameTransfers, AckedFairly
<1>10. ASSUME NEW w \in Workers, MarkFails(w) PROVE RecoveryInv'
  BY <1>0, <1>10, StepInterruptsNothing, FaultRecovers DEF MarkFails
<1>11. ASSUME NEW w \in Workers, StatementFails(w) PROVE RecoveryInv'
  BY <1>0, <1>11, RestInterruptsNothing, FaultRecovers DEF StatementFails, Reject
<1>12. ASSUME NEW w \in Workers, WorkerLost(w) PROVE RecoveryInv'
  <2>1. /\ \A v \in Workers : SameCopy(v)
        /\ \A v \in Workers \ {w} : KeepsWork(v)
    BY <1>0, <1>12 DEF WorkerLost, SameCopy, KeepsWork, Copied, AtWork, Idle
  <2> QED BY <1>0, <1>12, <2>1, FaultRecovers DEF WorkerLost
<1>13. ASSUME NEW i \in Invoices, InvoiceDeleted(i) PROVE RecoveryInv'
  <2>1. Undisturbed /\ SameTransfers /\ AckedFairly /\ faults' = faults
    BY <1>13 DEF InvoiceDeleted, SameCopy, KeepsWork, Copied, AtWork, SameTransfers, AckedFairly
  <2> QED BY <1>0, <1>13, <2>1, CalmRecovery, DeletionLinksLast, DeletionKeepsEvents DEF EventsLast
<1>14. CASE UNCHANGED settlementAloneVars
  <2>1. Undisturbed
    BY <1>14 DEF settlementAloneVars, SameCopy, KeepsWork, Copied, AtWork
  <2> QED BY <1>1, <1>14, <2>1 DEF settlementAloneVars, SameTransfers, AckedFairly
<1> QED BY <1>2, <1>3, <1>4, <1>5, <1>6, <1>7, <1>8, <1>9, <1>10, <1>11, <1>12, <1>13, <1>14,
           ReadRecovers, RecordRecovers, GoneRecovers, MarkRecovers
        DEF SettlementAloneNext, SettlementNext, Progress

LEMMA InitRecovers == SettlementAloneInit => RecoveryInv
<1> SUFFICES ASSUME SettlementAloneInit PROVE RecoveryInv
  OBVIOUS
<1>1. events = {} /\ faults = 0 /\ \A w \in Workers : tasks[w].pc = "idle"
  BY DEF SettlementAloneInit, SeededStore, SettlementInit, Idle
<1>2. \A t \in Transfers : bank[t].state = "pending"
  BY DEF SettlementAloneInit, SettlementInit
<1>3. Stranded = {}
  BY <1>1 DEF Stranded, Lost, EventRecorded
<1>4. StrandedCosts
  BY <1>1, <1>3, FS_EmptySet DEF StrandedCosts
<1> QED BY <1>1, <1>2, <1>4 DEF RecoveryInv, CopiedPaid, Copied, AckedIsRecorded

-----------------------------------------------------------------------------
(* What follows from it.                                                     *)

LEMMA RecoveryHolds == SettlementSafeSpec => [](BaseInv /\ RecoveryInv)
<1>1. SettlementAloneInit => BaseInv /\ RecoveryInv
  BY InitType, InitIdempotent, InitCopy, InitRecovers DEF BaseInv
<1>2. BaseInv /\ RecoveryInv /\ [SettlementAloneNext]_settlementAloneVars => (BaseInv /\ RecoveryInv)'
  BY NextType, DeletedType, NextIdempotent, DeletedIdempotent, NextKeepsCopies, NextRecovers
     DEF BaseInv, SettlementAloneNext
<1> QED BY <1>1, <1>2, PTL DEF SettlementSafeSpec

\* Every full payment that the records hide from a repeat and that nobody is
\* settling has cost a failure of its own: a failed statement or a lost worker
\* between line 237 and line 284.
THEOREM LossesAreFailures == SettlementSafeSpec => []StrandedCosts
BY RecoveryHolds, PTL DEF RecoveryInv

\* Overlapping deliveries, repeats and deletions lose no acknowledged payment:
\* what was answered with 200 is settled or being settled until a failure happens.
THEOREM NothingLostWithoutFailure == SettlementSafeSpec => []OnlyFaultsLosePayments
<1>1. BaseInv /\ RecoveryInv => OnlyFaultsLosePayments
  <2> SUFFICES ASSUME BaseInv, RecoveryInv, faults = 0, NEW t \in Transfers,
                      bank[t].state = "acked", FullTransfer(t), links[bank[t].ref].status # "PAID"
               PROVE  Settling(bank[t].ref)
    BY DEF OnlyFaultsLosePayments, AcknowledgedMeansSettled
  <2>1. Stranded = {}
    <3>1. IsFiniteSet(Stranded) /\ Cardinality(Stranded) <= 0 /\ Cardinality(Stranded) \in Nat
      BY FS_CardinalityType DEF RecoveryInv, StrandedCosts
    <3> QED BY <3>1, FS_EmptySet
  <2>2. ~Lost(t, "webhook")
    <3>1. <<t, "webhook">> \in Transfers \X Sources /\ <<t, "webhook">> \notin Stranded
      BY <2>1 DEF Sources
    <3> QED BY <3>1 DEF Stranded
  <2>3. BeingSettled(t, "webhook")
    BY <2>2 DEF Lost, RecoveryInv, AckedIsRecorded
  <2> QED BY <2>3 DEF BeingSettled, AtWork, Settling, RefOf
<1> QED BY <1>1, RecoveryHolds, PTL

\* One failure cannot use up both references of a transfer, so reconciliation
\* recovers what a webhook lost, and the other way round.
THEOREM OneFailureIsRecovered == SettlementSafeSpec => []SecondSourceRecovers
<1>1. BaseInv /\ RecoveryInv => SecondSourceRecovers
  <2> SUFFICES ASSUME BaseInv, RecoveryInv, faults <= 1, NEW t \in Transfers, FullTransfer(t),
                      \A s \in Sources : EventRecorded(bank[t].ref, t, s),
                      links[bank[t].ref].status # "PAID", ~Settling(bank[t].ref)
               PROVE  FALSE
    BY DEF SecondSourceRecovers
  <2> DEFINE both == {<<t, "webhook">>, <<t, "reconcile">>}
  <2>1. \A s \in Sources : ~BeingSettled(t, s)
    BY DEF BeingSettled, AtWork, Settling, RefOf
  <2>2. both \subseteq Stranded
    BY <2>1 DEF Stranded, Lost, Sources
  <2>3. Cardinality(both) = 2
    <3>1. both = {<<t, "webhook">>} \cup {<<t, "reconcile">>} /\ <<t, "reconcile">> \notin {<<t, "webhook">>}
      OBVIOUS
    <3>2. IsFiniteSet({<<t, "webhook">>}) /\ Cardinality({<<t, "webhook">>}) = 1
      BY FS_Singleton
    <3>3. Cardinality({<<t, "webhook">>} \cup {<<t, "reconcile">>}) = Cardinality({<<t, "webhook">>}) + 1
      BY <3>1, <3>2, FS_AddElement
    <3> QED BY <3>1, <3>2, <3>3
  <2>4. Cardinality(both) <= Cardinality(Stranded) /\ Cardinality(Stranded) \in Nat
    BY <2>2, FS_Subset, FS_CardinalityType DEF RecoveryInv, StrandedCosts
  <2>5. faults \in Nat
    BY StoreAssumption DEF BaseInv, TypeInv, SettlementAloneTypeOK, StoreTypeOK
  <2> QED BY <2>3, <2>4, <2>5 DEF RecoveryInv, StrandedCosts
<1> QED BY <1>1, RecoveryHolds, PTL

-----------------------------------------------------------------------------
(* How often a link is settled.  Nobody is told of a link before it is PAID,  *)
(* and a copy read afterwards says so; what is still to be told of are the    *)
(* workers that read it before.                                               *)

\* A worker that has found, or is about to find, that its transaction settles.
GoingToTell(w) ==
  Copied(w) /\ (tasks[w].pc = "record" => ~AuditOnly(w))

Telling(r) == {w \in Workers : GoingToTell(w) /\ RefOf(w) = r}

ToldIsPaid ==
  \A r \in Refs : NotifiedFor(r) # {} /\ LinkExists(r) => links[r].status = "PAID"

MarkedIsPaid ==
  \A w \in Workers : tasks[w].pc = "notify" /\ LinkExists(RefOf(w)) => links[RefOf(w)].status = "PAID"

FewTold ==
  \A r \in Refs : /\ IsFiniteSet(NotifiedFor(r))
                  /\ Cardinality(NotifiedFor(r)) + Cardinality(Telling(r)) <= Cardinality(Workers)

OverlapInv == faults = 0 => ToldIsPaid /\ MarkedIsPaid /\ FewTold

LEMMA SmallerTelling ==
  ASSUME NEW S \in SUBSET Workers, NEW T \in SUBSET S
  PROVE  /\ Cardinality(S) \in Nat /\ Cardinality(T) \in Nat /\ Cardinality(T) <= Cardinality(S)
         /\ Cardinality(S) <= Cardinality(Workers) /\ Cardinality(Workers) \in Nat
<1>1. IsFiniteSet(S) /\ Cardinality(S) <= Cardinality(Workers)
  BY FS_Subset, WorkersAssumption
<1>2. IsFiniteSet(T) /\ Cardinality(T) <= Cardinality(S)
  BY <1>1, FS_Subset
<1> QED BY <1>1, <1>2, FS_CardinalityType, WorkersAssumption

\* A worker goes on with a transaction that it has found to settle the link.
DecidesFairly(w) ==
  tasks[w].pc = "record" /\ Copied(w)' => tasks'[w].pc = "record" \/ ~AuditOnly(w)

\* A step that tells nobody and lets nobody begin.
LEMMA CalmOverlap ==
  ASSUME BaseInv, OverlapInv, LinksLast, SameTransfers, notices' = notices, faults' = faults,
         \A w \in Workers : SameCopy(w) /\ DecidesFairly(w),
         \A w \in Workers : tasks'[w].pc = "notify" =>
           tasks[w].pc = "notify" \/ (LinkExists(RefOf(w)) => links[RefOf(w)].status = "PAID")'
  PROVE  OverlapInv'
<1> SUFFICES ASSUME faults = 0, ToldIsPaid, MarkedIsPaid, FewTold
             PROVE  ToldIsPaid' /\ MarkedIsPaid' /\ FewTold'
  BY DEF OverlapInv
<1>1. \A r \in Refs : NotifiedFor(r)' = NotifiedFor(r)
  BY DEF NotifiedFor, SameTransfers
<1>2. ToldIsPaid'
  BY <1>1 DEF ToldIsPaid, LinksLast
<1>3. ASSUME NEW w \in Workers, Copied(w)'
      PROVE  RefOf(w)' = RefOf(w) /\ RefOf(w) \in Refs
  <2>1. Copied(w) /\ tasks'[w].transfer = tasks[w].transfer
    BY <1>3 DEF SameCopy
  <2>2. tasks[w].transfer \in Transfers /\ RefOf(w) \in Refs
    BY <2>1, Working DEF Copied, BaseInv
  <2> QED BY <2>1, <2>2 DEF SameTransfers, RefOf
<1>4. ASSUME NEW w \in Workers, GoingToTell(w)'
      PROVE  GoingToTell(w) /\ RefOf(w)' = RefOf(w)
  <2>1. Copied(w)' /\ Copied(w) /\ tasks'[w].transfer = tasks[w].transfer /\ tasks'[w].link = tasks[w].link
    BY <1>4 DEF GoingToTell, SameCopy
  <2>2. tasks[w].transfer \in Transfers
    BY <2>1, Working DEF Copied, BaseInv
  <2>3. AuditOnly(w)' <=> AuditOnly(w)
    BY <2>1, <2>2 DEF AuditOnly, InvoiceOf, AmountOf, SameTransfers
  <2> QED BY <1>3, <1>4, <2>1, <2>3 DEF GoingToTell, DecidesFairly
<1>5. MarkedIsPaid'
  <2> SUFFICES ASSUME NEW w \in Workers, tasks'[w].pc = "notify", LinkExists(RefOf(w))',
                      tasks[w].pc = "notify"
               PROVE  links'[RefOf(w)'].status = "PAID"
    BY DEF MarkedIsPaid
  <2>1. RefOf(w)' = RefOf(w) /\ RefOf(w) \in Refs
    BY <1>3 DEF Copied
  <2> QED BY <2>1 DEF MarkedIsPaid, LinksLast, LinkExists
<1>6. FewTold'
  <2> SUFFICES ASSUME NEW r \in Refs
               PROVE  /\ IsFiniteSet(NotifiedFor(r)')
                      /\ Cardinality(NotifiedFor(r)') + Cardinality(Telling(r)') <= Cardinality(Workers)
    BY DEF FewTold
  <2>1. Telling(r)' \subseteq Telling(r)
    BY <1>4 DEF Telling
  <2>2. Cardinality(Telling(r)') <= Cardinality(Telling(r))
        /\ Cardinality(Telling(r)') \in Nat /\ Cardinality(Telling(r)) \in Nat
        /\ Cardinality(Workers) \in Nat
    BY <2>1, SmallerTelling DEF Telling
  <2>3. Cardinality(NotifiedFor(r)) \in Nat
    BY FS_CardinalityType DEF FewTold
  <2> QED BY <1>1, <2>2, <2>3 DEF FewTold
<1> QED BY <1>2, <1>5, <1>6

\* A copy that will settle is made only while nobody has been told of the link.
LEMMA ReadOverlap ==
  ASSUME BaseInv, OverlapInv, NEW w \in Workers, ReadLink(w)
  PROVE  OverlapInv'
<1>1. /\ TypeInv /\ tasks \in [Workers -> Tasks] /\ bank' = bank /\ links' = links
      /\ faults' = faults /\ notices' = notices /\ tasks[w].pc = "link"
      /\ tasks' = [tasks EXCEPT ![w] = [tasks[w] EXCEPT !.pc = "record", !.link = links[RefOf(w)]]]
  BY DEF ReadLink, storeVars, BaseInv, TypeInv, SettlementAloneTypeOK, SettlementTypeOK
<1>2. /\ tasks'[w].pc = "record" /\ tasks'[w].link = links[RefOf(w)] /\ RefOf(w)' = RefOf(w)
      /\ \A v \in Workers \ {w} : tasks'[v] = tasks[v]
  BY <1>1 DEF Tasks, RefOf
<1> SUFFICES ASSUME faults = 0, ToldIsPaid, MarkedIsPaid, FewTold
             PROVE  ToldIsPaid' /\ MarkedIsPaid' /\ FewTold'
  BY <1>1 DEF OverlapInv
<1>3. \A r \in Refs : NotifiedFor(r)' = NotifiedFor(r)
  BY <1>1 DEF NotifiedFor
<1>4. ToldIsPaid'
  BY <1>1, <1>3 DEF ToldIsPaid, LinkExists
<1>5. MarkedIsPaid'
  BY <1>1, <1>2 DEF MarkedIsPaid, RefOf, LinkExists
<1>6. RefOf(w) \in Refs
  BY <1>1, Working
<1>7. \A v \in Workers \ {w} : RefOf(v)' = RefOf(v) /\ (GoingToTell(v)' <=> GoingToTell(v))
  BY <1>1, <1>2 DEF GoingToTell, Copied, AuditOnly, RefOf, InvoiceOf, AmountOf
<1>8. GoingToTell(w)' => NotifiedFor(RefOf(w)) = {}
  <2> SUFFICES ASSUME GoingToTell(w)' PROVE NotifiedFor(RefOf(w)) = {}
    OBVIOUS
  <2>1. links[RefOf(w)].invoice # None /\ links[RefOf(w)].status # "PAID"
    BY <1>1, <1>2 DEF GoingToTell, AuditOnly, InvoiceOf
  <2>2. LinkExists(RefOf(w))
    BY <1>6, <2>1 DEF BaseInv, CopyInv, ForeignKeys
  <2> QED BY <1>6, <2>1, <2>2 DEF ToldIsPaid
<1>9. FewTold'
  <2> SUFFICES ASSUME NEW r \in Refs
               PROVE  Cardinality(NotifiedFor(r)) + Cardinality(Telling(r)') <= Cardinality(Workers)
    BY <1>3 DEF FewTold
  <2>1. Telling(r)' \subseteq Workers /\ Telling(r) \subseteq Workers
    BY DEF Telling
  <2>2. CASE w \in Telling(r)'
    <3>1. NotifiedFor(r) = {}
      BY <1>2, <1>8, <2>2 DEF Telling
    <3>2. Cardinality(NotifiedFor(r)) = 0
      BY <3>1, FS_EmptySet
    <3> QED BY <2>1, <3>2, SmallerTelling
  <2>3. CASE w \notin Telling(r)'
    <3>1. Telling(r)' \subseteq Telling(r)
      BY <1>7, <2>3 DEF Telling
    <3>2. /\ Cardinality(Telling(r)') <= Cardinality(Telling(r)) /\ Cardinality(Telling(r)') \in Nat
          /\ Cardinality(Telling(r)) \in Nat /\ Cardinality(Workers) \in Nat
      BY <2>1, <3>1, SmallerTelling
    <3>3. Cardinality(NotifiedFor(r)) \in Nat
      BY FS_CardinalityType DEF FewTold
    <3> QED BY <3>2, <3>3 DEF FewTold
  <2> QED BY <2>2, <2>3
<1> QED BY <1>4, <1>5, <1>9

\* One more is told of the link, and one less is about to be.
LEMMA NotifyOverlap ==
  ASSUME BaseInv, OverlapInv, NEW w \in Workers, Notify(w)
  PROVE  OverlapInv'
<1>1. /\ TypeInv /\ tasks \in [Workers -> Tasks] /\ links' = links /\ faults' = faults /\ Finish(w)
      /\ tasks[w].pc = "notify" /\ notices' = [notices EXCEPT ![tasks[w].transfer][tasks[w].source] = @ + 1]
      /\ notices \in [Transfers -> [Sources -> Nat]]
  BY DEF Notify, storeVars, BaseInv, TypeInv, SettlementAloneTypeOK, SettlementTypeOK
<1>2. PICK t \in Transfers, s \in Sources : t = tasks[w].transfer /\ s = tasks[w].source
  BY <1>1, Working
<1>3. RefOf(w) \in Refs /\ RefOf(w) = bank[t].ref /\ SameTransfers
  BY <1>1, <1>2, Working, FinishKeepsTransfers DEF RefOf
<1>4. /\ \A v \in Workers : SameCopy(v)
      /\ \A v \in Workers \ {w} : tasks'[v] = tasks[v]
      /\ tasks'[w].pc \in {"idle", "next"}
  BY <1>1, RestInterruptsNothing, RestType DEF Finish
<1> SUFFICES ASSUME faults = 0, ToldIsPaid, MarkedIsPaid, FewTold
             PROVE  ToldIsPaid' /\ MarkedIsPaid' /\ FewTold'
  BY <1>1 DEF OverlapInv
<1>5. \A r \in Refs : NotifiedFor(r)' = IF r = RefOf(w) THEN NotifiedFor(r) \cup {<<t, s>>}
                                                      ELSE NotifiedFor(r)
  <2> SUFFICES ASSUME NEW r \in Refs, NEW x \in Transfers, NEW y \in Sources
               PROVE  <<x, y>> \in NotifiedFor(r)' <=>
                        <<x, y>> \in NotifiedFor(r) \/ (r = RefOf(w) /\ x = t /\ y = s)
    BY <1>2 DEF NotifiedFor
  <2>1. notices'[x][y] = IF x = t /\ y = s THEN notices[x][y] + 1 ELSE notices[x][y]
    BY <1>1, <1>2
  <2>2. notices[x][y] \in Nat
    BY <1>1
  <2>3. bank'[x].ref = bank[x].ref
    BY <1>3 DEF SameTransfers
  <2>4. <<x, y>> \in NotifiedFor(r)' <=> bank[x].ref = r /\ notices'[x][y] > 0
    BY <2>3 DEF NotifiedFor
  <2>5. <<x, y>> \in NotifiedFor(r) <=> bank[x].ref = r /\ notices[x][y] > 0
    BY DEF NotifiedFor
  <2> QED BY <1>3, <2>1, <2>2, <2>4, <2>5
<1>6. LinkExists(RefOf(w)) => links[RefOf(w)].status = "PAID"
  BY <1>1 DEF MarkedIsPaid
<1>7. ToldIsPaid'
  BY <1>1, <1>5, <1>6 DEF ToldIsPaid, LinkExists
<1>8. MarkedIsPaid'
  <2> SUFFICES ASSUME NEW v \in Workers, tasks'[v].pc = "notify", LinkExists(RefOf(v))'
               PROVE  links'[RefOf(v)'].status = "PAID"
    BY DEF MarkedIsPaid
  <2>1. v # w /\ tasks'[v] = tasks[v]
    BY <1>4
  <2>2. RefOf(v)' = RefOf(v)
    BY <1>1, <1>3, <2>1, Working DEF SameTransfers, RefOf
  <2> QED BY <1>1, <2>1, <2>2 DEF MarkedIsPaid, LinkExists
<1>9. \A v \in Workers \ {w} : GoingToTell(v)' => GoingToTell(v) /\ RefOf(v)' = RefOf(v)
  <2> SUFFICES ASSUME NEW v \in Workers \ {w}, GoingToTell(v)'
               PROVE  GoingToTell(v) /\ RefOf(v)' = RefOf(v)
    OBVIOUS
  <2>1. tasks'[v] = tasks[v] /\ Copied(v)
    BY <1>4 DEF GoingToTell, Copied
  <2>2. tasks[v].transfer \in Transfers
    BY <1>1, <2>1, Working DEF Copied
  <2> QED BY <1>3, <2>1, <2>2 DEF SameTransfers, GoingToTell, Copied, AuditOnly, RefOf, InvoiceOf, AmountOf
<1>10. FewTold'
  <2> SUFFICES ASSUME NEW r \in Refs
               PROVE  /\ IsFiniteSet(NotifiedFor(r)')
                      /\ Cardinality(NotifiedFor(r)') + Cardinality(Telling(r)') <= Cardinality(Workers)
    BY DEF FewTold
  <2>1. Telling(r)' \subseteq Telling(r) \ {w} /\ Telling(r) \subseteq Workers
    BY <1>4, <1>9 DEF Telling, GoingToTell, Copied
  <2>2. /\ Cardinality(Telling(r)') <= Cardinality(Telling(r) \ {w}) /\ Cardinality(Telling(r)') \in Nat
        /\ Cardinality(Telling(r)) \in Nat /\ Cardinality(Workers) \in Nat
        /\ Cardinality(Telling(r) \ {w}) <= Cardinality(Telling(r)) /\ Cardinality(Telling(r) \ {w}) \in Nat
    <3>1. Telling(r) \ {w} \subseteq Telling(r) /\ Telling(r) \ {w} \subseteq Workers
      BY <2>1
    <3> QED BY <2>1, <3>1, SmallerTelling
  <2>3. IsFiniteSet(NotifiedFor(r)) /\ Cardinality(NotifiedFor(r)) \in Nat
    BY FS_CardinalityType DEF FewTold
  <2>4. CASE r = RefOf(w)
    <3>1. w \in Telling(r)
      BY <1>1, <2>4 DEF Telling, GoingToTell, Copied
    <3>2. Cardinality(Telling(r) \ {w}) = Cardinality(Telling(r)) - 1
      <4>1. IsFiniteSet(Telling(r))
        BY <2>1, FS_Subset, WorkersAssumption
      <4> QED BY <3>1, <4>1, FS_RemoveElement
    <3>3. /\ IsFiniteSet(NotifiedFor(r) \cup {<<t, s>>})
          /\ Cardinality(NotifiedFor(r) \cup {<<t, s>>}) <= Cardinality(NotifiedFor(r)) + 1
          /\ Cardinality(NotifiedFor(r) \cup {<<t, s>>}) \in Nat
      <4>1. Cardinality(NotifiedFor(r) \cup {<<t, s>>}) =
              IF <<t, s>> \in NotifiedFor(r) THEN Cardinality(NotifiedFor(r)) ELSE Cardinality(NotifiedFor(r)) + 1
        BY <2>3, FS_AddElement
      <4>2. IsFiniteSet(NotifiedFor(r) \cup {<<t, s>>})
        BY <2>3, FS_AddElement
      <4> QED BY <2>3, <4>1, <4>2
    <3>4. Cardinality(NotifiedFor(r)) + Cardinality(Telling(r)) <= Cardinality(Workers)
      BY DEF FewTold
    <3>5. NotifiedFor(r)' = NotifiedFor(r) \cup {<<t, s>>}
      BY <1>5, <2>4
    <3> QED BY <2>2, <2>3, <3>2, <3>3, <3>4, <3>5
  <2>5. CASE r # RefOf(w)
    <3>1. NotifiedFor(r)' = NotifiedFor(r)
      BY <1>5, <2>5
    <3>2. Cardinality(NotifiedFor(r)) + Cardinality(Telling(r)) <= Cardinality(Workers)
      BY DEF FewTold
    <3> QED BY <2>2, <2>3, <3>1, <3>2
  <2> QED BY <2>4, <2>5
<1> QED BY <1>7, <1>8, <1>10

LEMMA NextOverlap ==
  BaseInv /\ OverlapInv /\ [SettlementAloneNext]_settlementAloneVars => OverlapInv'
<1> SUFFICES ASSUME BaseInv, OverlapInv, [SettlementAloneNext]_settlementAloneVars
             PROVE  OverlapInv'
  OBVIOUS
<1> DEFINE Undisturbed ==
      /\ \A v \in Workers : SameCopy(v) /\ DecidesFairly(v)
      /\ \A v \in Workers : tasks'[v].pc = "notify" => tasks[v].pc = "notify"
<1>0. /\ TypeInv /\ tasks \in [Workers -> Tasks] /\ bank \in [Transfers -> BankRows]
  BY DEF BaseInv, TypeInv, SettlementAloneTypeOK, SettlementTypeOK
<1>1. ASSUME Undisturbed, SameTransfers, links' = links, notices' = notices, faults' = faults
      PROVE  OverlapInv'
  BY <1>1, CalmOverlap, SameLinksLast
<1>2. ASSUME NEW t \in Transfers, MakeTransfer(t) PROVE OverlapInv'
  <2>1. Undisturbed
    BY <1>2 DEF MakeTransfer, SameCopy, DecidesFairly, Copied
  <2>2. SameTransfers
    BY <1>0, <1>2 DEF MakeTransfer, BankRows, SameTransfers
  <2> QED BY <1>1, <1>2, <2>1, <2>2 DEF MakeTransfer, storeVars
<1>3. ASSUME NEW w \in Workers, NEW t \in Transfers, DeliverWebhook(w, t) PROVE OverlapInv'
  <2>1. Undisturbed
    BY <1>0, <1>3 DEF DeliverWebhook, SameCopy, DecidesFairly, Copied, Idle
  <2> QED BY <1>1, <1>3, <2>1 DEF DeliverWebhook, storeVars, SameTransfers
<1>4. ASSUME NEW w \in Workers, StartReconcile(w) PROVE OverlapInv'
  <2>1. Undisturbed
    BY <1>0, <1>4 DEF StartReconcile, SameCopy, DecidesFairly, Copied, Idle
  <2> QED BY <1>1, <1>4, <2>1 DEF StartReconcile, storeVars, SameTransfers
<1>5. ASSUME NEW w \in Workers, NextTransaction(w) PROVE OverlapInv'
  <2>1. PICK t \in tasks[w].todo :
          tasks' = [tasks EXCEPT ![w] = [tasks[w] EXCEPT !.pc = "check", !.transfer = t,
                                                         !.todo = @ \ {t}]]
    BY <1>5 DEF NextTransaction
  <2>2. Undisturbed
    BY <1>0, <2>1 DEF SameCopy, DecidesFairly, Copied, Tasks
  <2> QED BY <1>1, <1>5, <2>2 DEF NextTransaction, storeVars, SameTransfers
<1>6. ASSUME NEW w \in Workers, tasks' = [tasks EXCEPT ![w] = Rest(@)] PROVE Undisturbed
  <2>1. \A v \in Workers : SameCopy(v)
    BY <1>0, <1>6, RestInterruptsNothing
  <2>2. /\ \A v \in Workers \ {w} : tasks'[v] = tasks[v]
        /\ tasks'[w].pc \in {"idle", "next"}
    BY <1>0, <1>6, RestType
  <2>3. \A v \in Workers : DecidesFairly(v)
    BY <2>2 DEF DecidesFairly, Copied
  <2>4. \A v \in Workers : tasks'[v].pc = "notify" => tasks[v].pc = "notify"
    BY <2>2
  <2> QED BY <2>1, <2>3, <2>4
<1>7. ASSUME NEW w \in Workers, NEW from, NEW to, Step(w, from, to), to # "notify", from # "record",
             to \in {"record", "settle", "reload", "mark", "notify"} =>
               from \in {"record", "settle", "reload", "mark", "notify"}
      PROVE  Undisturbed
  <2>1. (\A v \in Workers : SameCopy(v)) /\ tasks'[w].pc = to
    BY <1>0, <1>7, StepInterruptsNothing
  <2>2. tasks[w].pc = from /\ \A v \in Workers \ {w} : tasks'[v] = tasks[v]
    BY <1>0, <1>7 DEF Step
  <2>3. \A v \in Workers : DecidesFairly(v)
    BY <1>7, <2>2 DEF DecidesFairly
  <2>4. \A v \in Workers : tasks'[v].pc = "notify" => tasks[v].pc = "notify"
    BY <1>7, <2>1, <2>2
  <2> QED BY <2>1, <2>3, <2>4
<1>8. ASSUME NEW w \in Workers, SkipRecorded(w) PROVE OverlapInv'
  BY <1>0, <1>1, <1>6, <1>8, FinishKeepsTransfers DEF SkipRecorded, Finish, storeVars
<1>9. ASSUME NEW w \in Workers, CheckEvent(w) PROVE OverlapInv'
  <2>1. Undisturbed
    BY <1>7, <1>9 DEF CheckEvent
  <2> QED BY <1>1, <1>9, <2>1 DEF CheckEvent, storeVars, SameTransfers
<1>10. ASSUME NEW w \in Workers, RecordRejected(w) \/ InvoiceGone(w) PROVE OverlapInv'
  BY <1>1, <1>6, <1>10 DEF RecordRejected, InvoiceGone, Reject, storeVars, SameTransfers
<1>11. ASSUME NEW w \in Workers, RecordEvent(w) PROVE OverlapInv'
  <2>1. CASE AuditOnly(w)
    BY <1>0, <1>1, <1>6, <1>11, <2>1, FinishKeepsTransfers DEF RecordEvent, Finish
  <2>2. CASE ~AuditOnly(w)
    <3>1. Step(w, "record", "settle")
      BY <1>11, <2>2 DEF RecordEvent, Step
    <3>2. (\A v \in Workers : SameCopy(v)) /\ tasks'[w].pc = "settle"
      BY <1>0, <3>1, StepInterruptsNothing
    <3>3. \A v \in Workers \ {w} : tasks'[v] = tasks[v]
      BY <1>0, <3>1 DEF Step
    <3>4. Undisturbed
      BY <2>2, <3>2, <3>3 DEF DecidesFairly
    <3> QED BY <1>1, <1>11, <2>2, <3>4 DEF RecordEvent, SameTransfers
  <2> QED BY <2>1, <2>2
<1>12. ASSUME NEW w \in Workers, SettleInvoice(w) \/ ReloadInvoice(w) PROVE OverlapInv'
  <2>1. Undisturbed
    BY <1>7, <1>12 DEF SettleInvoice, ReloadInvoice
  <2> QED BY <1>1, <1>12, <2>1 DEF SettleInvoice, ReloadInvoice, storeVars, SameTransfers
<1>13. ASSUME NEW w \in Workers, MarkLinkPaid(w) PROVE OverlapInv'
  <2>1. /\ Step(w, "mark", "notify") /\ tasks[w].pc = "mark" /\ bank' = bank
        /\ notices' = notices /\ faults' = faults
    BY <1>13 DEF MarkLinkPaid, Step
  <2>2. \A v \in Workers : SameCopy(v) /\ DecidesFairly(v)
    <3>1. \A v \in Workers : SameCopy(v)
      BY <1>0, <2>1, StepInterruptsNothing
    <3>2. \A v \in Workers \ {w} : tasks'[v] = tasks[v]
      BY <1>0, <2>1 DEF Step
    <3> QED BY <2>1, <3>1, <3>2 DEF DecidesFairly
  <2>3. \A v \in Workers : tasks'[v].pc = "notify" =>
          tasks[v].pc = "notify" \/ (LinkExists(RefOf(v)) => links[RefOf(v)].status = "PAID")'
    <3>1. (LinkExists(RefOf(w)) => links[RefOf(w)].status = "PAID")'
      BY <1>13, MarkPays
    <3>2. \A v \in Workers \ {w} : tasks'[v] = tasks[v]
      BY <1>0, <2>1 DEF Step
    <3> QED BY <3>1, <3>2
  <2> QED BY <1>0, <1>13, <2>1, <2>2, <2>3, CalmOverlap, MarkLinksLast DEF SameTransfers
<1>14. ASSUME Fault PROVE OverlapInv'
  <2>1. faults' # 0
    BY <1>0, <1>14, StoreAssumption DEF Fault, TypeInv, SettlementAloneTypeOK, StoreTypeOK
  <2> QED BY <2>1 DEF OverlapInv
<1>15. ASSUME NEW i \in Invoices, InvoiceDeleted(i) PROVE OverlapInv'
  <2>1. tasks' = tasks /\ SameTransfers /\ notices' = notices /\ faults' = faults
    BY <1>15 DEF InvoiceDeleted, SameTransfers
  <2>2. Undisturbed
    BY <2>1 DEF SameCopy, DecidesFairly, Copied
  <2> QED BY <1>15, <2>1, <2>2, CalmOverlap, DeletionLinksLast
<1>16. CASE UNCHANGED settlementAloneVars
  <2>1. Undisturbed
    BY <1>16 DEF settlementAloneVars, SameCopy, DecidesFairly, Copied
  <2> QED BY <1>1, <1>16, <2>1 DEF settlementAloneVars, SameTransfers
<1> QED BY <1>2, <1>3, <1>4, <1>5, <1>8, <1>9, <1>10, <1>11, <1>12, <1>13, <1>14, <1>15, <1>16,
           ReadOverlap, NotifyOverlap
        DEF SettlementAloneNext, SettlementNext, Progress, MarkFails, StatementFails, WorkerLost

LEMMA InitOverlap == SettlementAloneInit => OverlapInv
<1> SUFFICES ASSUME SettlementAloneInit PROVE OverlapInv
  OBVIOUS
<1>1. \A r \in Refs : NotifiedFor(r) = {}
  BY DEF SettlementAloneInit, SettlementInit, NotifiedFor
<1>2. \A w \in Workers : tasks[w].pc = "idle"
  BY DEF SettlementAloneInit, SettlementInit, Idle
<1>3. ASSUME NEW r \in Refs
      PROVE  /\ IsFiniteSet(NotifiedFor(r))
             /\ Cardinality(NotifiedFor(r)) + Cardinality(Telling(r)) <= Cardinality(Workers)
  <2>1. IsFiniteSet(NotifiedFor(r)) /\ Cardinality(NotifiedFor(r)) = 0
    BY <1>1, FS_EmptySet
  <2> QED BY <2>1, SmallerTelling DEF Telling
<1> QED BY <1>1, <1>2, <1>3 DEF OverlapInv, ToldIsPaid, MarkedIsPaid, FewTold

\* While nothing fails a link is settled and notified at most once for each of
\* the requests that can overlap: the guard at line 249 looks at a copy of the
\* link, and every copy read after the first notification says PAID.
THEOREM SettledAtMostPerWorker == SettlementSafeSpec => []SettledOncePerWorker
<1>1. OverlapInv => SettledOncePerWorker
  <2> SUFFICES ASSUME OverlapInv, faults = 0, NEW r \in Refs
               PROVE  Cardinality(NotifiedFor(r)) <= Cardinality(Workers)
    BY DEF SettledOncePerWorker
  <2>1. /\ Cardinality(NotifiedFor(r)) \in Nat /\ Cardinality(Telling(r)) \in Nat
        /\ Cardinality(Workers) \in Nat
    <3>1. Telling(r) \subseteq Workers
      BY DEF Telling
    <3> QED BY <3>1, SmallerTelling, FS_CardinalityType DEF OverlapInv, FewTold
  <2> QED BY <2>1 DEF OverlapInv, FewTold
<1>2. BaseInv /\ OverlapInv /\ [SettlementAloneNext]_settlementAloneVars => OverlapInv'
  BY NextOverlap
<1> QED BY <1>1, <1>2, InitOverlap, RecoveryHolds, PTL DEF SettlementSafeSpec
=============================================================================
