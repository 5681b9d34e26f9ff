---------------------------- MODULE Billing_proof ----------------------------
(* What holds of payments, editing and issuing together, however many of each *)
(* run over however many invoices and links: types, one invoice per slot, and *)
(* what may take a settled link away.                                         *)
(*                                                                            *)
(* No payment is made up by the components together: a link is PAID, and an   *)
(* invoice names a provider, only if the money was recorded, whatever editors *)
(* and issuers do meanwhile.  They break the copies a worker decides on: an   *)
(* invoice may be deleted under it, and its reference given to another link.  *)
(* What saves it is that a link lives exactly as long as its invoice, whose   *)
(* id is never used again.                                                    *)
(*                                                                           *)
(* Then what links ask for: the QR sent asks for what its image shows, a link *)
(* is reused when sends do not overlap, and it keeps up with its invoice when *)
(* no statement fails; and what one editor alone does to a PAID invoice.      *)
EXTENDS Billing, PaymentSettlement_proof, FiniteSetTheorems

-----------------------------------------------------------------------------
(* Type correctness.                                                         *)

\* A handler that is about to write has an invoice to write to.
EditedInvoice ==
  \A e \in Editors : edits[e].pc \notin {"idle", "upsert"} => edits[e].invoice \in Invoices

EditingInv == EditingTypeOK /\ EditedInvoice

BillingInv == TypeInv /\ EditingInv /\ IssuingTypeOK

\* A bill may be written to a row.
LEMMA BillType ==
  ASSUME NEW a \in Amounts
  PROVE  Bill(a) \in InvoiceRows
BY StoreAssumption DEF Bill, InvoiceRows, InvoiceStatus, Methods

LEMMA EmptyTypes ==
  /\ NoInvoiceRow \in InvoiceRows /\ NoEdit \in Edits
  /\ NoIssue \in Issues /\ NoConfig \in Configs
  /\ \A s \in InvoiceStatus : [NoInvoiceRow EXCEPT !.status = s] \in InvoiceRows
<1>1. NoInvoiceRow \in InvoiceRows
      /\ \A s \in InvoiceStatus : [NoInvoiceRow EXCEPT !.status = s] \in InvoiceRows
  BY DEF NoInvoiceRow, InvoiceRows, InvoiceStatus, Methods
<1>2. NoEdit \in Edits
  BY <1>1 DEF NoEdit, Edits, EditStages
<1>3. NoIssue \in Issues /\ NoConfig \in Configs
  BY DEF NoIssue, Issues, IssueStages, Providers, NoConfig, Configs
<1> QED BY <1>1, <1>2, <1>3

LEMMA BillingInitType == Init => BillingInv
<1> SUFFICES ASSUME Init PROVE BillingInv
  OBVIOUS
<1>1. TypeInv
  BY InitType DEF Init, SettlementAloneInit
<1>2. EditingInv /\ IssuingTypeOK
  BY EmptyTypes DEF Init, EditingInit, IssuingInit, EditingInv, EditedInvoice, NoEdit, EditingTypeOK, IssuingTypeOK
<1> QED BY <1>1, <1>2 DEF BillingInv

\* A handler that goes on or gives up leaves well-typed handlers.
LEMMA GotoType ==
  ASSUME EditingInv, NEW e \in Editors, NEW pc \in EditStages,
         NEW i \in Invoices, NEW row \in InvoiceRows, Goto(e, pc, i, row)
  PROVE  EditingInv'
<1>1. [pc |-> pc, slot |-> 0, invoice |-> i, row |-> row] \in Edits
  BY DEF Edits
<1> QED BY <1>1 DEF Goto, EditingInv, EditedInvoice, EditingTypeOK

LEMMA EndType ==
  ASSUME EditingInv, NEW e \in Editors, End(e)
  PROVE  EditingInv'
BY EmptyTypes DEF End, NoEdit, EditingInv, EditedInvoice, EditingTypeOK

LEMMA UpsertType ==
  ASSUME EditingInv, NEW e \in Editors, NEW s, NEW a, Bill(a) \in InvoiceRows,
         Upsert(e, s, a)
  PROVE  EditingInv'
<1>1. CASE End(e)
  BY <1>1, EndType
<1>2. CASE \E i \in Invoices : Goto(e, "update", i, Bill(a)) \/ Goto(e, "insert", i, Bill(a))
  BY <1>2, GotoType DEF EditStages
<1> QED BY <1>1, <1>2 DEF Upsert, InSlot, FreshIds

\* Slots are numbers.
LEMMA SlotType == \A i \in Invoices : SlotOf[i] \in Nat
BY StoreAssumption

\* What an editing step may change besides its handler's state: nothing, one
\* row of invoices, links that become STALE, a deletion, or the fault counter.
LEMMA EditingTypes ==
  ASSUME BillingInv, EditingNext, UNCHANGED settleVars
  PROVE  StoreTypeOK' /\ EditingInv'
<1> USE DEF BillingInv, TypeInv, SettlementAloneTypeOK, EditingInv
<1>1. ASSUME NEW e \in Editors, NEW s \in Slots, NEW a \in Amounts, BeginCreate(e, s, a)
      PROVE  StoreTypeOK' /\ EditingInv'
  BY <1>1, BillType, UpsertType DEF BeginCreate, storeVars, StoreTypeOK
<1>2. ASSUME NEW e \in Editors, NEW i \in Invoices, NEW a \in Amounts, BeginRecalculate(e, i, a)
      PROVE  StoreTypeOK' /\ EditingInv'
  <2>1. [pc |-> "upsert", slot |-> SlotOf[i], invoice |-> None, row |-> Bill(a)] \in Edits
    BY BillType, SlotType DEF Edits, EditStages
  <2> QED BY <1>2, <2>1 DEF BeginRecalculate, storeVars, StoreTypeOK, EditingTypeOK, EditedInvoice
<1>3. ASSUME NEW e \in Editors, Recalculate(e) PROVE StoreTypeOK' /\ EditingInv'
  <2>1. edits[e].row \in InvoiceRows
    BY DEF EditingTypeOK, Edits
  <2>2. Bill(edits[e].row.total) \in InvoiceRows
    BY <2>1 DEF Bill, InvoiceRows, InvoiceStatus, Methods
  <2> QED BY <1>3, <2>2, UpsertType DEF Recalculate, storeVars, StoreTypeOK
<1>4. ASSUME NEW e \in Editors, NEW i \in Invoices, BeginImage(e, i)
      PROVE  StoreTypeOK' /\ EditingInv'
  <2>1. [invoices[i] EXCEPT !.status = "PENDING_VERIFICATION"] \in InvoiceRows
    BY DEF StoreTypeOK, InvoiceRows, InvoiceStatus
  <2> QED BY <1>4, <2>1, GotoType DEF BeginImage, Begin, storeVars, StoreTypeOK, EditStages
<1>5. ASSUME NEW e \in Editors, NEW i \in Invoices, BeginPay(e, i) \/ BeginUnpay(e, i) \/ BeginDelete(e, i)
      PROVE  StoreTypeOK' /\ EditingInv'
  BY <1>5, GotoType, EmptyTypes
     DEF BeginPay, BeginUnpay, BeginDelete, Begin, storeVars, StoreTypeOK, EditStages, InvoiceStatus
<1>6. ASSUME NEW e \in Editors, InsertInvoice(e) PROVE StoreTypeOK' /\ EditingInv'
  BY <1>6, EndType DEF InsertInvoice, InsertInvoiceRow, StoreTypeOK, EditingTypeOK, Edits
<1>7. ASSUME NEW e \in Editors, InsertDuplicate(e) \/ TargetGone(e) PROVE StoreTypeOK' /\ EditingInv'
  BY <1>7, EndType DEF InsertDuplicate, TargetGone, storeVars, StoreTypeOK
<1>8. ASSUME NEW e \in Editors, UpdateInvoice(e) PROVE StoreTypeOK' /\ EditingInv'
  <2>1. EditingInv'
    BY <1>8 DEF UpdateInvoice, EditedInvoice, EditingTypeOK, Edits, EditStages
  <2> QED BY <1>8, <2>1 DEF UpdateInvoice, UpdateInvoiceRow, StoreTypeOK, EditingTypeOK, Edits
<1>9. ASSUME NEW e \in Editors, MarkLinksStale(e) PROVE StoreTypeOK' /\ EditingInv'
  BY <1>9, EndType DEF MarkLinksStale, MarkStaleByAmount, StoreTypeOK, LinkRows, LinkStatus
<1>10. ASSUME NEW e \in Editors, ChangeStatus(e) PROVE StoreTypeOK' /\ EditingInv'
  BY <1>10, EndType
     DEF ChangeStatus, UpdateInvoiceStatus, StoreTypeOK, InvoiceRows, EditingTypeOK, Edits
<1>11. ASSUME NEW e \in Editors, DeleteInvoice(e) PROVE StoreTypeOK' /\ EditingInv'
  <2> DEFINE i == edits[e].invoice
  <2>1. [NoInvoiceRow EXCEPT !.status = "deleted"] \in InvoiceRows /\ NoLinkRow \in LinkRows
    BY DEF NoInvoiceRow, InvoiceRows, InvoiceStatus, Methods, NoLinkRow, LinkRows, LinkStatus
  <2>2. invoices' \in [Invoices -> InvoiceRows] /\ links' \in [Refs -> LinkRows]
    BY <1>11, <2>1 DEF DeleteInvoice, DeleteInvoiceRow, StoreTypeOK
  <2>3. \A x \in EventRows : [x EXCEPT !.invoice = None] \in EventRows
    BY DEF EventRows
  <2>4. events' \subseteq EventRows
    BY <1>11, <2>3 DEF DeleteInvoice, DeleteInvoiceRow, StoreTypeOK
  <2> QED BY <1>11, <2>2, <2>4, EndType DEF DeleteInvoice, StoreTypeOK
<1>12. ASSUME NEW e \in Editors, EditFails(e) PROVE StoreTypeOK' /\ EditingInv'
  BY <1>12, EndType, StoreAssumption DEF EditFails, Fault, StoreTypeOK
<1> QED BY <1>1, <1>2, <1>3, <1>4, <1>5, <1>6, <1>7, <1>8, <1>9, <1>10, <1>11, <1>12 DEF EditingNext

LEMMA GiveType ==
  ASSUME IssuingTypeOK, NEW g \in Issuers, Give(g)
  PROVE  issues' \in [Issuers -> Issues]
BY EmptyTypes DEF Give, IssuingTypeOK

LEMMA StageType ==
  ASSUME IssuingTypeOK, NEW g \in Issuers, NEW from, NEW to \in IssueStages, Stage(g, from, to)
  PROVE  issues' \in [Issuers -> Issues]
BY DEF Stage, IssuingTypeOK, Issues

\* The references built for a known provider and invoice are references.
LEMMA CodeType ==
  ASSUME NEW p \in Providers, NEW i \in Invoices, NEW n \in 0..MaxAttempts-1
  PROVE  CodeOf[p, i, n] \in Refs
BY IssuingAssumption, ZenonT(30)

\* An issuer that builds a code for a link has read an invoice.
IssuedInvoice == \A g \in Issuers : issues[g].pc # "idle" => issues[g].invoice \in Invoices

\* What an issuing step may change in the tables: nothing, or one link, or the
\* links of a provider, or its credentials, or the fault counter.
LEMMA IssuingTypes ==
  ASSUME BillingInv, IssuedInvoice, IssuingNext, UNCHANGED settleVars
  PROVE  StoreTypeOK' /\ IssuingTypeOK' /\ IssuedInvoice'
<1> DEFINE Goal == StoreTypeOK' /\ IssuingTypeOK' /\ IssuedInvoice'
<1> USE DEF BillingInv, TypeInv, SettlementAloneTypeOK
<1>a. issues \in [Issuers -> Issues] /\ configs \in [Configurers -> Configs]
  BY DEF IssuingTypeOK
<1>b. \A g \in Issuers : issues[g] \in Issues
  BY <1>a
<1>1. ASSUME NEW g \in Issuers, NEW i \in Invoices, BeginSend(g, i) PROVE Goal
  <2>1. [NoIssue EXCEPT !.pc = "resolve", !.invoice = i, !.total = invoices[i].total] \in Issues
    BY DEF NoIssue, Issues, IssueStages, Providers, StoreTypeOK, InvoiceRows
  <2>2. issues' \in [Issuers -> Issues]
    BY <1>1, <1>a, <2>1 DEF BeginSend
  <2>3. IssuedInvoice'
    BY <1>1, <1>a, <2>1 DEF BeginSend, IssuedInvoice, NoIssue
  <2> QED BY <1>1, <2>2, <2>3 DEF BeginSend, storeVars, StoreTypeOK, IssuingTypeOK
<1>0. ASSUME NEW g \in Issuers, NEW x \in Issues, x.invoice = issues[g].invoice,
             issues[g].pc # "idle", issues' = [issues EXCEPT ![g] = x]
      PROVE  issues' \in [Issuers -> Issues] /\ IssuedInvoice'
  BY <1>0, <1>a DEF IssuedInvoice
<1>2. ASSUME NEW g \in Issuers, ResolveProvider(g) PROVE Goal
  <2>1. PICK p \in Providers :
          issues' = [issues EXCEPT ![g] = [issues[g] EXCEPT !.pc = "credentials", !.provider = p]]
    BY <1>2 DEF ResolveProvider
  <2>2. [issues[g] EXCEPT !.pc = "credentials", !.provider = p] \in Issues
        /\ [issues[g] EXCEPT !.pc = "credentials", !.provider = p].invoice = issues[g].invoice
    BY <1>b DEF Issues, IssueStages
  <2>3. issues[g].pc # "idle"
    BY <1>2 DEF ResolveProvider
  <2>4. issues' \in [Issuers -> Issues] /\ IssuedInvoice'
    BY <1>0, <2>1, <2>2, <2>3
  <2> QED BY <1>2, <2>4 DEF ResolveProvider, storeVars, StoreTypeOK, IssuingTypeOK
<1>3. ASSUME NEW g \in Issuers, ReadCredentials(g) PROVE Goal
  BY <1>3, <1>a, <1>b, ZenonT(30) DEF ReadCredentials, storeVars, StoreTypeOK, IssuingTypeOK, IssuedInvoice, Issues, IssueStages
<1>4. ASSUME NEW g \in Issuers, Give(g) PROVE issues' \in [Issuers -> Issues] /\ IssuedInvoice'
  BY <1>4, <1>a, GiveType DEF Give, IssuedInvoice, NoIssue
<1>5. ASSUME NEW g \in Issuers,
             NoCredentials(g) \/ CodesExhausted(g) \/ InsertRejected(g) \/ SendQR(g)
      PROVE  Goal
  BY <1>4, <1>5 DEF NoCredentials, CodesExhausted, InsertRejected, SendQR, storeVars, StoreTypeOK, IssuingTypeOK
<1>6. ASSUME NEW g \in Issuers, issues[g].pc # "idle", NEW r \in Refs, NEW to \in IssueStages,
             issues' = [issues EXCEPT ![g] = [issues[g] EXCEPT !.pc = to, !.ref = r]]
      PROVE  issues' \in [Issuers -> Issues] /\ IssuedInvoice'
  <2>1. [issues[g] EXCEPT !.pc = to, !.ref = r] \in Issues
        /\ [issues[g] EXCEPT !.pc = to, !.ref = r].invoice = issues[g].invoice
    BY <1>b DEF Issues
  <2> QED BY <1>0, <1>6, <2>1
<1>7. ASSUME NEW g \in Issuers, ReuseLink(g) \/ RefuseLink(g) PROVE Goal
  <2>1. PICK r \in Refs, to \in {"sent", "stale"} :
          issues' = [issues EXCEPT ![g] = [issues[g] EXCEPT !.pc = to, !.ref = r]]
    BY <1>7 DEF ReuseLink, RefuseLink, LatestActive, ActiveLinks, LinksOf
  <2>2. issues[g].pc # "idle" /\ to \in IssueStages
    BY <1>7 DEF ReuseLink, RefuseLink, IssueStages
  <2>3. issues' \in [Issuers -> Issues] /\ IssuedInvoice'
    BY <1>6, <2>1, <2>2
  <2> QED BY <1>7, <2>3 DEF ReuseLink, RefuseLink, storeVars, StoreTypeOK, IssuingTypeOK
<1>8. ASSUME NEW g \in Issuers, NEW from \in IssueStages \ {"idle"}, NEW to \in IssueStages, Stage(g, from, to)
      PROVE  issues' \in [Issuers -> Issues] /\ IssuedInvoice'
  BY <1>8, <1>a, <1>b, StageType DEF Stage, IssuedInvoice, Issues
<1>9. ASSUME NEW g \in Issuers, NoActiveLink(g) PROVE Goal
  BY <1>8, <1>9 DEF NoActiveLink, storeVars, StoreTypeOK, IssuingTypeOK, IssueStages
<1>10. ASSUME NEW g \in Issuers, MarkLinkStale(g) PROVE Goal
  <2>1. links' \in [Refs -> LinkRows]
    BY <1>10 DEF MarkLinkStale, UpdatePaymentLinkStatus, StoreTypeOK, LinkRows, LinkStatus
  <2> QED BY <1>8, <1>10, <2>1 DEF MarkLinkStale, StoreTypeOK, IssuingTypeOK, IssueStages
<1>11. ASSUME NEW g \in Issuers, GenerateCode(g) PROVE Goal
  <2>1. issues[g].provider \in Providers /\ issues[g].invoice \in Invoices
    BY <1>11, <1>b DEF GenerateCode, IssuedInvoice, Issues
  <2> DEFINE code(n) == CodeOf[issues[g].provider, issues[g].invoice, n]
  <2>2. PICK n \in 0..MaxAttempts-1 :
          issues' = [issues EXCEPT ![g] = [issues[g] EXCEPT !.pc = "insert", !.ref = code(n)]]
    BY <1>11 DEF GenerateCode, FreeAttempts
  <2>3. code(n) \in Refs
    BY <2>1, CodeType, ZenonT(30)
  <2> HIDE DEF code
  <2>4. issues' \in [Issuers -> Issues] /\ IssuedInvoice'
    BY <1>6, <1>11, <2>2, <2>3 DEF GenerateCode, IssueStages
  <2> QED BY <1>11, <2>4 DEF GenerateCode, storeVars, StoreTypeOK, IssuingTypeOK
<1>12. ASSUME NEW g \in Issuers, InsertLink(g) PROVE Goal
  <2>1. issues[g].total \in Nat /\ issues[g].account \in Nat /\ issues[g].invoice \in Invoices
    BY <1>12, <1>b DEF InsertLink, Stage, IssuedInvoice, Issues
  <2>2. Cardinality(LinksOf(issues[g].invoice)) \in Nat
    BY StoreAssumption, FS_Subset, FS_CardinalityType DEF LinksOf
  <2> DEFINE row == [status |-> "ACTIVE", invoice |-> issues[g].invoice, amount |-> issues[g].total,
                     account |-> issues[g].account,
                     created |-> 1 + Cardinality(LinksOf(issues[g].invoice))]
  <2>3. row \in LinkRows
    BY <2>1, <2>2 DEF LinkRows, LinkStatus
  <2>4. links' \in [Refs -> LinkRows]
    <3>1. links' = [links EXCEPT ![issues[g].ref] = row]
      BY <1>12 DEF InsertLink, InsertLinkRow
    <3> HIDE DEF row
    <3> QED BY <2>3, <3>1 DEF StoreTypeOK
  <2> QED BY <1>8, <1>12, <2>4 DEF InsertLink, StoreTypeOK, IssuingTypeOK, IssueStages
<1>13. ASSUME NEW g \in Issuers, IssueFails(g) PROVE Goal
  BY <1>4, <1>13, StoreAssumption DEF IssueFails, Fault, StoreTypeOK, IssuingTypeOK
<1>14. ASSUME NEW c \in Configurers, NEW p \in Providers, NEW v \in Nat, Configure(c, p, v) PROVE Goal
  BY <1>14, <1>a DEF Configure, StoreTypeOK, IssuingTypeOK, Configs, IssuedInvoice
<1>15. ASSUME NEW c \in Configurers, NEW p \in Providers, SaveConfig(c, p) \/ DeleteConfig(c, p) PROVE Goal
  BY <1>14, <1>15, IssuingAssumption DEF SaveConfig, DeleteConfig
<1>16. ASSUME NEW c \in Configurers, MarkProviderStale(c) PROVE Goal
  BY <1>16, <1>a, EmptyTypes
     DEF MarkProviderStale, MarkStaleByProvider, StoreTypeOK, LinkRows, LinkStatus, IssuingTypeOK, IssuedInvoice
<1>17. ASSUME NEW c \in Configurers, ConfigFails(c) PROVE Goal
  BY <1>17, <1>a, EmptyTypes, StoreAssumption DEF ConfigFails, Fault, StoreTypeOK, IssuingTypeOK, IssuedInvoice
<1> QED BY <1>1, <1>2, <1>3, <1>5, <1>7, <1>9, <1>10, <1>11, <1>12, <1>13, <1>15, <1>16, <1>17 DEF IssuingNext

\* An issuer has read an invoice, whatever the other components do.
BillingTypeInv == BillingInv /\ IssuedInvoice

LEMMA BillingNextType == BillingTypeInv /\ [Next]_vars => BillingTypeInv'
<1> SUFFICES ASSUME BillingTypeInv, [Next]_vars PROVE BillingTypeInv'
  OBVIOUS
<1> USE DEF BillingTypeInv, BillingInv
<1>1. CASE Settlement
  <2>1. TypeInv'
    BY <1>1, NextType DEF Settlement
  <2> QED BY <1>1, <2>1
          DEF Settlement, editVars, issueVars, EditingInv, EditedInvoice, EditingTypeOK, IssuingTypeOK, IssuedInvoice
<1>2. CASE Editing
  <2>1. StoreTypeOK' /\ EditingInv'
    BY <1>2, EditingTypes DEF Editing
  <2>2. TypeInv'
    BY <1>2, <2>1
       DEF Editing, settleVars, TypeInv, SettlementAloneTypeOK, SettlementTypeOK, TasksHaveTransfers
  <2> QED BY <1>2, <2>1, <2>2 DEF Editing, issueVars, IssuingTypeOK, IssuedInvoice
<1>3. CASE Issuing
  <2>1. StoreTypeOK' /\ IssuingTypeOK' /\ IssuedInvoice'
    BY <1>3, IssuingTypes DEF Issuing
  <2>2. TypeInv'
    BY <1>3, <2>1
       DEF Issuing, settleVars, TypeInv, SettlementAloneTypeOK, SettlementTypeOK, TasksHaveTransfers
  <2> QED BY <1>3, <2>1, <2>2 DEF Issuing, editVars, EditingInv, EditedInvoice, EditingTypeOK
<1>4. CASE Restart
  <2>1. Idle \in Tasks /\ Idle.pc = "idle"
    BY DEF Idle, NoLinkRow, LinkRows, LinkStatus, Tasks, Stages, Sources
  <2>2. StoreTypeOK'
    BY <1>4, StoreAssumption DEF Restart, Fault, TypeInv, SettlementAloneTypeOK, StoreTypeOK
  <2>3. TypeInv'
    BY <1>4, <2>1, <2>2 DEF Restart, TypeInv, SettlementAloneTypeOK, SettlementTypeOK, TasksHaveTransfers
  <2> QED BY <1>4, <2>3, EmptyTypes DEF Restart, EditingInv, EditedInvoice, NoEdit, EditingTypeOK, IssuingTypeOK, IssuedInvoice, NoIssue
<1>5. CASE UNCHANGED vars
  BY <1>5 DEF vars, TypeInv, SettlementAloneTypeOK, StoreTypeOK, SettlementTypeOK, TasksHaveTransfers,
              EditingInv, EditedInvoice, EditingTypeOK, IssuingTypeOK, IssuedInvoice
<1> QED BY <1>1, <1>2, <1>3, <1>4, <1>5 DEF Next

LEMMA BillingStarts == Init => BillingTypeInv
BY BillingInitType DEF Init, IssuingInit, NoIssue, BillingTypeInv, IssuedInvoice

\* Tables, requests, handlers, issuers and configurers hold values of their types,
\* however they interleave and whatever is lost with a restart.
THEOREM BillingTypes == Spec => []TypeOK
<1>1. Spec => []BillingTypeInv
  BY BillingStarts, BillingNextType, PTL DEF Spec
<1>2. BillingTypeInv => TypeOK
  BY DEF BillingTypeInv, BillingInv, EditingInv, TypeInv, SettlementAloneTypeOK, TypeOK
<1> QED BY <1>1, <1>2, PTL

-----------------------------------------------------------------------------
(* One invoice per slot.  Only the INSERT makes a row appear, and only where  *)
(* the unique constraint finds none; every other write is to a row that is    *)
(* there, or takes one away.                                                  *)

\* What any step does to the invoices.
NoneAppears == \A i \in Invoices : InvoiceExists(i)' => InvoiceExists(i)
OneAppears ==
  \E i \in Invoices : /\ InSlot(SlotOf[i]) = {}
                      /\ \A j \in Invoices \ {i} : InvoiceExists(j)' => InvoiceExists(j)

\* A write to a row that is there lets none appear.
LEMMA WrittenInPlace ==
  ASSUME NEW i, NEW row, invoices \in [Invoices -> InvoiceRows],
         InvoiceExists(i), invoices' = [invoices EXCEPT ![i] = row]
  PROVE  NoneAppears
BY DEF NoneAppears, InvoiceExists

LEMMA Appearing ==
  ASSUME BillingTypeInv, [Next]_vars
  PROVE  NoneAppears \/ OneAppears
<1>0. /\ invoices \in [Invoices -> InvoiceRows]
      /\ edits \in [Editors -> Edits]
  BY DEF BillingTypeInv, BillingInv, TypeInv, SettlementAloneTypeOK, StoreTypeOK, EditingInv, EditingTypeOK
<1>1. ASSUME invoices' = invoices PROVE NoneAppears
  BY <1>1 DEF NoneAppears, InvoiceExists
<1>2. ASSUME NEW w \in Workers, SettleInvoice(w) PROVE NoneAppears
  <2>1. invoices' = [invoices EXCEPT ![InvoiceOf(w)] =
                       [invoices[InvoiceOf(w)] EXCEPT !.status = "PAID", !.method = ProviderOf[RefOf(w)]]]
        /\ InvoiceExists(InvoiceOf(w))
    BY <1>2 DEF SettleInvoice, SystemUpdateInvoiceStatusAndMethod
  <2> QED BY <1>0, <2>1, WrittenInPlace
<1>3. CASE Settlement
  <2>1. (\E w \in Workers : SettleInvoice(w)) \/ invoices' = invoices
    BY <1>3 DEF Settlement, SettlementNext, Progress, MakeTransfer, DeliverWebhook, StartReconcile,
       NextTransaction, SkipRecorded, CheckEvent, ReadLink, RecordEvent, RecordRejected, ReloadInvoice,
       InvoiceGone, MarkLinkPaid, Notify, MarkFails, StatementFails, WorkerLost, storeVars
  <2> QED BY <1>1, <1>2, <2>1
<1>4. ASSUME NEW e \in Editors, InsertInvoice(e) PROVE NoneAppears \/ OneAppears
  <2> DEFINE i == edits[e].invoice
  <2>1. invoices' = [invoices EXCEPT ![i] = edits[e].row] /\ InSlot(SlotOf[i]) = {}
    BY <1>4 DEF InsertInvoice, InsertInvoiceRow
  <2>2. CASE i \in Invoices
    BY <1>0, <2>1, <2>2 DEF OneAppears, InvoiceExists
  <2>3. CASE i \notin Invoices
    BY <1>0, <2>1, <2>3 DEF NoneAppears, InvoiceExists
  <2> QED BY <2>2, <2>3
<1>5. ASSUME NEW e \in Editors, UpdateInvoice(e) \/ ChangeStatus(e) \/ DeleteInvoice(e)
      PROVE  NoneAppears
  <2>1. InvoiceExists(edits[e].invoice)
        /\ \E row : invoices' = [invoices EXCEPT ![edits[e].invoice] = row]
    BY <1>5 DEF UpdateInvoice, ChangeStatus, DeleteInvoice, UpdateInvoiceRow, UpdateInvoiceStatus,
                DeleteInvoiceRow
  <2> QED BY <1>0, <2>1, WrittenInPlace
<1>6. CASE Editing
  <2>1. \/ \E e \in Editors : InsertInvoice(e)
        \/ \E e \in Editors : UpdateInvoice(e) \/ ChangeStatus(e) \/ DeleteInvoice(e)
        \/ invoices' = invoices
    BY <1>6 DEF Editing, EditingNext, BeginCreate, BeginRecalculate, Recalculate, BeginImage, BeginPay,
       BeginUnpay, BeginDelete, Begin, InsertDuplicate, MarkLinksStale, TargetGone, EditFails, storeVars
  <2> QED BY <1>1, <1>4, <1>5, <2>1
<1>7. CASE Issuing
  <2>1. invoices' = invoices
    BY <1>7 DEF Issuing, IssuingNext, BeginSend, ResolveProvider, ReadCredentials, NoCredentials,
       ReuseLink, RefuseLink, NoActiveLink, MarkLinkStale, GenerateCode, CodesExhausted, InsertLink,
       InsertRejected, SendQR, IssueFails, SaveConfig, DeleteConfig, Configure, MarkProviderStale,
       ConfigFails, storeVars
  <2> QED BY <1>1, <2>1
<1>8. CASE Restart \/ UNCHANGED vars
  BY <1>1, <1>8 DEF Restart, vars
<1> QED BY <1>3, <1>6, <1>7, <1>8 DEF Next

\* A room has one invoice per period for any number of requests (the unique
\* constraint uq_invoices_room_period behind CreateInvoice's INSERT).
THEOREM OnePerSlot == Spec => []OneInvoicePerSlot
<1>1. Init => OneInvoicePerSlot
  <2> SUFFICES ASSUME Init PROVE OneInvoicePerSlot
    OBVIOUS
  <2>1. PICK live \in SUBSET Invoices, total \in [Invoices -> Amounts] :
          /\ \A i, j \in live : SlotOf[i] = SlotOf[j] => i = j
          /\ invoices = SeededInvoices(live, total)
    BY DEF Init, SeededStore
  <2>2. \A i \in Invoices : InvoiceExists(i) => i \in live
    BY <2>1 DEF SeededInvoices, InvoiceExists, InvoiceStatus, NoInvoiceRow
  <2> QED BY <2>1, <2>2 DEF OneInvoicePerSlot
<1>2. BillingTypeInv /\ OneInvoicePerSlot /\ [Next]_vars => OneInvoicePerSlot'
  <2> SUFFICES ASSUME BillingTypeInv, OneInvoicePerSlot, [Next]_vars PROVE OneInvoicePerSlot'
    OBVIOUS
  <2>1. CASE NoneAppears
    BY <2>1 DEF NoneAppears, OneInvoicePerSlot
  <2>2. CASE OneAppears
    BY <2>2 DEF OneAppears, OneInvoicePerSlot, InSlot
  <2> QED BY <2>1, <2>2, Appearing
<1> QED BY <1>1, <1>2, BillingStarts, BillingNextType, PTL DEF Spec

-----------------------------------------------------------------------------
(* A settled link stays settled.                                              *)

\* A step that changes the status of links only where they are not PAID.
PaidLinksKept ==
  \A r \in Refs : links[r].status = "PAID" => links'[r].status = "PAID"

\* The property of one step.
PaidLinkStep ==
  \A r \in Refs : links[r].status = "PAID" =>
    \/ links'[r].status = "PAID"
    \/ invoices'[links[r].invoice].status = "deleted"
    \/ \E g \in Issuers : issues[g].pc = "stale" /\ issues[g].ref = r

LEMMA StoreKeepsPaid ==
  ASSUME BillingTypeInv, [Next]_vars
  PROVE  PaidLinkStep
<1>0. links \in [Refs -> LinkRows] /\ invoices \in [Invoices -> InvoiceRows]
  BY DEF BillingTypeInv, BillingInv, TypeInv, SettlementAloneTypeOK, StoreTypeOK
<1>1. ASSUME PaidLinksKept PROVE PaidLinkStep
  BY <1>1 DEF PaidLinksKept, PaidLinkStep
<1>2. ASSUME links' = links PROVE PaidLinkStep
  BY <1>2 DEF PaidLinkStep
<1>3. ASSUME NEW w \in Workers, MarkLinkPaid(w) PROVE PaidLinkStep
  BY <1>0, <1>1, <1>3 DEF MarkLinkPaid, UpdatePaymentLinkStatus, PaidLinksKept, LinkRows
<1>4. CASE Settlement
  <2>1. (\E w \in Workers : MarkLinkPaid(w)) \/ links' = links
    BY <1>4 DEF Settlement, SettlementNext, Progress, MakeTransfer, DeliverWebhook, StartReconcile,
       NextTransaction, SkipRecorded, CheckEvent, ReadLink, RecordEvent, RecordRejected, SettleInvoice,
       ReloadInvoice, InvoiceGone, Notify, MarkFails, StatementFails, WorkerLost, storeVars
  <2> QED BY <1>2, <1>3, <2>1
<1>5. ASSUME NEW e \in Editors, MarkLinksStale(e) PROVE PaidLinkStep
  BY <1>0, <1>1, <1>5 DEF MarkLinksStale, MarkStaleByAmount, PaidLinksKept
<1>6. ASSUME NEW e \in Editors, DeleteInvoice(e) PROVE PaidLinkStep
  <2> DEFINE i == edits[e].invoice
  <2>1. /\ invoices' = [invoices EXCEPT ![i] = [NoInvoiceRow EXCEPT !.status = "deleted"]]
        /\ links' = [r \in Refs |-> IF r \in LinksOf(i) THEN NoLinkRow ELSE links[r]]
        /\ InvoiceExists(i)
    BY <1>6 DEF DeleteInvoice, DeleteInvoiceRow
  <2>2. i \in Invoices
    BY <1>6 DEF DeleteInvoice, BillingTypeInv, BillingInv, EditingInv, EditedInvoice
  <2>3. invoices'[i].status = "deleted"
    BY <1>0, <2>1, <2>2 DEF NoInvoiceRow
  <2>4. \A r \in Refs : links'[r] = links[r] \/ links[r].invoice = i
    BY <1>0, <2>1 DEF LinksOf
  <2> QED BY <2>3, <2>4 DEF PaidLinkStep
<1>7. CASE Editing
  <2>1. \/ \E e \in Editors : MarkLinksStale(e)
        \/ \E e \in Editors : DeleteInvoice(e)
        \/ links' = links
    BY <1>7 DEF Editing, EditingNext, BeginCreate, BeginRecalculate, Recalculate, BeginImage, BeginPay,
       BeginUnpay, BeginDelete, Begin, InsertInvoice, InsertDuplicate, UpdateInvoice, ChangeStatus,
       TargetGone, EditFails, storeVars
  <2> QED BY <1>2, <1>5, <1>6, <2>1
<1>8. ASSUME NEW g \in Issuers, MarkLinkStale(g) PROVE PaidLinkStep
  BY <1>0, <1>8 DEF MarkLinkStale, Stage, UpdatePaymentLinkStatus, PaidLinkStep
<1>9. ASSUME NEW g \in Issuers, InsertLink(g) PROVE PaidLinkStep
  <2>1. PICK row : links' = [links EXCEPT ![issues[g].ref] = row]
    BY <1>9 DEF InsertLink, InsertLinkRow
  <2>2. ~LinkExists(issues[g].ref)
    BY <1>9 DEF InsertLink, LinkInsertable
  <2> QED BY <1>0, <1>1, <2>1, <2>2 DEF PaidLinksKept, LinkExists, LinkStatus
<1>10. ASSUME NEW c \in Configurers, MarkProviderStale(c) PROVE PaidLinkStep
  BY <1>0, <1>1, <1>10 DEF MarkProviderStale, MarkStaleByProvider, PaidLinksKept
<1>11. CASE Issuing
  <2>1. \/ \E g \in Issuers : MarkLinkStale(g) \/ InsertLink(g)
        \/ \E c \in Configurers : MarkProviderStale(c)
        \/ links' = links
    BY <1>11 DEF Issuing, IssuingNext, BeginSend, ResolveProvider, ReadCredentials, NoCredentials,
       ReuseLink, RefuseLink, NoActiveLink, GenerateCode, CodesExhausted, InsertRejected, SendQR,
       IssueFails, SaveConfig, DeleteConfig, Configure, ConfigFails, storeVars
  <2> QED BY <1>2, <1>8, <1>9, <1>10, <2>1
<1>12. CASE Restart \/ UNCHANGED vars
  BY <1>2, <1>12 DEF Restart, vars
<1> QED BY <1>4, <1>7, <1>11, <1>12 DEF Next

\* A settled link is unsettled only with its invoice's deletion, or by an issuer
\* that had read it before it was settled (CreatePaymentLinkForInvoice marks the
\* link it found STALE by its id, line 108, whatever its status is by then).
THEOREM PaidStaysPaid == Spec => PaidLinkStaysPaid
<1>1. BillingTypeInv /\ [Next]_vars => [PaidLinkStep]_vars
  BY StoreKeepsPaid
<1>2. PaidLinkStaysPaid <=> [][PaidLinkStep]_vars
  BY DEF PaidLinkStaysPaid, PaidLinkStep
<1> QED BY <1>1, <1>2, BillingStarts, BillingNextType, PTL DEF Spec


-----------------------------------------------------------------------------
(* The invariant.                                                            *)

Exists(i) == i \in Invoices /\ InvoiceExists(i)

\* The copy of a link whose invoice is there is true; an id once read was used.
CopyHolds(w) ==
  InvoiceOf(w) \in Invoices =>
    /\ invoices[InvoiceOf(w)].status # "none"
    /\ InvoiceExists(InvoiceOf(w)) => /\ LinkExists(RefOf(w))
                                      /\ links[RefOf(w)].invoice = InvoiceOf(w)
                                      /\ links[RefOf(w)].amount = tasks[w].link.amount
CopiesHold == \A w \in Workers : Copied(w) => CopyHolds(w)

\* What is being settled pays its copy in full, and an event says so.
PaymentHolds(w) ==
  /\ InvoiceOf(w) \in Invoices
  /\ AmountOf(w) >= tasks[w].link.amount
  /\ InvoiceExists(InvoiceOf(w)) => Evidence(InvoiceOf(w), RefOf(w), AmountOf(w))
PaymentsHold == \A w \in Workers : Handling(w) => PaymentHolds(w)

\* An event that pays a link of the invoice in full, through the provider.
MethodBacked(i, m) ==
  \E e \in events : e.invoice = i /\ ProviderOf[e.ref] = m /\ PaysInFull(e)

\* A row an editor holds names a provider only as its invoice may.
RowHolds(e) ==
  LET x == edits[e]
  IN /\ x.pc = "insert" => x.row.method = "none"
     /\ x.pc = "update" => invoices[x.invoice].status # "none"
     /\ x.pc \in {"update", "status"} => x.row.status \in InvoiceStatus
     /\ x.pc = "update" /\ x.row.method \in Providers /\ Exists(x.invoice) =>
          MethodBacked(x.invoice, x.row.method)
RowsHold == \A e \in Editors : RowHolds(e)

MoneyInv == ForeignKeys /\ CopiesHold /\ PaymentsHold /\ RowsHold /\ PaymentsBacked

-----------------------------------------------------------------------------
(* What survives a step.                                                     *)

\* The invoice is there after the step.
Remains(i) == i \in Invoices /\ invoices'[i].status \in InvoiceStatus

\* Ids are not reused; links and events live as long as their invoice.
TablesSurvive ==
  /\ \A i \in Invoices : invoices[i].status # "none" =>
       invoices'[i].status # "none" /\ (Remains(i) => InvoiceExists(i))
  /\ \A r \in Refs : LinkExists(r) /\ Remains(links[r].invoice) =>
       /\ LinkExists(r)' /\ links'[r].invoice = links[r].invoice
       /\ links'[r].amount = links[r].amount
  /\ \A e \in events : Remains(e.invoice) => e \in events'

LEMMA EventTypes == ASSUME BillingTypeInv PROVE \A e \in events : e \in EventRows /\ e.ref \in Refs
BY DEF BillingTypeInv, BillingInv, TypeInv, SettlementAloneTypeOK, StoreTypeOK, EventRows

\* What was recorded of an invoice still is, as long as the invoice remains.
LEMMA MoneySurvives ==
  ASSUME BillingTypeInv, TablesSurvive
  PROVE  /\ \A e \in events : PaysInFull(e) /\ Remains(e.invoice) => e \in events' /\ PaysInFull(e)'
         /\ \A i, r, a : Evidence(i, r, a) /\ Remains(i) => Evidence(i, r, a)'
         /\ \A i, m : MethodBacked(i, m) /\ Remains(i) => MethodBacked(i, m)'
<1>1. ASSUME NEW e \in events, PaysInFull(e), Remains(e.invoice)
      PROVE  e \in events' /\ PaysInFull(e)'
  <2>1. e.ref \in Refs /\ LinkExists(e.ref) /\ links[e.ref].invoice = e.invoice
    BY <1>1, EventTypes DEF PaysInFull
  <2> QED BY <1>1, <2>1 DEF TablesSurvive, PaysInFull
<1>2. \A i, r, a : Evidence(i, r, a) /\ Remains(i) => Evidence(i, r, a)'
  BY DEF Evidence, TablesSurvive
<1>3. \A i, m : MethodBacked(i, m) /\ Remains(i) => MethodBacked(i, m)'
  BY <1>1 DEF MethodBacked
<1> QED BY <1>1, <1>2, <1>3

\* A step that leaves w's copy as it is, and what it has decided on it.
KeepsPayment(w) ==
  Copied(w)' =>
    /\ Copied(w) /\ tasks'[w].transfer = tasks[w].transfer /\ tasks'[w].link = tasks[w].link
    /\ Handling(w)' => Handling(w)

LEMMA CopyKeepsPayment ==
  ASSUME \A w \in Workers : KeepsCopy(w)
  PROVE  \A w \in Workers : KeepsPayment(w)
BY DEF KeepsCopy, KeepsPayment

LEMMA CalmPayment ==
  ASSUME TypeInv, SameTransfers, NEW w \in Workers, KeepsPayment(w), Copied(w)'
  PROVE  /\ RefOf(w)' = RefOf(w) /\ AmountOf(w)' = AmountOf(w) /\ InvoiceOf(w)' = InvoiceOf(w)
         /\ tasks'[w].link = tasks[w].link /\ RefOf(w) \in Refs /\ Copied(w)
<1>1. Copied(w) /\ tasks'[w].transfer = tasks[w].transfer /\ tasks'[w].link = tasks[w].link
  BY DEF KeepsPayment
<1>2. tasks[w].transfer \in Transfers /\ RefOf(w) \in Refs
  BY <1>1, Working DEF Copied
<1> QED BY <1>1, <1>2 DEF SameTransfers, RefOf, AmountOf, InvoiceOf

\* A worker that keeps its copy keeps what is known of it.
LEMMA WorkersSurvive ==
  ASSUME BillingTypeInv, MoneyInv, TablesSurvive, SameTransfers, \A w \in Workers : KeepsPayment(w)
  PROVE  CopiesHold' /\ PaymentsHold'
<1> USE DEF BillingTypeInv, BillingInv
<1>1. ASSUME NEW w \in Workers, Copied(w)' PROVE CopyHolds(w)'
  <2>1. /\ RefOf(w)' = RefOf(w) /\ InvoiceOf(w)' = InvoiceOf(w)
        /\ tasks'[w].link = tasks[w].link /\ RefOf(w) \in Refs /\ Copied(w)
    BY <1>1, CalmPayment DEF KeepsPayment
  <2>2. CopyHolds(w)
    BY <2>1 DEF MoneyInv, CopiesHold
  <2>3. InvoiceOf(w) \in Invoices => invoices'[InvoiceOf(w)].status # "none"
    BY <2>2 DEF CopyHolds, TablesSurvive
  <2>4. InvoiceOf(w) \in Invoices /\ InvoiceExists(InvoiceOf(w))' => Remains(InvoiceOf(w))
    BY <2>1 DEF Remains, InvoiceExists
  <2>5. Remains(InvoiceOf(w)) => /\ LinkExists(RefOf(w))'
                                 /\ links'[RefOf(w)].invoice = InvoiceOf(w)
                                 /\ links'[RefOf(w)].amount = tasks[w].link.amount
    BY <2>1, <2>2 DEF CopyHolds, TablesSurvive, Remains
  <2> QED BY <2>1, <2>3, <2>4, <2>5 DEF CopyHolds, LinkExists
<1>2. ASSUME NEW w \in Workers, Handling(w)' PROVE PaymentHolds(w)'
  <2>1. Copied(w)'
    BY <1>2 DEF Handling, Copied
  <2>2. /\ RefOf(w)' = RefOf(w) /\ InvoiceOf(w)' = InvoiceOf(w) /\ AmountOf(w)' = AmountOf(w)
        /\ tasks'[w].link = tasks[w].link /\ Handling(w)
    BY <1>2, <2>1, CalmPayment DEF KeepsPayment
  <2>3. PaymentHolds(w)
    BY <2>2 DEF MoneyInv, PaymentsHold
  <2>4. InvoiceExists(InvoiceOf(w))' => Remains(InvoiceOf(w))
    BY <2>2, <2>3 DEF Remains, InvoiceExists, PaymentHolds
  <2>5. Remains(InvoiceOf(w)) => InvoiceExists(InvoiceOf(w))
    <3>1. Copied(w)
      BY <2>2 DEF Handling, Copied
    <3> QED BY <2>3, <3>1 DEF MoneyInv, CopiesHold, CopyHolds, PaymentHolds, TablesSurvive
  <2>6. Remains(InvoiceOf(w)) =>
          \E e \in events' : e.ref = RefOf(w) /\ e.invoice = InvoiceOf(w) /\ e.amount = AmountOf(w)
    BY <2>3, <2>5, MoneySurvives DEF PaymentHolds, Evidence
  <2> QED BY <2>2, <2>3, <2>4, <2>6 DEF PaymentHolds, Evidence
<1> QED BY <1>1, <1>2 DEF CopiesHold, PaymentsHold

\* So does an editor that keeps its row, or holds none it will write.
KeepsRow(e) == edits'[e] = edits[e] \/ edits'[e].pc \notin {"insert", "update", "status"}

LEMMA EditorSurvives ==
  ASSUME BillingTypeInv, MoneyInv, TablesSurvive, NEW e \in Editors, KeepsRow(e)
  PROVE  RowHolds(e)'
<1>1. CASE edits'[e].pc \notin {"insert", "update", "status"}
  BY <1>1 DEF RowHolds
<1>2. CASE edits'[e] = edits[e]
  <2> DEFINE x == edits[e]
  <2>1. RowHolds(e)
    BY DEF MoneyInv, RowsHold
  <2>2. x.pc = "update" => x.invoice \in Invoices /\ invoices'[x.invoice].status # "none"
    <3>1. x.pc = "update" => x.invoice \in Invoices
      BY DEF BillingTypeInv, BillingInv, EditingInv, EditedInvoice
    <3> QED BY <2>1, <3>1 DEF RowHolds, TablesSurvive
  <2>3. ASSUME x.pc = "update", x.row.method \in Providers, Exists(x.invoice)'
        PROVE  MethodBacked(x.invoice, x.row.method)'
    <3>1. Remains(x.invoice)
      BY <1>2, <2>3 DEF Exists, InvoiceExists, Remains
    <3>2. Exists(x.invoice)
      BY <2>1, <2>3, <3>1 DEF RowHolds, TablesSurvive, Exists, Remains
    <3>3. \E d \in events' : d.invoice = x.invoice /\ ProviderOf[d.ref] = x.row.method /\ PaysInFull(d)'
      BY <2>1, <2>3, <3>1, <3>2, MoneySurvives DEF RowHolds, MethodBacked
    <3> QED BY <1>2, <3>3 DEF MethodBacked
  <2> QED BY <1>2, <2>1, <2>2, <2>3 DEF RowHolds
<1> QED BY <1>1, <1>2 DEF KeepsRow

LEMMA EditorsSurvive ==
  ASSUME BillingTypeInv, MoneyInv, TablesSurvive, \A e \in Editors : KeepsRow(e)
  PROVE  RowsHold'
BY EditorSurvives DEF RowsHold

-----------------------------------------------------------------------------
(* Steps that leave the invoices alone, and every link but for its status.    *)

TablesCalm ==
  /\ invoices' = invoices
  /\ events \subseteq events'
  /\ \A r \in Refs : /\ LinkExists(r)' <=> LinkExists(r)
                     /\ links'[r].invoice = links[r].invoice
                     /\ links'[r].amount = links[r].amount
                     /\ links'[r].status = "PAID" => links[r].status = "PAID"

LEMMA CalmTables ==
  ASSUME BillingTypeInv, MoneyInv, TablesCalm
  PROVE  TablesSurvive /\ ForeignKeys' /\ PaymentsBacked'
<1>1. TablesSurvive
  BY DEF TablesCalm, TablesSurvive, Remains, InvoiceExists
<1>2. ForeignKeys'
  BY DEF MoneyInv, ForeignKeys, TablesCalm, InvoiceExists
<1>3. \A e \in events : PaysInFull(e) => e \in events' /\ PaysInFull(e)'
  BY EventTypes DEF TablesCalm, PaysInFull
<1>4. PaidLinkIsBacked'
  BY <1>3 DEF MoneyInv, PaymentsBacked, PaidLinkIsBacked, TablesCalm
<1>5. ProviderMethodIsBacked'
  BY <1>3 DEF MoneyInv, PaymentsBacked, ProviderMethodIsBacked, TablesCalm
<1> QED BY <1>1, <1>2, <1>4, <1>5 DEF PaymentsBacked

\* Such a step keeps the invariant if it keeps the copies and rows as well.
LEMMA CalmMoney ==
  ASSUME BillingTypeInv, MoneyInv, TablesCalm, SameTransfers,
         \A w \in Workers : KeepsPayment(w), \A e \in Editors : KeepsRow(e)
  PROVE  MoneyInv'
BY CalmTables, WorkersSurvive, EditorsSurvive DEF MoneyInv

\* Nothing at all happens to the tables.
LEMMA SameTables ==
  ASSUME invoices' = invoices, links' = links, events' = events
  PROVE  TablesCalm
BY DEF TablesCalm, LinkExists

LEMMA SameWorkers ==
  ASSUME tasks' = tasks, bank' = bank
  PROVE  SameTransfers /\ \A w \in Workers : KeepsPayment(w)
BY DEF SameTransfers, KeepsPayment, Copied, Handling

LEMMA SameEditors == ASSUME edits' = edits PROVE \A e \in Editors : KeepsRow(e)
BY DEF KeepsRow

-----------------------------------------------------------------------------
(* Settlement.                                                                *)

\* The copy is made of the link as it is.
LEMMA ReadMoney ==
  ASSUME BillingTypeInv, MoneyInv, NEW w \in Workers, ReadLink(w), edits' = edits
  PROVE  MoneyInv'
<1> USE DEF BillingTypeInv, BillingInv
<1>1. /\ tasks \in [Workers -> Tasks] /\ bank' = bank /\ links' = links /\ invoices' = invoices
      /\ events' = events /\ tasks[w].pc = "link"
      /\ tasks' = [tasks EXCEPT ![w] = [tasks[w] EXCEPT !.pc = "record", !.link = links[RefOf(w)]]]
  BY DEF ReadLink, storeVars, TypeInv, SettlementAloneTypeOK, SettlementTypeOK
<1>2. RefOf(w) \in Refs /\ tasks[w] \in Tasks
  BY <1>1, Working
<1>3. /\ tasks'[w].pc = "record" /\ tasks'[w].link = links[RefOf(w)] /\ RefOf(w)' = RefOf(w)
      /\ InvoiceOf(w)' = links[RefOf(w)].invoice
      /\ \A v \in Workers \ {w} : tasks'[v] = tasks[v]
  BY <1>1, <1>2 DEF Tasks, RefOf, InvoiceOf
<1>4. ForeignKeys' /\ PaymentsBacked' /\ TablesSurvive
  BY <1>1, SameTables, CalmTables
<1>5. RowsHold'
  BY <1>4, SameEditors, EditorsSurvive
<1>6. ASSUME NEW v \in Workers, Copied(v)' PROVE CopyHolds(v)'
  <2>1. CASE v = w
    <3>1. links[RefOf(w)].invoice \in Invoices =>
            LinkExists(RefOf(w)) /\ InvoiceExists(links[RefOf(w)].invoice)
      BY <1>2, StoreAssumption DEF MoneyInv, ForeignKeys
    <3>2. links[RefOf(w)].invoice \in Invoices => invoices[links[RefOf(w)].invoice].status # "none"
      BY <3>1 DEF InvoiceExists, InvoiceStatus
    <3> QED BY <1>1, <1>3, <2>1, <3>1, <3>2 DEF CopyHolds, LinkExists
  <2>2. CASE v # w
    <3>1. Copied(v) /\ CopyHolds(v)
      BY <1>3, <1>6, <2>2 DEF Copied, MoneyInv, CopiesHold
    <3> QED BY <1>1, <1>3, <2>2, <3>1 DEF CopyHolds, RefOf, InvoiceOf, LinkExists, InvoiceExists
  <2> QED BY <2>1, <2>2
<1>7. ASSUME NEW v \in Workers, Handling(v)' PROVE PaymentHolds(v)'
  <2>1. v # w
    BY <1>3, <1>7 DEF Handling
  <2>2. Handling(v) /\ PaymentHolds(v)
    BY <1>3, <1>7, <2>1 DEF Handling, MoneyInv, PaymentsHold
  <2> QED BY <1>1, <1>3, <2>1, <2>2
          DEF PaymentHolds, InvoiceOf, AmountOf, RefOf, InvoiceExists, Evidence
<1> QED BY <1>4, <1>5, <1>6, <1>7 DEF MoneyInv, CopiesHold, PaymentsHold

\* The event is the evidence for what is settled after it.
LEMMA RecordMoney ==
  ASSUME BillingTypeInv, MoneyInv, NEW w \in Workers, RecordEvent(w), edits' = edits
  PROVE  MoneyInv'
<1> USE DEF BillingTypeInv, BillingInv
<1> DEFINE new == [ref |-> RefOf(w), transfer |-> tasks[w].transfer, source |-> tasks[w].source,
                   invoice |-> InvoiceOf(w), amount |-> AmountOf(w)]
<1>1. /\ invoices' = invoices /\ links' = links /\ events' = events \cup {new}
      /\ tasks \in [Workers -> Tasks] /\ tasks[w].pc = "record"
  BY DEF RecordEvent, InsertEventRow, TypeInv, SettlementAloneTypeOK, SettlementTypeOK
<1>2. TablesCalm
  BY <1>1 DEF TablesCalm, LinkExists
<1>3. CASE AuditOnly(w)
  <2>1. Finish(w)
    BY <1>3 DEF RecordEvent
  <2> QED BY <1>2, <2>1, CalmMoney, RestKeepsCopies, CopyKeepsPayment, FinishKeepsTransfers, SameEditors DEF Finish
<1>4. CASE ~AuditOnly(w)
  <2>1. bank' = bank /\ tasks' = [tasks EXCEPT ![w] = [tasks[w] EXCEPT !.pc = "settle"]]
    BY <1>4 DEF RecordEvent
  <2>2. tasks[w] \in Tasks /\ AmountOf(w) \in Nat /\ tasks[w].link \in LinkRows
    BY <1>1, Working
  <2>3. InvoiceOf(w) \in Invoices /\ AmountOf(w) >= tasks[w].link.amount
    BY <1>4, <2>2 DEF AuditOnly, InvoiceOf, LinkRows
  <2>4. /\ tasks'[w].pc = "settle" /\ tasks'[w].link = tasks[w].link
        /\ tasks'[w].transfer = tasks[w].transfer
        /\ \A v \in Workers \ {w} : tasks'[v] = tasks[v]
    BY <1>1, <2>1, <2>2 DEF Tasks
  <2>5. \A v \in Workers : /\ Copied(v)' => Copied(v)
                           /\ RefOf(v)' = RefOf(v) /\ InvoiceOf(v)' = InvoiceOf(v)
                           /\ AmountOf(v)' = AmountOf(v) /\ tasks'[v].link = tasks[v].link
    BY <1>1, <2>1, <2>4 DEF Copied, RefOf, InvoiceOf, AmountOf
  <2>6. ForeignKeys' /\ PaymentsBacked' /\ TablesSurvive
    BY <1>2, CalmTables
  <2>7. RowsHold'
    BY <2>6, SameEditors, EditorsSurvive
  <2>8. ASSUME NEW v \in Workers, Copied(v)' PROVE CopyHolds(v)'
    <3>1. CopyHolds(v)
      BY <2>5, <2>8 DEF MoneyInv, CopiesHold
    <3> QED BY <1>1, <2>5, <3>1 DEF CopyHolds, LinkExists, InvoiceExists
  <2>9. ASSUME NEW v \in Workers, Handling(v)' PROVE PaymentHolds(v)'
    <3>1. CASE v = w
      <4>1. new \in events' /\ new.ref = RefOf(w) /\ new.invoice = InvoiceOf(w) /\ new.amount = AmountOf(w)
        BY <1>1
      <4> HIDE DEF new
      <4> QED BY <2>3, <2>5, <3>1, <4>1 DEF PaymentHolds, Evidence
    <3>2. CASE v # w
      <4>1. PaymentHolds(v)
        BY <2>4, <2>9, <3>2 DEF Handling, MoneyInv, PaymentsHold
      <4>2. events \subseteq events'
        BY <1>1
      <4> HIDE DEF new
      <4> QED BY <1>1, <2>5, <4>1, <4>2 DEF PaymentHolds, Evidence, InvoiceExists
    <3> QED BY <3>1, <3>2
  <2> QED BY <2>6, <2>7, <2>8, <2>9 DEF MoneyInv, CopiesHold, PaymentsHold
<1> QED BY <1>3, <1>4

\* Moving on after the decision keeps it.
LEMMA GoingOn ==
  ASSUME BillingTypeInv, NEW w \in Workers, NEW from, NEW to, Step(w, from, to),
         from \in {"settle", "reload", "mark"}
  PROVE  \A v \in Workers : KeepsPayment(v)
<1>1. tasks \in [Workers -> Tasks] /\ tasks[w].pc = from
  BY DEF Step, BillingTypeInv, BillingInv, TypeInv, SettlementAloneTypeOK, SettlementTypeOK
<1>2. \A v \in Workers : tasks'[v] = IF v = w THEN [tasks[w] EXCEPT !.pc = to] ELSE tasks[v]
  BY <1>1 DEF Step
<1>3. tasks'[w].transfer = tasks[w].transfer /\ tasks'[w].link = tasks[w].link
  BY <1>1, <1>2 DEF Tasks
<1> QED BY <1>1, <1>2, <1>3 DEF KeepsPayment, Copied, Handling

\* What a worker settles is proved by the event it has recorded.
LEMMA EvidenceIsPayment ==
  ASSUME MoneyInv, NEW w \in Workers, Handling(w), Exists(InvoiceOf(w))
  PROVE  \E e \in events : e.ref = RefOf(w) /\ e.invoice = InvoiceOf(w) /\ PaysInFull(e)
<1>1. Copied(w)
  BY DEF Handling, Copied
<1>2. PICK e \in events : e.ref = RefOf(w) /\ e.invoice = InvoiceOf(w) /\ e.amount = AmountOf(w)
  BY DEF MoneyInv, PaymentsHold, PaymentHolds, Evidence, Exists
<1>3. /\ LinkExists(RefOf(w)) /\ links[RefOf(w)].invoice = InvoiceOf(w)
      /\ AmountOf(w) >= links[RefOf(w)].amount
  BY <1>1 DEF MoneyInv, CopiesHold, CopyHolds, PaymentsHold, PaymentHolds, Exists
<1> QED BY <1>2, <1>3 DEF PaysInFull

\* The UPDATE names the provider that reported the money.
LEMMA SettleMoney ==
  ASSUME BillingTypeInv, MoneyInv, NEW w \in Workers, SettleInvoice(w), edits' = edits
  PROVE  MoneyInv'
<1> USE DEF BillingTypeInv, BillingInv
<1> DEFINE i == InvoiceOf(w)
<1>1. /\ bank' = bank /\ links' = links /\ events' = events
      /\ invoices \in [Invoices -> InvoiceRows] /\ tasks[w].pc = "settle" /\ InvoiceExists(i)
      /\ invoices' = [invoices EXCEPT ![i].status = "PAID", ![i].method = ProviderOf[RefOf(w)]]
  BY DEF SettleInvoice, SystemUpdateInvoiceStatusAndMethod, Step, TypeInv, SettlementAloneTypeOK,
         StoreTypeOK
<1>2. Handling(w) /\ i \in Invoices
  BY <1>1 DEF MoneyInv, PaymentsHold, PaymentHolds, Handling
<1>3. \A j \in Invoices : /\ j # i => invoices'[j] = invoices[j]
                          /\ invoices'[i].method = ProviderOf[RefOf(w)]
                          /\ invoices'[i].status = "PAID"
  BY <1>1, <1>2 DEF InvoiceRows
<1>4. TablesSurvive
  BY <1>1, <1>2, <1>3 DEF TablesSurvive, Remains, InvoiceExists, InvoiceStatus, LinkExists
<1>5. SameTransfers /\ \A v \in Workers : KeepsPayment(v)
  BY <1>1, GoingOn DEF SettleInvoice, SameTransfers
<1>6. CopiesHold' /\ PaymentsHold' /\ RowsHold'
  BY <1>4, <1>5, WorkersSurvive, SameEditors, EditorsSurvive
<1>7. ForeignKeys'
  BY <1>1, <1>3 DEF MoneyInv, ForeignKeys, LinkExists, InvoiceExists, InvoiceStatus
<1>8. PICK e \in events : e.ref = RefOf(w) /\ e.invoice = i /\ PaysInFull(e)
  BY <1>1, <1>2, EvidenceIsPayment DEF Exists
<1>9. \A x \in events : PaysInFull(x)' <=> PaysInFull(x)
  BY <1>1 DEF PaysInFull, LinkExists
<1>10. PaidLinkIsBacked' /\ ProviderMethodIsBacked'
  BY <1>1, <1>3, <1>8, <1>9 DEF MoneyInv, PaymentsBacked, PaidLinkIsBacked, ProviderMethodIsBacked
<1> QED BY <1>6, <1>7, <1>10 DEF MoneyInv, PaymentsBacked

\* The link marked is the one the money was recorded for, or it is gone.
LEMMA MarkMoney ==
  ASSUME BillingTypeInv, MoneyInv, NEW w \in Workers, MarkLinkPaid(w), edits' = edits
  PROVE  MoneyInv'
<1> USE DEF BillingTypeInv, BillingInv
<1> DEFINE r == RefOf(w)
<1>1. /\ bank' = bank /\ invoices' = invoices /\ events' = events
      /\ links \in [Refs -> LinkRows] /\ tasks[w].pc = "mark" /\ Handling(w)
      /\ UpdatePaymentLinkStatus(r, InvoiceOf(w), "PAID")
  BY DEF MarkLinkPaid, Step, Handling, TypeInv, SettlementAloneTypeOK, StoreTypeOK
<1>2. \A q \in Refs : /\ LinkExists(q)' <=> LinkExists(q)
                      /\ links'[q].invoice = links[q].invoice /\ links'[q].amount = links[q].amount
                      /\ links'[q].status = "PAID" =>
                           links[q].status = "PAID" \/ (q = r /\ q \in LinksOf(InvoiceOf(w)))
  BY <1>1 DEF UpdatePaymentLinkStatus, LinksOf, LinkExists, LinkStatus, LinkRows
<1>3. TablesSurvive
  BY <1>1, <1>2 DEF TablesSurvive, Remains, InvoiceExists
<1>4. SameTransfers /\ \A v \in Workers : KeepsPayment(v)
  BY <1>1, GoingOn DEF MarkLinkPaid, SameTransfers
<1>5. CopiesHold' /\ PaymentsHold' /\ RowsHold'
  BY <1>3, <1>4, WorkersSurvive, SameEditors, EditorsSurvive
<1>6. ForeignKeys'
  BY <1>1, <1>2 DEF MoneyInv, ForeignKeys, InvoiceExists
<1>7. \A e \in events : PaysInFull(e)' <=> PaysInFull(e)
  BY <1>1, <1>2, EventTypes DEF PaysInFull
<1>8. ProviderMethodIsBacked'
  BY <1>1, <1>7 DEF MoneyInv, PaymentsBacked, ProviderMethodIsBacked
<1>9. PaidLinkIsBacked'
  <2> SUFFICES ASSUME NEW q \in Refs, links'[q].status = "PAID"
               PROVE  \E e \in events' : e.ref = q /\ PaysInFull(e)'
    BY DEF PaidLinkIsBacked
  <2>1. CASE links[q].status = "PAID"
    BY <1>1, <1>7, <2>1 DEF MoneyInv, PaymentsBacked, PaidLinkIsBacked
  <2>2. CASE q = r /\ q \in LinksOf(InvoiceOf(w))
    <3>1. Exists(InvoiceOf(w))
      BY <2>2 DEF MoneyInv, ForeignKeys, LinksOf, Exists
    <3> QED BY <1>1, <1>7, <2>2, <3>1, EvidenceIsPayment
  <2> QED BY <1>2, <2>1, <2>2
<1> QED BY <1>5, <1>6, <1>8, <1>9 DEF MoneyInv, PaymentsBacked

LEMMA SettlementMoney ==
  ASSUME BillingTypeInv, MoneyInv, SettlementNext, edits' = edits
  PROVE  MoneyInv'
<1> DEFINE Quiet == \A v \in Workers : KeepsPayment(v)
<1> USE DEF BillingTypeInv, BillingInv
<1>0. tasks \in [Workers -> Tasks] /\ bank \in [Transfers -> BankRows]
  BY DEF TypeInv, SettlementAloneTypeOK, SettlementTypeOK
<1>1. ASSUME Quiet, SameTransfers, links' = links, invoices' = invoices, events' = events PROVE MoneyInv'
  BY <1>1, SameTables, SameEditors, CalmMoney
<1>2. ASSUME NEW t \in Transfers, MakeTransfer(t) PROVE MoneyInv'
  <2>1. Quiet
    BY <1>2 DEF MakeTransfer, KeepsPayment, Copied, Handling
  <2>2. SameTransfers
    BY <1>0, <1>2 DEF MakeTransfer, BankRows, SameTransfers
  <2> QED BY <1>1, <1>2, <2>1, <2>2 DEF MakeTransfer, storeVars
<1>3. ASSUME NEW w \in Workers, NEW t \in Transfers, DeliverWebhook(w, t) PROVE MoneyInv'
  <2>1. Quiet
    BY <1>0, <1>3 DEF DeliverWebhook, KeepsPayment, Copied, Handling, Idle
  <2> QED BY <1>1, <1>3, <2>1 DEF DeliverWebhook, storeVars, SameTransfers
<1>4. ASSUME NEW w \in Workers, StartReconcile(w) PROVE MoneyInv'
  <2>1. Quiet
    BY <1>0, <1>4 DEF StartReconcile, KeepsPayment, Copied, Handling, Idle
  <2> QED BY <1>1, <1>4, <2>1 DEF StartReconcile, storeVars, SameTransfers
<1>5. ASSUME NEW w \in Workers, NextTransaction(w) PROVE MoneyInv'
  <2>1. PICK t \in tasks[w].todo :
          tasks' = [tasks EXCEPT ![w] = [tasks[w] EXCEPT !.pc = "check", !.transfer = t,
                                                         !.todo = @ \ {t}]]
    BY <1>5 DEF NextTransaction
  <2>2. Quiet
    BY <1>0, <2>1 DEF KeepsPayment, Copied, Handling, Tasks
  <2> QED BY <1>1, <1>5, <2>2 DEF NextTransaction, storeVars, SameTransfers
<1>6. ASSUME NEW w \in Workers, SkipRecorded(w) \/ Notify(w) PROVE MoneyInv'
  BY <1>1, <1>6, RestKeepsCopies, CopyKeepsPayment, FinishKeepsTransfers DEF SkipRecorded, Notify, Finish, storeVars
<1>7. ASSUME NEW w \in Workers, CheckEvent(w) PROVE MoneyInv'
  BY <1>1, <1>7, StepKeepsCopies, CopyKeepsPayment DEF CheckEvent, storeVars, SameTransfers
<1>8. ASSUME NEW w \in Workers, RecordRejected(w) \/ InvoiceGone(w) \/ StatementFails(w) PROVE MoneyInv'
  BY <1>1, <1>8, RestKeepsCopies, CopyKeepsPayment
     DEF RecordRejected, InvoiceGone, StatementFails, Reject, storeVars, SameTransfers
<1>9. ASSUME NEW w \in Workers, ReloadInvoice(w) PROVE MoneyInv'
  BY <1>1, <1>9, GoingOn DEF ReloadInvoice, storeVars, SameTransfers
<1>10. ASSUME NEW w \in Workers, MarkFails(w) PROVE MoneyInv'
  BY <1>1, <1>10, GoingOn DEF MarkFails, SameTransfers
<1>11. ASSUME NEW w \in Workers, WorkerLost(w) PROVE MoneyInv'
  <2>1. Quiet
    BY <1>0, <1>11 DEF WorkerLost, KeepsPayment, Copied, Handling, Idle
  <2> QED BY <1>1, <1>11, <2>1 DEF WorkerLost, SameTransfers
<1> QED BY <1>2, <1>3, <1>4, <1>5, <1>6, <1>7, <1>8, <1>9, <1>10, <1>11, ReadMoney,
           RecordMoney, SettleMoney, MarkMoney DEF SettlementNext, Progress

-----------------------------------------------------------------------------
(* Editing.                                                                   *)

\* An editor takes a row, and no table changes.
LEMMA RowTaken ==
  ASSUME BillingTypeInv, MoneyInv, UNCHANGED settleVars, UNCHANGED storeVars,
         NEW e \in Editors, NEW x, edits' = [edits EXCEPT ![e] = x], RowHolds(e)'
  PROVE  MoneyInv'
<1>1. TablesCalm /\ SameTransfers /\ \A w \in Workers : KeepsPayment(w)
  BY SameTables, SameWorkers DEF settleVars, storeVars
<1>2. ForeignKeys' /\ PaymentsBacked' /\ TablesSurvive /\ CopiesHold' /\ PaymentsHold'
  BY <1>1, CalmTables, WorkersSurvive
<1>3. \A d \in Editors \ {e} : edits'[d] = edits[d]
  BY DEF BillingTypeInv, BillingInv, EditingInv, EditingTypeOK
<1>4. RowsHold'
  BY <1>2, <1>3, EditorSurvives DEF KeepsRow, RowsHold
<1> QED BY <1>2, <1>4 DEF MoneyInv

\* An editor stops, or goes on without a row.
LEMMA RowLeft ==
  ASSUME BillingTypeInv, NEW e \in Editors, End(e)
  PROVE  \A d \in Editors : KeepsRow(d)
BY DEF End, NoEdit, KeepsRow, BillingTypeInv, BillingInv, EditingInv, EditingTypeOK

\* A bill names no provider.
LEMMA UpsertMoney ==
  ASSUME BillingTypeInv, MoneyInv, UNCHANGED settleVars, UNCHANGED storeVars,
         NEW e \in Editors, NEW s, NEW a, Upsert(e, s, a)
  PROVE  MoneyInv'
<1>0. edits \in [Editors -> Edits] /\ invoices' = invoices
  BY DEF BillingTypeInv, BillingInv, EditingInv, EditingTypeOK, storeVars
<1>1. CASE End(e)
  BY <1>1, RowTaken DEF End, NoEdit, RowHolds, BillingTypeInv, BillingInv, EditingInv, EditingTypeOK
<1>2. ASSUME NEW i \in InSlot(s), Goto(e, "update", i, Bill(a)) PROVE MoneyInv'
  <2>1. invoices[i].status # "none"
    BY <1>2 DEF InSlot, InvoiceExists, InvoiceStatus
  <2>2. /\ edits'[e].pc = "update" /\ edits'[e].invoice = i
        /\ edits'[e].row.status = "UNPAID" /\ edits'[e].row.method = "none"
    BY <1>0, <1>2 DEF Goto, Bill
  <2>3. RowHolds(e)'
    BY <1>0, <2>1, <2>2 DEF RowHolds, Providers, InvoiceStatus
  <2> QED BY <1>2, <2>3, RowTaken DEF Goto
<1>3. ASSUME NEW i \in Invoices, Goto(e, "insert", i, Bill(a)) PROVE MoneyInv'
  <2>1. RowHolds(e)'
    BY <1>0, <1>3 DEF Goto, Bill, RowHolds
  <2> QED BY <1>3, <2>1, RowTaken DEF Goto
<1> QED BY <1>1, <1>2, <1>3 DEF Upsert, FreshIds

\* The row taken with an image names the provider its invoice names.
LEMMA ImageMoney ==
  ASSUME BillingTypeInv, MoneyInv, UNCHANGED settleVars,
         NEW e \in Editors, NEW i \in Invoices, BeginImage(e, i)
  PROVE  MoneyInv'
<1>0. edits \in [Editors -> Edits] /\ invoices \in [Invoices -> InvoiceRows] /\ UNCHANGED storeVars
  BY DEF BillingTypeInv, BillingInv, EditingInv, EditingTypeOK, BeginImage, Begin,
         TypeInv, SettlementAloneTypeOK, StoreTypeOK
<1>1. /\ edits'[e].pc = "update" /\ edits'[e].invoice = i
      /\ edits'[e].row.status = "PENDING_VERIFICATION" /\ edits'[e].row.method = invoices[i].method
  BY <1>0 DEF BeginImage, Begin, Goto, InvoiceRows
<1>2. invoices[i].status # "none" /\ invoices' = invoices
  BY <1>0 DEF BeginImage, storeVars
<1>3. invoices[i].method \in Providers => MethodBacked(i, invoices[i].method)
  BY DEF MoneyInv, PaymentsBacked, ProviderMethodIsBacked, MethodBacked
<1>4. MethodBacked(i, invoices[i].method) => MethodBacked(i, invoices[i].method)'
  BY <1>0 DEF storeVars, MethodBacked, PaysInFull, LinkExists
<1>5. RowHolds(e)'
  <2>1. edits'[e].row.method \in Providers => MethodBacked(edits[e].invoice, edits[e].row.method)'
    BY <1>1, <1>3, <1>4, <1>0 DEF storeVars, MethodBacked, PaysInFull, LinkExists
  <2> QED BY <1>1, <1>2, <2>1 DEF RowHolds, InvoiceStatus
<1> QED BY <1>0, <1>5, RowTaken DEF BeginImage, Begin, Goto

\* A status to write is a status.
LEMMA StatusMoney ==
  ASSUME BillingTypeInv, MoneyInv, UNCHANGED settleVars, NEW e \in Editors, NEW i \in Invoices,
         BeginPay(e, i) \/ BeginUnpay(e, i) \/ BeginDelete(e, i)
  PROVE  MoneyInv'
<1>0. edits \in [Editors -> Edits] /\ UNCHANGED storeVars
  BY DEF BillingTypeInv, BillingInv, EditingInv, EditingTypeOK, BeginPay, BeginUnpay, BeginDelete, Begin
<1>1. RowHolds(e)'
  BY <1>0 DEF BeginPay, BeginUnpay, BeginDelete, Begin, Goto, RowHolds, NoInvoiceRow, InvoiceStatus
<1> QED BY <1>0, <1>1, RowTaken DEF BeginPay, BeginUnpay, BeginDelete, Begin, Goto

\* A fresh id takes a row that names no provider.
LEMMA InsertMoney ==
  ASSUME BillingTypeInv, MoneyInv, UNCHANGED settleVars, NEW e \in Editors, InsertInvoice(e)
  PROVE  MoneyInv'
<1> DEFINE i == edits[e].invoice
           row == edits[e].row
<1>1. /\ invoices \in [Invoices -> InvoiceRows] /\ invoices[i].status = "none"
      /\ invoices' = [invoices EXCEPT ![i] = row] /\ links' = links /\ events' = events
  BY DEF InsertInvoice, InsertInvoiceRow, BillingTypeInv, BillingInv, TypeInv, SettlementAloneTypeOK, StoreTypeOK
<1>2. i \in Invoices
  BY DEF InsertInvoice, BillingTypeInv, BillingInv, EditingInv, EditedInvoice
<1>3. row.method = "none"
  BY DEF InsertInvoice, MoneyInv, RowsHold, RowHolds
<1>4. invoices'[i] = row /\ \A j \in Invoices \ {i} : invoices'[j] = invoices[j]
  BY <1>1, <1>2
<1>5. TablesSurvive
  BY <1>1, <1>4 DEF TablesSurvive, Remains, InvoiceExists, LinkExists
<1>6. SameTransfers /\ \A w \in Workers : KeepsPayment(w)
  BY SameWorkers DEF settleVars
<1>7. CopiesHold' /\ PaymentsHold' /\ RowsHold'
  BY <1>5, <1>6, WorkersSurvive, EditorsSurvive, RowLeft DEF InsertInvoice
<1>8. ForeignKeys'
  <2>1. \A r \in Refs : LinkExists(r) => links[r].invoice # i
    BY <1>1 DEF MoneyInv, ForeignKeys, InvoiceExists, InvoiceStatus
  <2> QED BY <1>1, <1>4, <2>1 DEF MoneyInv, ForeignKeys, InvoiceExists, LinkExists
<1>9. \A x \in events : PaysInFull(x)' <=> PaysInFull(x)
  BY <1>1 DEF PaysInFull, LinkExists
<1>10. PaidLinkIsBacked' /\ ProviderMethodIsBacked'
  BY <1>1, <1>3, <1>4, <1>9
     DEF MoneyInv, PaymentsBacked, PaidLinkIsBacked, ProviderMethodIsBacked, Providers
<1> QED BY <1>7, <1>8, <1>10 DEF MoneyInv, PaymentsBacked

\* A row that is there is overwritten with one that names a provider as it may.
LEMMA OverwriteMoney ==
  ASSUME BillingTypeInv, MoneyInv, UNCHANGED settleVars, NEW i \in Invoices, NEW row,
         InvoiceExists(i), row.status \in InvoiceStatus,
         row.method \in Providers => MethodBacked(i, row.method),
         invoices' = [invoices EXCEPT ![i] = row], links' = links, events' = events,
         \A e \in Editors : KeepsRow(e)
  PROVE  MoneyInv'
<1>1. invoices \in [Invoices -> InvoiceRows]
  BY DEF BillingTypeInv, BillingInv, TypeInv, SettlementAloneTypeOK, StoreTypeOK
<1>2. invoices'[i] = row /\ \A j \in Invoices \ {i} : invoices'[j] = invoices[j]
  BY <1>1
<1>3. TablesSurvive
  BY <1>2 DEF TablesSurvive, Remains, InvoiceExists, InvoiceStatus, LinkExists
<1>4. SameTransfers /\ \A w \in Workers : KeepsPayment(w)
  BY SameWorkers DEF settleVars
<1>5. CopiesHold' /\ PaymentsHold' /\ RowsHold'
  BY <1>3, <1>4, WorkersSurvive, EditorsSurvive
<1>6. ForeignKeys'
  BY <1>2 DEF MoneyInv, ForeignKeys, InvoiceExists, LinkExists
<1>7. \A x \in events : PaysInFull(x)' <=> PaysInFull(x)
  BY DEF PaysInFull, LinkExists
<1>8. PaidLinkIsBacked'
  BY <1>7 DEF MoneyInv, PaymentsBacked, PaidLinkIsBacked
<1>9. ProviderMethodIsBacked'
  BY <1>2, <1>7 DEF MoneyInv, PaymentsBacked, ProviderMethodIsBacked, MethodBacked
<1> QED BY <1>5, <1>6, <1>8, <1>9 DEF MoneyInv, PaymentsBacked

LEMMA UpdateMoney ==
  ASSUME BillingTypeInv, MoneyInv, UNCHANGED settleVars, NEW e \in Editors, UpdateInvoice(e)
  PROVE  MoneyInv'
<1> DEFINE i == edits[e].invoice
           row == edits[e].row
<1>1. /\ i \in Invoices /\ InvoiceExists(i) /\ invoices' = [invoices EXCEPT ![i] = row]
      /\ links' = links /\ events' = events
  BY DEF UpdateInvoice, UpdateInvoiceRow, BillingTypeInv, BillingInv, EditingInv, EditedInvoice
<1>2. /\ row.status \in InvoiceStatus
      /\ row.method \in Providers => MethodBacked(i, row.method)
  BY <1>1 DEF UpdateInvoice, MoneyInv, RowsHold, RowHolds, Exists
<1>3. \A d \in Editors : KeepsRow(d)
  BY DEF UpdateInvoice, KeepsRow, BillingTypeInv, BillingInv, EditingInv, EditingTypeOK, Edits
<1> QED BY <1>1, <1>2, <1>3, OverwriteMoney

LEMMA ChangeStatusMoney ==
  ASSUME BillingTypeInv, MoneyInv, UNCHANGED settleVars, NEW e \in Editors, ChangeStatus(e)
  PROVE  MoneyInv'
<1> DEFINE i == edits[e].invoice
           row == [invoices[i] EXCEPT !.status = edits[e].row.status]
<1>1. /\ i \in Invoices /\ InvoiceExists(i) /\ invoices' = [invoices EXCEPT ![i] = row]
      /\ links' = links /\ events' = events
  BY DEF ChangeStatus, UpdateInvoiceStatus, BillingTypeInv, BillingInv, EditingInv, EditedInvoice
<1>2. invoices[i] \in InvoiceRows
  BY <1>1 DEF BillingTypeInv, BillingInv, TypeInv, SettlementAloneTypeOK, StoreTypeOK
<1>3. row.status \in InvoiceStatus /\ row.method = invoices[i].method
  BY <1>2 DEF ChangeStatus, MoneyInv, RowsHold, RowHolds, InvoiceRows
<1>4. row.method \in Providers => MethodBacked(i, row.method)
  BY <1>1, <1>3 DEF MoneyInv, PaymentsBacked, ProviderMethodIsBacked, MethodBacked
<1>5. \A d \in Editors : KeepsRow(d)
  BY RowLeft DEF ChangeStatus
<1> HIDE DEF row
<1> QED BY <1>1, <1>3, <1>4, <1>5, OverwriteMoney

\* What goes with an invoice proved only payments of it.
LEMMA DeleteMoney ==
  ASSUME BillingTypeInv, MoneyInv, UNCHANGED settleVars, NEW e \in Editors, DeleteInvoice(e)
  PROVE  MoneyInv'
<1> DEFINE i == edits[e].invoice
<1>1. /\ invoices \in [Invoices -> InvoiceRows] /\ InvoiceExists(i) /\ i \in Invoices
      /\ invoices' = [invoices EXCEPT ![i] = [NoInvoiceRow EXCEPT !.status = "deleted"]]
      /\ links' = [r \in Refs |-> IF r \in LinksOf(i) THEN NoLinkRow ELSE links[r]]
      /\ events' = {IF x.invoice = i THEN [x EXCEPT !.invoice = None] ELSE x : x \in events}
  BY DEF DeleteInvoice, DeleteInvoiceRow, BillingTypeInv, BillingInv, EditingInv, EditedInvoice,
         TypeInv, SettlementAloneTypeOK, StoreTypeOK
<1>2. /\ invoices'[i].status = "deleted" /\ invoices'[i].method = "none"
      /\ \A j \in Invoices \ {i} : invoices'[j] = invoices[j]
  BY <1>1 DEF NoInvoiceRow
<1>3. ~Remains(i)
  BY <1>2 DEF Remains, InvoiceStatus
<1>4. \A r \in Refs : IF LinkExists(r) /\ links[r].invoice = i
                      THEN links'[r] = NoLinkRow ELSE links'[r] = links[r]
  BY <1>1 DEF LinksOf
<1>5. \A x \in events : x.invoice # i => x \in events'
  BY <1>1
<1>6. TablesSurvive
  <2>1. \A j \in Invoices : invoices[j].status # "none" =>
          invoices'[j].status # "none" /\ (Remains(j) => InvoiceExists(j))
    BY <1>2, <1>3 DEF Remains, InvoiceExists
  <2>2. \A r \in Refs : LinkExists(r) /\ Remains(links[r].invoice) =>
          LinkExists(r)' /\ links'[r].invoice = links[r].invoice /\ links'[r].amount = links[r].amount
    BY <1>3, <1>4 DEF LinkExists
  <2> QED BY <1>3, <1>5, <2>1, <2>2 DEF TablesSurvive
<1>7. SameTransfers /\ \A w \in Workers : KeepsPayment(w)
  BY SameWorkers DEF settleVars
<1>8. CopiesHold' /\ PaymentsHold' /\ RowsHold'
  BY <1>6, <1>7, WorkersSurvive, EditorsSurvive, RowLeft DEF DeleteInvoice
<1>9. \A r \in Refs : LinkExists(r)' => links'[r] = links[r] /\ LinkExists(r) /\ links[r].invoice # i
  BY <1>4 DEF LinkExists, NoLinkRow, LinkStatus
<1>10. ForeignKeys'
  <2> SUFFICES ASSUME NEW r \in Refs
               PROVE  /\ LinkExists(r)' => links'[r].invoice \in Invoices /\ InvoiceExists(links[r].invoice)'
                      /\ ~LinkExists(r)' => links'[r].invoice = None
    BY DEF ForeignKeys
  <2>1. CASE LinkExists(r)'
    BY <1>2, <1>9, <2>1 DEF MoneyInv, ForeignKeys, InvoiceExists
  <2>2. CASE ~LinkExists(r)'
    BY <1>4, <2>2 DEF MoneyInv, ForeignKeys, LinkExists, NoLinkRow
  <2> QED BY <2>1, <2>2
<1>11. ASSUME NEW x \in events, PaysInFull(x), x.invoice # i
       PROVE  x \in events' /\ PaysInFull(x)'
  <2>1. x.ref \in Refs /\ links'[x.ref] = links[x.ref]
    BY <1>4, <1>11, EventTypes DEF PaysInFull
  <2> QED BY <1>5, <1>11, <2>1 DEF PaysInFull, LinkExists
<1>12. PaidLinkIsBacked'
  <2> SUFFICES ASSUME NEW r \in Refs, links'[r].status = "PAID"
               PROVE  \E x \in events' : x.ref = r /\ PaysInFull(x)'
    BY DEF PaidLinkIsBacked
  <2>1. links'[r] = links[r] /\ links[r].invoice # i
    BY <1>9 DEF LinkExists, LinkStatus
  <2>2. PICK x \in events : x.ref = r /\ PaysInFull(x)
    BY <2>1 DEF MoneyInv, PaymentsBacked, PaidLinkIsBacked
  <2> QED BY <1>11, <2>1, <2>2 DEF PaysInFull
<1>13. ProviderMethodIsBacked'
  <2> SUFFICES ASSUME NEW j \in Invoices, invoices'[j].method \in Providers
               PROVE  \E x \in events' : x.invoice = j /\ ProviderOf[x.ref] = invoices'[j].method /\ PaysInFull(x)'
    BY DEF ProviderMethodIsBacked
  <2>1. j # i /\ invoices'[j] = invoices[j]
    BY <1>2 DEF Providers
  <2>2. PICK x \in events : x.invoice = j /\ ProviderOf[x.ref] = invoices[j].method /\ PaysInFull(x)
    BY <2>1 DEF MoneyInv, PaymentsBacked, ProviderMethodIsBacked
  <2> QED BY <1>11, <2>1, <2>2
<1> QED BY <1>8, <1>10, <1>12, <1>13 DEF MoneyInv, PaymentsBacked

LEMMA EditingMoney ==
  ASSUME BillingTypeInv, MoneyInv, EditingNext, UNCHANGED settleVars
  PROVE  MoneyInv'
<1>1. ASSUME NEW e \in Editors, InsertDuplicate(e) \/ TargetGone(e) PROVE MoneyInv'
  <2>1. UNCHANGED storeVars /\ edits' = [edits EXCEPT ![e] = NoEdit]
    BY <1>1 DEF InsertDuplicate, TargetGone, End
  <2>2. RowHolds(e)'
    BY <2>1 DEF RowHolds, NoEdit, BillingTypeInv, BillingInv, EditingInv, EditingTypeOK
  <2> QED BY <2>1, <2>2, RowTaken
<1>2. ASSUME NEW e \in Editors, EditFails(e) PROVE MoneyInv'
  BY <1>2, SameTables, SameWorkers, RowLeft, CalmMoney DEF EditFails, settleVars
<1>3. ASSUME NEW e \in Editors, MarkLinksStale(e) PROVE MoneyInv'
  <2>1. links \in [Refs -> LinkRows]
    BY DEF BillingTypeInv, BillingInv, TypeInv, SettlementAloneTypeOK, StoreTypeOK
  <2>2. TablesCalm
    BY <1>3, <2>1 DEF MarkLinksStale, MarkStaleByAmount, TablesCalm, LinkExists, LinkStatus, LinkRows
  <2> QED BY <1>3, <2>2, SameWorkers, RowLeft, CalmMoney DEF MarkLinksStale, settleVars
<1>4. ASSUME NEW e \in Editors, NEW i \in Invoices, NEW a \in Amounts, BeginRecalculate(e, i, a)
      PROVE  MoneyInv'
  <2>1. RowHolds(e)'
    BY <1>4 DEF BeginRecalculate, RowHolds, BillingTypeInv, BillingInv, EditingInv, EditingTypeOK
  <2> QED BY <1>4, <2>1, RowTaken DEF BeginRecalculate
<1>5. ASSUME NEW e \in Editors, NEW s \in Slots, NEW a \in Amounts, BeginCreate(e, s, a)
      PROVE  MoneyInv'
  BY <1>5, UpsertMoney DEF BeginCreate
<1>6. ASSUME NEW e \in Editors, Recalculate(e) PROVE MoneyInv'
  BY <1>6, UpsertMoney DEF Recalculate
<1> QED BY <1>1, <1>2, <1>3, <1>4, <1>5, <1>6, ImageMoney, StatusMoney, InsertMoney, UpdateMoney,
           ChangeStatusMoney, DeleteMoney DEF EditingNext

-----------------------------------------------------------------------------
(* Issuing, restarts, and all of it.                                          *)

\* A new link takes a reference that no link has, for an invoice that is there.
LEMMA IssueMoney ==
  ASSUME BillingTypeInv, MoneyInv, UNCHANGED settleVars, edits' = edits,
         NEW g \in Issuers, InsertLink(g)
  PROVE  MoneyInv'
<1> DEFINE q == issues[g].ref
           i == issues[g].invoice
           row == [status |-> "ACTIVE", invoice |-> i, amount |-> issues[g].total,
                   account |-> issues[g].account, created |-> 1 + Cardinality(LinksOf(i))]
<1>0. links \in [Refs -> LinkRows] /\ i \in Invoices
  BY DEF InsertLink, Stage, BillingTypeInv, BillingInv, IssuedInvoice, TypeInv, SettlementAloneTypeOK, StoreTypeOK
<1>1. /\ links' = [links EXCEPT ![q] = row] /\ row.status = "ACTIVE" /\ row.invoice = i
      /\ ~LinkExists(q) /\ InvoiceExists(i) /\ invoices' = invoices /\ events' = events
  BY DEF InsertLink, InsertLinkRow, LinkInsertable
<1> HIDE DEF row
<1>2. \A r \in Refs : LinkExists(r) => links'[r] = links[r] /\ LinkExists(r)'
  BY <1>0, <1>1 DEF LinkExists
<1>3. TablesSurvive
  BY <1>1, <1>2 DEF TablesSurvive, Remains, InvoiceExists
<1>4. CopiesHold' /\ PaymentsHold' /\ RowsHold'
  BY <1>3, SameWorkers, SameEditors, WorkersSurvive, EditorsSurvive DEF settleVars
<1>5. ForeignKeys'
  <2>1. \A r \in Refs : links'[r] = links[r] \/ (links'[r].status = "ACTIVE" /\ links'[r].invoice = i)
    BY <1>0, <1>1
  <2> QED BY <1>0, <1>1, <2>1 DEF MoneyInv, ForeignKeys, LinkExists, LinkStatus, InvoiceExists
<1>6. \A x \in events : PaysInFull(x) => PaysInFull(x)'
  BY <1>2, EventTypes DEF PaysInFull
<1>7. \A r \in Refs : links'[r].status = "PAID" => links[r].status = "PAID"
  BY <1>0, <1>1
<1>8. PaidLinkIsBacked' /\ ProviderMethodIsBacked'
  BY <1>1, <1>6, <1>7 DEF MoneyInv, PaymentsBacked, PaidLinkIsBacked, ProviderMethodIsBacked
<1> QED BY <1>4, <1>5, <1>8 DEF MoneyInv, PaymentsBacked

LEMMA IssuingMoney ==
  ASSUME BillingTypeInv, MoneyInv, IssuingNext, UNCHANGED settleVars, edits' = edits
  PROVE  MoneyInv'
<1>0. links \in [Refs -> LinkRows]
  BY DEF BillingTypeInv, BillingInv, TypeInv, SettlementAloneTypeOK, StoreTypeOK
<1>1. ASSUME TablesCalm PROVE MoneyInv'
  BY <1>1, SameWorkers, SameEditors, CalmMoney DEF settleVars
<1>2. ASSUME invoices' = invoices, links' = links, events' = events PROVE MoneyInv'
  BY <1>1, <1>2, SameTables
<1>3. ASSUME NEW g \in Issuers, MarkLinkStale(g) PROVE MoneyInv'
  <2>1. TablesCalm
    BY <1>0, <1>3 DEF MarkLinkStale, UpdatePaymentLinkStatus, LinksOf, TablesCalm, LinkExists, LinkStatus, LinkRows
  <2> QED BY <1>1, <2>1
<1>4. ASSUME NEW c \in Configurers, MarkProviderStale(c) PROVE MoneyInv'
  <2>1. TablesCalm
    BY <1>0, <1>4 DEF MarkProviderStale, MarkStaleByProvider, TablesCalm, LinkExists, LinkStatus, LinkRows
  <2> QED BY <1>1, <2>1
<1>5. \/ \E g \in Issuers : MarkLinkStale(g) \/ InsertLink(g)
      \/ \E c \in Configurers : MarkProviderStale(c)
      \/ invoices' = invoices /\ links' = links /\ events' = events
  BY DEF IssuingNext, BeginSend, ResolveProvider, ReadCredentials, NoCredentials,
     ReuseLink, RefuseLink, NoActiveLink, GenerateCode, CodesExhausted, InsertRejected, SendQR,
     IssueFails, SaveConfig, DeleteConfig, Configure, ConfigFails, storeVars
<1> QED BY <1>2, <1>3, <1>4, <1>5, IssueMoney

\* A restart loses every copy and every row.
LEMMA RestartMoney ==
  ASSUME BillingTypeInv, MoneyInv, Restart
  PROVE  MoneyInv'
<1>1. TablesCalm /\ SameTransfers
  BY SameTables DEF Restart, SameTransfers
<1>2. \A w \in Workers : KeepsPayment(w)
  BY DEF Restart, Idle, KeepsPayment, Copied
<1>3. \A e \in Editors : KeepsRow(e)
  BY DEF Restart, NoEdit, KeepsRow
<1> QED BY <1>1, <1>2, <1>3, CalmMoney

LEMMA NextMoney == BillingTypeInv /\ MoneyInv /\ [Next]_vars => MoneyInv'
<1> SUFFICES ASSUME BillingTypeInv, MoneyInv, [Next]_vars PROVE MoneyInv'
  OBVIOUS
<1>1. CASE Settlement
  BY <1>1, SettlementMoney DEF Settlement, editVars
<1>2. CASE Editing
  BY <1>2, EditingMoney DEF Editing
<1>3. CASE Issuing
  BY <1>3, IssuingMoney DEF Issuing, editVars
<1>4. CASE UNCHANGED vars
  BY <1>4, SameTables, SameWorkers, SameEditors, CalmMoney DEF vars
<1> QED BY <1>1, <1>2, <1>3, <1>4, RestartMoney DEF Next

LEMMA InitMoney == Init => MoneyInv
<1> SUFFICES ASSUME Init PROVE MoneyInv
  OBVIOUS
<1>1. ForeignKeys
  BY InitCopy DEF Init, SettlementAloneInit, CopyInv
<1>2. PaymentsBacked
  BY InitBacked DEF Init, SettlementAloneInit, BackedInv
<1>3. CopiesHold /\ PaymentsHold
  BY DEF Init, SettlementInit, Idle, CopiesHold, PaymentsHold, Copied, Handling
<1>4. RowsHold
  BY DEF Init, EditingInit, NoEdit, RowsHold, RowHolds
<1> QED BY <1>1, <1>2, <1>3, <1>4 DEF MoneyInv

\* No link is PAID and no invoice names a provider without a recorded transaction
\* that pays the link in full: not for overlapping settlements, nor for editors
\* that write back rows they read long ago, deletions under a settlement, issuers
\* that reuse references, restarts, or any mixture of these.
THEOREM BillingBacked == Spec => []PaymentsBacked
<1>1. BillingTypeInv /\ MoneyInv /\ [Next]_vars => (BillingTypeInv /\ MoneyInv)'
  BY BillingNextType, NextMoney
<1>2. MoneyInv => PaymentsBacked
  BY DEF MoneyInv
<1> QED BY <1>1, <1>2, BillingStarts, InitMoney, PTL DEF Spec

-----------------------------------------------------------------------------
(* What a step does to invoices and links, whoever takes it.                  *)

\* An id that was used is not used again; a link lives, and asks for what it
\* asked for, as long as its invoice.
RowsSurvive ==
  /\ \A i \in Invoices : invoices[i].status # "none" =>
       invoices'[i].status # "none" /\ (Remains(i) => InvoiceExists(i))
  /\ \A r \in Refs : LinkExists(r) /\ Remains(links[r].invoice) =>
       LinkExists(r)' /\ links'[r].invoice = links[r].invoice /\ links'[r].amount = links[r].amount

\* A link that is ACTIVE was so before.
ActiveStays == \A r \in Refs : links'[r].status = "ACTIVE" => links'[r] = links[r]

\* What a link asks for may change only with an overwritten invoice.
TotalsStay ==
  \A i \in Invoices : InvoiceExists(i) /\ Remains(i) =>
    \/ invoices'[i].total = invoices[i].total
    \/ \E e \in Editors : UpdateInvoice(e) /\ edits[e].invoice = i

\* The steps that change invoices or links.
Writes ==
  \/ \E w \in Workers : SettleInvoice(w) \/ MarkLinkPaid(w)
  \/ \E e \in Editors : InsertInvoice(e) \/ UpdateInvoice(e) \/ MarkLinksStale(e) \/ ChangeStatus(e) \/ DeleteInvoice(e)
  \/ \E g \in Issuers : MarkLinkStale(g) \/ InsertLink(g)
  \/ \E c \in Configurers : MarkProviderStale(c)

LEMMA WritesOnly == ASSUME [Next]_vars PROVE Writes \/ (invoices' = invoices /\ links' = links)
<1>1. CASE Settlement
  BY <1>1 DEF Settlement, SettlementNext, Progress, MakeTransfer, DeliverWebhook, StartReconcile,
     NextTransaction, SkipRecorded, CheckEvent, ReadLink, RecordEvent, RecordRejected, ReloadInvoice,
     InvoiceGone, Notify, MarkFails, StatementFails, WorkerLost, storeVars, Writes
<1>2. CASE Editing
  BY <1>2 DEF Editing, EditingNext, BeginCreate, BeginRecalculate, Recalculate, BeginImage, BeginPay,
     BeginUnpay, BeginDelete, Begin, InsertDuplicate, TargetGone, EditFails, storeVars, Writes
<1>3. CASE Issuing
  BY <1>3 DEF Issuing, IssuingNext, BeginSend, ResolveProvider, ReadCredentials, NoCredentials,
     ReuseLink, RefuseLink, NoActiveLink, GenerateCode, CodesExhausted, InsertRejected, SendQR,
     IssueFails, SaveConfig, DeleteConfig, Configure, ConfigFails, storeVars, Writes
<1>4. CASE Restart \/ UNCHANGED vars
  BY <1>4 DEF Restart, vars
<1> QED BY <1>1, <1>2, <1>3, <1>4 DEF Next

\* A column of a row, or the row, is written.
LEMMA RowWritten ==
  ASSUME invoices \in [Invoices -> InvoiceRows], NEW i \in Invoices, NEW row, InvoiceExists(i),
         invoices' = [invoices EXCEPT ![i] = row], row.status \in InvoiceStatus, links' = links
  PROVE  RowsSurvive /\ ActiveStays
BY DEF RowsSurvive, Remains, ActiveStays, InvoiceExists, InvoiceStatus, LinkExists

\* The status of a link is written.
LEMMA StatusWritten ==
  ASSUME links \in [Refs -> LinkRows], invoices' = invoices, links' \in [Refs -> LinkRows],
         \A r \in Refs : \/ links'[r] = links[r]
                         \/ LinkExists(r) /\ \E s \in {"STALE", "PAID"} : links'[r] = [links[r] EXCEPT !.status = s]
  PROVE  RowsSurvive /\ ActiveStays /\ TotalsStay
<1>1. \A r \in Refs : LinkExists(r) => LinkExists(r)' /\ links'[r].invoice = links[r].invoice /\ links'[r].amount = links[r].amount
  BY DEF LinkExists, LinkStatus, LinkRows
<1>2. ActiveStays
  BY DEF ActiveStays, LinkRows
<1> QED BY <1>1, <1>2 DEF RowsSurvive, Remains, TotalsStay, InvoiceExists

LEMMA RowsStep ==
  ASSUME BillingTypeInv, MoneyInv, [Next]_vars
  PROVE  RowsSurvive /\ TotalsStay /\ (ActiveStays \/ \E g \in Issuers : InsertLink(g))
<1> DEFINE Goal == RowsSurvive /\ TotalsStay /\ (ActiveStays \/ \E g \in Issuers : InsertLink(g))
<1>0. /\ invoices \in [Invoices -> InvoiceRows] /\ links \in [Refs -> LinkRows] /\ edits \in [Editors -> Edits]
      /\ \A e \in Editors : edits[e].pc \notin {"idle", "upsert"} => edits[e].invoice \in Invoices
  BY DEF BillingTypeInv, BillingInv, EditingInv, EditedInvoice, EditingTypeOK, TypeInv, SettlementAloneTypeOK, StoreTypeOK
<1>1. links' \in [Refs -> LinkRows]
  BY BillingNextType DEF BillingTypeInv, BillingInv, TypeInv, SettlementAloneTypeOK, StoreTypeOK
<1>2. ASSUME NEW w \in Workers, SettleInvoice(w) PROVE Goal
  <2> DEFINE i == InvoiceOf(w)
             row == [invoices[i] EXCEPT !.status = "PAID", !.method = ProviderOf[RefOf(w)]]
  <2>1. invoices' = [invoices EXCEPT ![i] = row] /\ links' = links /\ InvoiceExists(i)
    BY <1>2 DEF SettleInvoice, SystemUpdateInvoiceStatusAndMethod
  <2>2. i \in Invoices
    BY <1>2, <2>1 DEF SettleInvoice, Step, MoneyInv, PaymentsHold, PaymentHolds, Handling
  <2>3. row.status = "PAID" /\ row.total = invoices[i].total
    BY <1>0, <2>2 DEF InvoiceRows
  <2> HIDE DEF row, i
  <2>4. RowsSurvive /\ ActiveStays
    BY <1>0, <2>1, <2>2, <2>3, RowWritten DEF InvoiceStatus
  <2> QED BY <1>0, <2>1, <2>2, <2>3, <2>4 DEF TotalsStay
<1>3. ASSUME NEW w \in Workers, MarkLinkPaid(w) PROVE Goal
  BY <1>0, <1>1, <1>3, StatusWritten DEF MarkLinkPaid, UpdatePaymentLinkStatus, LinksOf
<1>4. ASSUME NEW e \in Editors, InsertInvoice(e) PROVE Goal
  <2> DEFINE i == edits[e].invoice
  <2>1. /\ invoices[i].status = "none" /\ invoices' = [invoices EXCEPT ![i] = edits[e].row] /\ links' = links
        /\ i \in Invoices
    BY <1>0, <1>4 DEF InsertInvoice, InsertInvoiceRow
  <2>2. \A j \in Invoices : invoices[j].status # "none" => invoices'[j] = invoices[j]
    BY <1>0, <2>1
  <2>3. \A j \in Invoices : InvoiceExists(j) => invoices[j].status # "none"
    BY DEF InvoiceExists, InvoiceStatus
  <2>4. RowsSurvive /\ ActiveStays
    BY <2>1, <2>2 DEF RowsSurvive, Remains, ActiveStays, LinkExists, InvoiceExists
  <2> QED BY <2>2, <2>3, <2>4 DEF TotalsStay
<1>5. ASSUME NEW e \in Editors, UpdateInvoice(e) PROVE Goal
  <2> DEFINE i == edits[e].invoice
  <2>1. /\ InvoiceExists(i) /\ invoices' = [invoices EXCEPT ![i] = edits[e].row] /\ links' = links /\ i \in Invoices
    BY <1>0, <1>5 DEF UpdateInvoice, UpdateInvoiceRow
  <2>2. edits[e].row.status \in InvoiceStatus
    BY <1>5 DEF UpdateInvoice, MoneyInv, RowsHold, RowHolds
  <2>3. RowsSurvive /\ ActiveStays
    BY <1>0, <2>1, <2>2, RowWritten
  <2>4. TotalsStay
    BY <1>0, <1>5, <2>1 DEF TotalsStay
  <2> QED BY <2>3, <2>4
<1>6. ASSUME NEW e \in Editors, MarkLinksStale(e) PROVE Goal
  BY <1>0, <1>1, <1>6, StatusWritten DEF MarkLinksStale, MarkStaleByAmount, LinksOf
<1>7. ASSUME NEW e \in Editors, ChangeStatus(e) PROVE Goal
  <2> DEFINE i == edits[e].invoice
             row == [invoices[i] EXCEPT !.status = edits[e].row.status]
  <2>1. /\ InvoiceExists(i) /\ invoices' = [invoices EXCEPT ![i] = row] /\ links' = links /\ i \in Invoices
    BY <1>0, <1>7 DEF ChangeStatus, UpdateInvoiceStatus
  <2>2. row.status \in InvoiceStatus /\ row.total = invoices[i].total
    BY <1>0, <1>7, <2>1 DEF ChangeStatus, MoneyInv, RowsHold, RowHolds, InvoiceRows
  <2> HIDE DEF row, i
  <2>3. RowsSurvive /\ ActiveStays
    BY <1>0, <2>1, <2>2, RowWritten
  <2> QED BY <1>0, <2>1, <2>2, <2>3 DEF TotalsStay
<1>8. ASSUME NEW e \in Editors, DeleteInvoice(e) PROVE Goal
  <2>0. PICK i \in Invoices : i = edits[e].invoice
    BY <1>0, <1>8 DEF DeleteInvoice
  <2>1. /\ invoices' = [invoices EXCEPT ![i] = [NoInvoiceRow EXCEPT !.status = "deleted"]]
        /\ links' = [r \in Refs |-> IF r \in LinksOf(i) THEN NoLinkRow ELSE links[r]]
    BY <1>8, <2>0 DEF DeleteInvoice, DeleteInvoiceRow
  <2>2. ~Remains(i) /\ invoices'[i].status # "none" /\ \A j \in Invoices \ {i} : invoices'[j] = invoices[j]
    BY <1>0, <2>1 DEF NoInvoiceRow, Remains, InvoiceStatus
  <2>3. \A r \in Refs : IF LinkExists(r) /\ links[r].invoice = i THEN links'[r] = NoLinkRow ELSE links'[r] = links[r]
    BY <2>1 DEF LinksOf
  <2>4. ActiveStays
    BY <2>3 DEF ActiveStays, NoLinkRow
  <2>5. \A r \in Refs : LinkExists(r) => links[r].invoice \in Invoices
    BY DEF MoneyInv, ForeignKeys
  <2>6. RowsSurvive
    <3>1. \A j \in Invoices : Remains(j) => InvoiceExists(j)
      BY <2>2 DEF Remains, InvoiceExists
    <3>2. \A r \in Refs : LinkExists(r) /\ Remains(links[r].invoice) => links'[r] = links[r]
      BY <2>2, <2>3, <2>5
    <3> QED BY <2>2, <3>1, <3>2 DEF RowsSurvive, LinkExists
  <2> QED BY <2>2, <2>4, <2>6 DEF TotalsStay
<1>9. ASSUME NEW g \in Issuers, MarkLinkStale(g) PROVE Goal
  BY <1>0, <1>1, <1>9, StatusWritten DEF MarkLinkStale, UpdatePaymentLinkStatus, LinksOf
<1>10. ASSUME NEW g \in Issuers, InsertLink(g) PROVE Goal
  <2>1. \A r \in Refs : LinkExists(r) => links'[r] = links[r]
    BY <1>0, <1>10 DEF InsertLink, InsertLinkRow, LinkInsertable
  <2> QED BY <1>10, <2>1 DEF InsertLink, RowsSurvive, Remains, TotalsStay, LinkExists, InvoiceExists
<1>11. ASSUME NEW c \in Configurers, MarkProviderStale(c) PROVE Goal
  BY <1>0, <1>1, <1>11, StatusWritten DEF MarkProviderStale, MarkStaleByProvider, LinkExists, LinkStatus
<1>12. CASE invoices' = invoices /\ links' = links
  BY <1>12 DEF RowsSurvive, Remains, TotalsStay, ActiveStays, LinkExists, InvoiceExists
<1> QED BY <1>2, <1>3, <1>4, <1>5, <1>6, <1>7, <1>8, <1>9, <1>10, <1>11, <1>12, WritesOnly DEF Writes

-----------------------------------------------------------------------------
(* Issuers.                                                                   *)

\* What a step does to one issuer: nothing, an end, or one of its own steps.
Reads(g) == ReuseLink(g) \/ RefuseLink(g) \/ NoActiveLink(g) \/ GenerateCode(g)
Prepares(g) ==
  /\ issues'[g].pc \in {"credentials", "lookup"} /\ issues[g].pc # "idle"
  /\ issues'[g].invoice = issues[g].invoice
  /\ invoices' = invoices /\ links' = links
Moves(g) ==
  \/ issues'[g] = issues[g]
  \/ issues'[g].pc = "idle"
  \/ \E i \in Invoices : BeginSend(g, i)
  \/ Prepares(g) \/ Reads(g) \/ MarkLinkStale(g) \/ InsertLink(g)

LEMMA IssuerMoves == ASSUME BillingTypeInv, [Next]_vars, NEW g \in Issuers PROVE Moves(g)
<1>0. issues \in [Issuers -> Issues]
  BY DEF BillingTypeInv, BillingInv, IssuingTypeOK
<1>1. CASE issues' = issues
  BY <1>1 DEF Moves
<1>2. CASE Restart
  BY <1>2 DEF Moves, Restart, NoIssue
<1>3. ASSUME NEW h \in Issuers, ResolveProvider(h) \/ ReadCredentials(h) PROVE Moves(g)
  <2>1. CASE h # g
    BY <1>0, <1>3, <2>1 DEF Moves, ResolveProvider, ReadCredentials
  <2>2. CASE h = g
    <3>1. Prepares(g)
      BY <1>0, <1>3, <2>2 DEF Prepares, ResolveProvider, ReadCredentials, storeVars, Issues
    <3> QED BY <3>1 DEF Moves
  <2> QED BY <2>1, <2>2
<1>4. ASSUME NEW h \in Issuers, Give(h) PROVE Moves(g)
  BY <1>0, <1>4 DEF Moves, Give, NoIssue
<1>5. ASSUME NEW h \in Issuers, NEW i \in Invoices, BeginSend(h, i) PROVE Moves(g)
  BY <1>0, <1>5 DEF Moves, BeginSend
<1>6. ASSUME NEW h \in Issuers, ReuseLink(h) \/ RefuseLink(h) \/ GenerateCode(h) PROVE Moves(g)
  <2>1. CASE h # g
    BY <1>0, <1>6, <2>1 DEF Moves, ReuseLink, RefuseLink, GenerateCode
  <2> QED BY <1>6, <2>1 DEF Moves, Reads
<1>7. ASSUME NEW h \in Issuers, NoActiveLink(h) \/ MarkLinkStale(h) \/ InsertLink(h) PROVE Moves(g)
  <2>1. CASE h # g
    BY <1>0, <1>7, <2>1 DEF Moves, NoActiveLink, MarkLinkStale, InsertLink, Stage
  <2> QED BY <1>7, <2>1 DEF Moves, Reads
<1>8. CASE Issuing
  <2>1. \/ issues' = issues \/ \E h \in Issuers : Give(h)
        \/ \E h \in Issuers, i \in Invoices : BeginSend(h, i)
        \/ \E h \in Issuers : ResolveProvider(h) \/ ReadCredentials(h)
        \/ \E h \in Issuers : ReuseLink(h) \/ RefuseLink(h) \/ GenerateCode(h)
        \/ \E h \in Issuers : NoActiveLink(h) \/ MarkLinkStale(h) \/ InsertLink(h)
    BY <1>8 DEF Issuing, IssuingNext, NoCredentials, CodesExhausted, InsertRejected, SendQR, IssueFails,
       SaveConfig, DeleteConfig, Configure, MarkProviderStale, ConfigFails
  <2> QED BY <1>1, <1>3, <1>4, <1>5, <1>6, <1>7, <2>1
<1>9. CASE Settlement \/ Editing \/ UNCHANGED vars
  BY <1>1, <1>9 DEF Settlement, Editing, issueVars, vars
<1> QED BY <1>2, <1>8, <1>9 DEF Next

-----------------------------------------------------------------------------
(* The QR that is sent.                                                       *)

\* An invoice once read was stored; the link found or made for it asks for what
\* was read, as long as the invoice is there.
SendHolds(g) ==
  LET x == issues[g] IN
  /\ x.pc # "idle" => x.invoice \in Invoices /\ invoices[x.invoice].status # "none"
  /\ x.pc = "sent" /\ InvoiceExists(x.invoice) =>
       x.ref \in Refs /\ LinkExists(x.ref) /\ links[x.ref].invoice = x.invoice /\ links[x.ref].amount = x.total
  /\ x.pc = "insert" => x.ref \in Refs /\ ProviderOf[x.ref] = x.provider
SendInv == \A g \in Issuers : SendHolds(g)

LEMMA CodeProvider ==
  ASSUME NEW p \in Providers, NEW i \in Invoices, NEW n \in 0..MaxAttempts-1
  PROVE  ProviderOf[CodeOf[p, i, n]] = p
<1>1. <<p, i, n>> \in DOMAIN CodeOf
  BY IssuingAssumption, ZenonT(30)
<1> QED BY <1>1, IssuingAssumption, ZenonT(30)

\* A code is a reference of the provider it was generated for.
LEMMA CodeStep ==
  ASSUME BillingTypeInv, NEW g \in Issuers, GenerateCode(g)
  PROVE  /\ issues[g].pc = "code" /\ issues'[g].pc = "insert" /\ UNCHANGED storeVars
         /\ issues'[g].invoice = issues[g].invoice /\ issues'[g].provider = issues[g].provider
         /\ issues'[g].total = issues[g].total
         /\ issues'[g].ref \in Refs /\ ProviderOf[issues'[g].ref] = issues[g].provider
         /\ ~LinkExists(issues'[g].ref)
<1>1. issues \in [Issuers -> Issues] /\ issues[g].pc = "code" /\ UNCHANGED storeVars
  BY DEF BillingTypeInv, BillingInv, IssuingTypeOK, GenerateCode
<1>2. issues[g] \in Issues /\ issues[g].provider \in Providers /\ issues[g].invoice \in Invoices
  BY <1>1 DEF BillingTypeInv, IssuedInvoice, Issues
<1>3. PICK n \in 0..MaxAttempts-1 :
        LET c == CodeOf[issues[g].provider, issues[g].invoice, n]
        IN ~LinkExists(c) /\ issues' = [issues EXCEPT ![g] = [issues[g] EXCEPT !.pc = "insert", !.ref = c]]
  BY DEF GenerateCode, FreeAttempts
<1> DEFINE c == CodeOf[issues[g].provider, issues[g].invoice, n]
<1>4. c \in Refs
  BY <1>2, <1>3, CodeType
<1>5. ProviderOf[c] = issues[g].provider
  BY <1>2, <1>3, CodeProvider
<1>6. issues'[g] = [issues[g] EXCEPT !.pc = "insert", !.ref = c]
  BY <1>1, <1>3
<1> QED BY <1>1, <1>2, <1>3, <1>4, <1>5, <1>6 DEF Issues

LEMMA SendStep == BillingTypeInv /\ MoneyInv /\ SendInv /\ [Next]_vars => SendInv'
<1> SUFFICES ASSUME BillingTypeInv, MoneyInv, SendInv, [Next]_vars, NEW g \in Issuers PROVE SendHolds(g)'
  BY DEF SendInv
<1> DEFINE x == issues[g]
<1>0. /\ issues \in [Issuers -> Issues] /\ invoices \in [Invoices -> InvoiceRows] /\ links \in [Refs -> LinkRows]
      /\ SendHolds(g) /\ RowsSurvive
  BY RowsStep DEF BillingTypeInv, BillingInv, IssuingTypeOK, TypeInv, SettlementAloneTypeOK, StoreTypeOK, SendInv
<1>1. CASE issues'[g] = issues[g]
  <2>1. x.pc # "idle" => x.invoice \in Invoices /\ invoices'[x.invoice].status # "none"
    BY <1>0 DEF SendHolds, RowsSurvive
  <2>2. ASSUME x.pc = "sent", invoices'[x.invoice].status \in InvoiceStatus
        PROVE  /\ x.ref \in Refs /\ LinkExists(x.ref)' /\ links'[x.ref].invoice = x.invoice
               /\ links'[x.ref].amount = x.total
    <3>1. x.invoice \in Invoices /\ Remains(x.invoice) /\ InvoiceExists(x.invoice)
      BY <1>0, <2>1, <2>2 DEF SendHolds, RowsSurvive, Remains
    <3>2. x.ref \in Refs /\ LinkExists(x.ref) /\ links[x.ref].invoice = x.invoice /\ links[x.ref].amount = x.total
      BY <1>0, <2>2, <3>1 DEF SendHolds
    <3> QED BY <1>0, <1>1, <3>1, <3>2 DEF RowsSurvive, LinkExists
  <2>3. x.pc = "insert" => x.ref \in Refs /\ ProviderOf[x.ref] = x.provider
    BY <1>0 DEF SendHolds
  <2> QED BY <1>1, <2>1, <2>2, <2>3 DEF SendHolds, InvoiceExists, LinkExists
<1>2. CASE issues'[g].pc = "idle"
  BY <1>2 DEF SendHolds
<1>3. ASSUME issues'[g].pc \notin {"idle", "sent", "insert"}, issues[g].pc # "idle",
             issues'[g].invoice = issues[g].invoice, invoices' = invoices
      PROVE  SendHolds(g)'
  BY <1>0, <1>3 DEF SendHolds
<1>4. ASSUME NEW i \in Invoices, BeginSend(g, i) PROVE SendHolds(g)'
  <2>1. issues'[g].pc = "resolve" /\ issues'[g].invoice = i /\ invoices' = invoices /\ invoices[i].status = "UNPAID"
    BY <1>0, <1>4 DEF BeginSend, NoIssue, storeVars
  <2> QED BY <2>1 DEF SendHolds
<1>5. CASE Prepares(g)
  BY <1>3, <1>5 DEF Prepares
<1>6. CASE RefuseLink(g) \/ NoActiveLink(g) \/ MarkLinkStale(g)
  <2>1. x \in Issues
    BY <1>0
  <2>2. /\ issues'[g].pc \in {"stale", "code"} /\ issues[g].pc # "idle" /\ invoices' = invoices
        /\ issues'[g].invoice = issues[g].invoice
    BY <1>0, <1>6, <2>1 DEF RefuseLink, NoActiveLink, MarkLinkStale, Stage, storeVars, Issues
  <2> QED BY <1>3, <2>2
<1>7. CASE GenerateCode(g)
  <2>1. /\ x.pc = "code" /\ issues'[g].pc = "insert" /\ invoices' = invoices
        /\ issues'[g].invoice = x.invoice /\ issues'[g].provider = x.provider
        /\ issues'[g].ref \in Refs /\ ProviderOf[issues'[g].ref] = x.provider
    BY <1>7, CodeStep DEF storeVars
  <2> QED BY <1>0, <2>1 DEF SendHolds
<1>8. CASE ReuseLink(g)
  <2>1. PICK r \in Refs : /\ LinkExists(r) /\ links[r].invoice = x.invoice /\ links[r].amount = x.total
                          /\ issues' = [issues EXCEPT ![g].pc = "sent", ![g].ref = r]
    BY <1>8 DEF ReuseLink, LatestActive, ActiveLinks, LinksOf
  <2>2. /\ issues'[g].pc = "sent" /\ issues'[g].ref = r /\ issues'[g].invoice = x.invoice
        /\ issues'[g].total = x.total
    BY <1>0, <2>1 DEF Issues
  <2>3. invoices' = invoices /\ links' = links /\ x.pc # "idle"
    BY <1>8 DEF ReuseLink, storeVars
  <2> QED BY <1>0, <2>1, <2>2, <2>3 DEF SendHolds, LinkExists
<1>9. CASE InsertLink(g)
  <2>1. /\ issues'[g].pc = "sent" /\ issues'[g].ref = x.ref /\ issues'[g].invoice = x.invoice
        /\ issues'[g].total = x.total /\ x.pc = "insert" /\ invoices' = invoices
    BY <1>0, <1>9 DEF InsertLink, Stage, Issues
  <2>2. links' = [links EXCEPT ![x.ref] = [status |-> "ACTIVE", invoice |-> x.invoice, amount |-> x.total,
                    account |-> x.account, created |-> 1 + Cardinality(LinksOf(x.invoice))]]
    BY <1>9 DEF InsertLink, InsertLinkRow
  <2>3. x.ref \in Refs /\ x.invoice \in Invoices
    BY <1>0, <2>1 DEF SendHolds
  <2>4. links'[x.ref].status = "ACTIVE" /\ links'[x.ref].invoice = x.invoice /\ links'[x.ref].amount = x.total
    BY <1>0, <2>2, <2>3
  <2>5. links'[x.ref].status \in LinkStatus
    BY <2>4 DEF LinkStatus
  <2> QED BY <1>0, <2>1, <2>3, <2>4, <2>5 DEF SendHolds, LinkExists
<1> QED BY <1>1, <1>2, <1>4, <1>5, <1>6, <1>7, <1>8, <1>9, IssuerMoves DEF Moves, Reads

LEMMA SendStart == Init => SendInv
BY DEF Init, IssuingInit, NoIssue, SendInv, SendHolds

\* The QR a tenant gets with an invoice asks for the total on its image, whatever
\* editors, other issuers, settlements and restarts do between the two reads, as
\* long as the link is there.
THEOREM BillingQRMatchesImage == Spec => []QRMatchesInvoiceImage
<1>1. BillingTypeInv /\ MoneyInv /\ SendInv /\ [Next]_vars => (BillingTypeInv /\ MoneyInv /\ SendInv)'
  BY BillingNextType, NextMoney, SendStep
<1>2. BillingTypeInv /\ MoneyInv /\ SendInv => QRMatchesInvoiceImage
  <2> SUFFICES ASSUME MoneyInv, SendInv, NEW g \in Issuers, issues[g].pc = "sent",
                      issues[g].ref \in LinksOf(issues[g].invoice)
               PROVE  links[issues[g].ref].amount = issues[g].total
    BY DEF QRMatchesInvoiceImage
  <2>1. InvoiceExists(issues[g].invoice)
    BY DEF LinksOf, MoneyInv, ForeignKeys
  <2> QED BY <2>1 DEF SendInv, SendHolds
<1> QED BY <1>1, <1>2, BillingStarts, InitMoney, SendStart, PTL DEF Spec

-----------------------------------------------------------------------------
(* One send at a time reuses the link there is.                               *)

AtMostOne(S) == \A x, y \in S : x = y

\* A link the payer can still be given, of this invoice and provider.
Reusable(r, i, p) == links[r].status = "ACTIVE" /\ links[r].invoice = i /\ ProviderOf[r] = p

\* There is one of them at most.  An issuer that is about to make a link has
\* found none, or the one it is about to mark STALE.
OneReusable ==
  \A q, r \in Refs : links[q].status = "ACTIVE" /\ Reusable(r, links[q].invoice, ProviderOf[q]) => q = r
IssuerFound(g) ==
  LET x == issues[g]
  IN /\ x.pc = "stale" => \A r \in Refs : Reusable(r, x.invoice, x.provider) => r = x.ref
     /\ x.pc \in {"code", "insert"} => \A r \in Refs : ~Reusable(r, x.invoice, x.provider)
ReuseInv == OneReusable /\ \A g \in Issuers : IssuerFound(g)

\* What the latest ACTIVE link of one or none is.
LEMMA FoundOne ==
  ASSUME BillingTypeInv, OneReusable, NEW i \in Invoices, NEW p \in Providers
  PROVE  /\ \A r \in LatestActive(i, p) : r \in Refs /\ \A q \in Refs : Reusable(q, i, p) => q = r
         /\ LatestActive(i, p) = {} => \A q \in Refs : ~Reusable(q, i, p)
<1>1. links \in [Refs -> LinkRows]
  BY DEF BillingTypeInv, BillingInv, TypeInv, SettlementAloneTypeOK, StoreTypeOK
<1>2. ActiveLinks(i, p) = {r \in Refs : Reusable(r, i, p)}
  BY DEF ActiveLinks, LinksOf, LinkExists, LinkStatus, Reusable
<1>3. \A q, r \in Refs : Reusable(q, i, p) /\ Reusable(r, i, p) => q = r
  BY DEF OneReusable, Reusable
<1>4. \A r \in Refs : links[r].created <= links[r].created
  BY <1>1 DEF LinkRows
<1>5. \A r \in Refs : Reusable(r, i, p) => r \in LatestActive(i, p)
  BY <1>2, <1>3, <1>4 DEF LatestActive
<1> QED BY <1>2, <1>3, <1>5 DEF LatestActive

\* As long as no link is made, what an issuer found stays so.
LEMMA FoundStays ==
  ASSUME BillingTypeInv, ReuseInv, ActiveStays, NEW g \in Issuers, Moves(g)
  PROVE  IssuerFound(g)'
<1> DEFINE x == issues[g]
<1>0. issues \in [Issuers -> Issues] /\ x \in Issues /\ IssuerFound(g)
      /\ x.provider \in Providers /\ (x.pc # "idle" => x.invoice \in Invoices)
  BY DEF BillingTypeInv, BillingInv, IssuingTypeOK, IssuedInvoice, ReuseInv, Issues
<1>1. \A r \in Refs : \A i, p : links'[r].status = "ACTIVE" /\ links'[r].invoice = i /\ ProviderOf[r] = p => Reusable(r, i, p)
  BY DEF ActiveStays, Reusable
<1>2. CASE issues'[g] = x
  BY <1>0, <1>1, <1>2 DEF IssuerFound, Reusable
<1>3. CASE issues'[g].pc \notin {"stale", "code", "insert"}
  BY <1>3 DEF IssuerFound
<1>4. ASSUME NEW i \in Invoices, BeginSend(g, i) PROVE IssuerFound(g)'
  <2>1. issues'[g].pc = "resolve"
    BY <1>0, <1>4 DEF BeginSend, NoIssue
  <2> QED BY <1>3, <2>1
<1>5. CASE Prepares(g)
  BY <1>3, <1>5 DEF Prepares
<1>6. CASE ReuseLink(g) \/ InsertLink(g)
  <2>1. issues'[g].pc = "sent"
    BY <1>0, <1>6 DEF ReuseLink, InsertLink, Stage, Issues
  <2> QED BY <1>3, <2>1
<1>7. CASE RefuseLink(g)
  <2>1. PICK r \in LatestActive(x.invoice, x.provider) :
          issues' = [issues EXCEPT ![g] = [x EXCEPT !.pc = "stale", !.ref = r]]
    BY <1>7 DEF RefuseLink
  <2>2. issues'[g].pc = "stale" /\ issues'[g].ref = r /\ issues'[g].invoice = x.invoice
        /\ issues'[g].provider = x.provider
    BY <1>0, <2>1 DEF Issues
  <2>3. \A q \in Refs : Reusable(q, x.invoice, x.provider) => q = r
    BY <1>0, <1>7, FoundOne DEF RefuseLink, ReuseInv
  <2> QED BY <1>1, <2>2, <2>3 DEF IssuerFound, Reusable
<1>8. ASSUME issues'[g].pc \in {"code", "insert"}, issues'[g].invoice = x.invoice,
             issues'[g].provider = x.provider,
             \A r \in Refs : Reusable(r, x.invoice, x.provider) => links'[r].status # "ACTIVE"
      PROVE  IssuerFound(g)'
  BY <1>1, <1>8 DEF IssuerFound, Reusable
<1>9. CASE NoActiveLink(g)
  <2>1. issues'[g].pc = "code" /\ issues'[g].invoice = x.invoice /\ issues'[g].provider = x.provider
    BY <1>0, <1>9 DEF NoActiveLink, Stage, Issues
  <2>2. \A r \in Refs : ~Reusable(r, x.invoice, x.provider)
    BY <1>0, <1>9, FoundOne DEF NoActiveLink, Stage, ReuseInv
  <2> QED BY <1>8, <2>1, <2>2
<1>10. CASE MarkLinkStale(g)
  <2>1. /\ issues'[g].pc = "code" /\ issues'[g].invoice = x.invoice /\ issues'[g].provider = x.provider
        /\ x.pc = "stale"
    BY <1>0, <1>10 DEF MarkLinkStale, Stage, Issues
  <2>2. links \in [Refs -> LinkRows]
    BY DEF BillingTypeInv, BillingInv, TypeInv, SettlementAloneTypeOK, StoreTypeOK
  <2>3. ASSUME NEW r \in Refs, Reusable(r, x.invoice, x.provider) PROVE links'[r].status # "ACTIVE"
    <3>1. r = x.ref /\ r \in LinksOf(x.invoice)
      BY <1>0, <2>1, <2>3 DEF IssuerFound, Reusable, LinksOf, LinkExists, LinkStatus
    <3> QED BY <1>10, <2>2, <3>1 DEF MarkLinkStale, UpdatePaymentLinkStatus, LinkRows
  <2> QED BY <1>8, <2>1, <2>3
<1>11. CASE GenerateCode(g)
  <2>1. /\ x.pc = "code" /\ issues'[g].pc = "insert"
        /\ issues'[g].invoice = x.invoice /\ issues'[g].provider = x.provider
    BY <1>11, CodeStep
  <2> QED BY <1>0, <1>8, <2>1 DEF IssuerFound
<1> QED BY <1>2, <1>3, <1>4, <1>5, <1>6, <1>7, <1>9, <1>10, <1>11 DEF Moves, Reads

LEMMA ReuseStep ==
  ASSUME AtMostOne(Issuers), BillingTypeInv, MoneyInv, SendInv, ReuseInv, [Next]_vars
  PROVE  ReuseInv'
<1>1. \A g \in Issuers : Moves(g)
  BY IssuerMoves
<1>2. CASE ActiveStays
  <2>1. OneReusable'
    BY <1>2 DEF ReuseInv, OneReusable, Reusable, ActiveStays
  <2> QED BY <1>1, <1>2, <2>1, FoundStays DEF ReuseInv
<1>3. ASSUME NEW g \in Issuers, InsertLink(g) PROVE ReuseInv'
  <2> DEFINE x == issues[g]
  <2>0. issues \in [Issuers -> Issues] /\ links \in [Refs -> LinkRows] /\ x \in Issues
    BY DEF BillingTypeInv, BillingInv, IssuingTypeOK, TypeInv, SettlementAloneTypeOK, StoreTypeOK
  <2>1. x.pc = "insert" /\ issues'[g].pc = "sent"
    BY <1>3, <2>0 DEF InsertLink, Stage, Issues
  <2>2. links' = [links EXCEPT ![x.ref] = [status |-> "ACTIVE", invoice |-> x.invoice, amount |-> x.total,
                    account |-> x.account, created |-> 1 + Cardinality(LinksOf(x.invoice))]]
    BY <1>3 DEF InsertLink, InsertLinkRow
  <2>3. x.ref \in Refs /\ ProviderOf[x.ref] = x.provider
    BY <2>1 DEF SendInv, SendHolds
  <2>4. \A r \in Refs : ~Reusable(r, x.invoice, x.provider)
    BY <2>1 DEF ReuseInv, IssuerFound
  <2>5. links'[x.ref].status = "ACTIVE" /\ links'[x.ref].invoice = x.invoice
        /\ \A r \in Refs \ {x.ref} : links'[r] = links[r]
    BY <2>0, <2>2, <2>3
  <2>6. OneReusable'
    BY <2>3, <2>4, <2>5 DEF ReuseInv, OneReusable, Reusable
  <2>7. \A h \in Issuers : IssuerFound(h)'
    BY <2>1 DEF AtMostOne, IssuerFound
  <2> QED BY <2>6, <2>7 DEF ReuseInv
<1> QED BY <1>2, <1>3, RowsStep

LEMMA ReuseStart == Init => ReuseInv
<1> SUFFICES ASSUME Init PROVE ReuseInv
  OBVIOUS
<1>1. OneReusable
  BY DEF Init, FirstLinksOnly, OneReusable, Reusable, LinkExists, LinkStatus
<1>2. \A g \in Issuers : IssuerFound(g)
  BY DEF Init, IssuingInit, NoIssue, IssuerFound
<1> QED BY <1>1, <1>2 DEF ReuseInv

\* An invoice that is sent again carries the link it was sent with: while sends do
\* not overlap, no two ACTIVE links of a provider ask for the same money, whatever
\* the editors, the settlements and the provider configuration do.  Two sends at
\* once may both find no link.
THEOREM BillingLinkReused == AtMostOne(Issuers) => (Spec => []ActiveLinkIsReused)
<1> SUFFICES ASSUME AtMostOne(Issuers) PROVE Spec => []ActiveLinkIsReused
  OBVIOUS
<1> DEFINE I == BillingTypeInv /\ MoneyInv /\ SendInv /\ ReuseInv
<1>1. I /\ [Next]_vars => I'
  BY BillingNextType, NextMoney, SendStep, ReuseStep
<1>2. I => ActiveLinkIsReused
  BY DEF ReuseInv, OneReusable, Reusable, ActiveLinkIsReused
<1>3. Init => I
  BY BillingStarts, InitMoney, SendStart, ReuseStart
<1> HIDE DEF I
<1> QED BY <1>1, <1>2, <1>3, PTL DEF Spec

-----------------------------------------------------------------------------
(* What editors leave behind when nothing fails.                              *)

LEMMA FaultsGrow == ASSUME [Next]_vars PROVE faults' = faults \/ faults' = faults + 1
<1>1. CASE Settlement
  BY <1>1 DEF Settlement, SettlementNext, Progress, MakeTransfer, DeliverWebhook, StartReconcile,
     NextTransaction, SkipRecorded, CheckEvent, ReadLink, RecordEvent, RecordRejected, ReloadInvoice,
     InvoiceGone, SettleInvoice, MarkLinkPaid, Notify, MarkFails, StatementFails, WorkerLost, storeVars, Fault
<1>2. CASE Editing
  BY <1>2 DEF Editing, EditingNext, BeginCreate, BeginRecalculate, Recalculate, BeginImage, BeginPay,
     BeginUnpay, BeginDelete, Begin, InsertInvoice, InsertDuplicate, UpdateInvoice, MarkLinksStale,
     ChangeStatus, DeleteInvoice, TargetGone, EditFails, storeVars, Fault
<1>3. CASE Issuing
  BY <1>3 DEF Issuing, IssuingNext, BeginSend, ResolveProvider, ReadCredentials, NoCredentials,
     ReuseLink, RefuseLink, NoActiveLink, MarkLinkStale, GenerateCode, CodesExhausted, InsertLink,
     InsertRejected, SendQR, IssueFails, SaveConfig, DeleteConfig, Configure, MarkProviderStale,
     ConfigFails, storeVars, Fault
<1>4. CASE Restart \/ UNCHANGED vars
  BY <1>4 DEF Restart, Fault, vars
<1> QED BY <1>1, <1>2, <1>3, <1>4 DEF Next

\* What a step does to one editor: nothing, an end or a failure, an upsert, a
\* row to write that was decided on an unpaid invoice, or a write of its own.
Decides(e) ==
  /\ edits'[e].invoice \in Invoices /\ invoices[edits'[e].invoice].status # "PAID"
  /\ invoices' = invoices
EditorMoves(e) ==
  \/ edits'[e] = edits[e]
  \/ edits'[e].pc \notin {"update", "delete", "stale"} /\ edits[e].pc # "stale"
  \/ faults' = faults + 1 /\ edits'[e].pc = "idle"
  \/ Decides(e) /\ edits[e].pc # "stale"
  \/ UpdateInvoice(e) \/ MarkLinksStale(e)

LEMMA EditorStep == ASSUME BillingTypeInv, [Next]_vars, NEW e \in Editors PROVE EditorMoves(e)
<1>0. edits \in [Editors -> Edits]
  BY DEF BillingTypeInv, BillingInv, EditingInv, EditingTypeOK
<1>1. CASE edits' = edits
  BY <1>1 DEF EditorMoves
<1>2. CASE Restart
  BY <1>2 DEF EditorMoves, Restart, NoEdit, Fault
<1>3. ASSUME NEW d \in Editors, EditFails(d) PROVE EditorMoves(e)
  BY <1>0, <1>3 DEF EditorMoves, EditFails, End, NoEdit, Fault
<1>4. ASSUME NEW d \in Editors, End(d), edits[d].pc # "stale" PROVE EditorMoves(e)
  BY <1>0, <1>4 DEF EditorMoves, End, NoEdit
<1>5. ASSUME NEW d \in Editors, NEW i \in Invoices, NEW row, NEW pc \in {"insert", "status"},
             Goto(d, pc, i, row), edits[d].pc # "stale"
      PROVE  EditorMoves(e)
  BY <1>0, <1>5 DEF EditorMoves, Goto
<1>6. ASSUME NEW d \in Editors, NEW i \in Invoices, NEW row, NEW pc,
             Goto(d, pc, i, row), edits[d].pc # "stale", invoices[i].status # "PAID", invoices' = invoices
      PROVE  EditorMoves(e)
  BY <1>0, <1>6 DEF EditorMoves, Goto, Decides
<1>7. ASSUME NEW d \in Editors, NEW s, NEW a, Upsert(d, s, a), edits[d].pc # "stale", invoices' = invoices
      PROVE  EditorMoves(e)
  BY <1>4, <1>5, <1>6, <1>7 DEF Upsert, InSlot, FreshIds
<1>8. ASSUME NEW d \in Editors, NEW i \in Invoices, NEW a \in Amounts, BeginRecalculate(d, i, a)
      PROVE  EditorMoves(e)
  BY <1>0, <1>8 DEF EditorMoves, BeginRecalculate
<1>9. ASSUME NEW d \in Editors, NEW i \in Invoices, BeginImage(d, i) \/ BeginPay(d, i) \/ BeginUnpay(d, i) \/ BeginDelete(d, i)
      PROVE  EditorMoves(e)
  <2>1. CASE BeginPay(d, i) \/ BeginUnpay(d, i)
    BY <1>5, <2>1 DEF BeginPay, BeginUnpay, Begin
  <2>2. CASE BeginImage(d, i)
    BY <1>6, <2>2 DEF BeginImage, Begin, storeVars
  <2>3. CASE BeginDelete(d, i)
    BY <1>6, <2>3 DEF BeginDelete, Begin, storeVars
  <2> QED BY <1>9, <2>1, <2>2, <2>3
<1>10. ASSUME NEW d \in Editors, UpdateInvoice(d) \/ MarkLinksStale(d) PROVE EditorMoves(e)
  <2>1. CASE d # e
    BY <1>0, <1>10, <2>1 DEF EditorMoves, UpdateInvoice, MarkLinksStale, End
  <2> QED BY <1>10, <2>1 DEF EditorMoves
<1>11. CASE Editing
  <2>1. CASE \E d \in Editors : InsertInvoice(d) \/ InsertDuplicate(d) \/ ChangeStatus(d) \/ DeleteInvoice(d) \/ TargetGone(d)
    BY <1>4, <2>1 DEF InsertInvoice, InsertDuplicate, ChangeStatus, DeleteInvoice, TargetGone
  <2>2. CASE \E d \in Editors, s \in Slots, a \in Amounts : BeginCreate(d, s, a)
    BY <1>7, <2>2 DEF BeginCreate, storeVars
  <2>3. CASE \E d \in Editors : Recalculate(d)
    BY <1>7, <2>3 DEF Recalculate, storeVars
  <2> QED BY <1>3, <1>8, <1>9, <1>10, <1>11, <2>1, <2>2, <2>3 DEF Editing, EditingNext
<1>12. CASE Settlement \/ Issuing \/ UNCHANGED vars
  BY <1>1, <1>12 DEF Settlement, Issuing, editVars, vars
<1> QED BY <1>2, <1>11, <1>12 DEF Next

\* A link that can be reused asks for the invoice's total, or the update that
\* set the total has yet to mark it STALE.
Matches(r) ==
  LET i == links[r].invoice
  IN \/ links[r].amount = invoices[i].total
     \/ \E e \in Editors : edits[e].pc = "stale" /\ edits[e].invoice = i /\ edits[e].row.total = invoices[i].total
MatchInv == faults = 0 => \A r \in Refs : links[r].status = "ACTIVE" => Matches(r)

LEMMA MatchStep ==
  ASSUME Issuers = {}, BillingTypeInv, MoneyInv, MoneyInv', MatchInv, [Next]_vars
  PROVE  MatchInv'
<1> SUFFICES ASSUME faults' = 0, NEW r \in Refs, links'[r].status = "ACTIVE" PROVE Matches(r)'
  BY DEF MatchInv
<1>0. /\ links \in [Refs -> LinkRows] /\ invoices \in [Invoices -> InvoiceRows] /\ edits \in [Editors -> Edits]
      /\ faults \in Nat
  BY DEF BillingTypeInv, BillingInv, EditingInv, EditingTypeOK, TypeInv, SettlementAloneTypeOK, StoreTypeOK
<1>1. faults = 0 /\ faults' # faults + 1
  BY <1>0, FaultsGrow
<1>2. links'[r] = links[r] /\ TotalsStay /\ RowsSurvive
  BY RowsStep DEF ActiveStays
<1>3. PICK i \in Invoices : i = links[r].invoice /\ Remains(i) /\ InvoiceExists(i)
  BY <1>2 DEF MoneyInv, ForeignKeys, LinkExists, LinkStatus, InvoiceExists, Remains
<1>4. ASSUME NEW e \in Editors, UpdateInvoice(e), edits[e].invoice = i PROVE Matches(r)'
  <2>1. /\ edits'[e].pc = "stale" /\ edits'[e].invoice = i /\ edits'[e].row = edits[e].row
        /\ invoices'[i] = edits[e].row
    BY <1>0, <1>4 DEF UpdateInvoice, UpdateInvoiceRow, Edits
  <2> QED BY <1>2, <1>3, <2>1 DEF Matches
<1>5. ASSUME invoices'[i].total = invoices[i].total PROVE Matches(r)'
  <2>1. Matches(r)
    BY <1>1, <1>2 DEF MatchInv
  <2>2. CASE links[r].amount = invoices[i].total
    BY <1>2, <1>3, <1>5, <2>2 DEF Matches
  <2>3. ASSUME NEW e \in Editors, edits[e].pc = "stale", edits[e].invoice = i, edits[e].row.total = invoices[i].total
        PROVE  Matches(r)'
    <3>1. edits'[e] = edits[e] \/ MarkLinksStale(e)
      BY <1>1, <2>3, EditorStep DEF EditorMoves, UpdateInvoice
    <3>2. CASE edits'[e] = edits[e]
      BY <1>2, <1>3, <1>5, <2>3, <3>2 DEF Matches
    <3>3. CASE MarkLinksStale(e)
      <4>1. r \in LinksOf(i)
        BY <1>2, <1>3 DEF LinksOf, LinkExists, LinkStatus
      <4>2. links[r].amount = invoices[i].total
        BY <1>0, <1>2, <2>3, <3>3, <4>1 DEF MarkLinksStale, MarkStaleByAmount, LinkRows
      <4> QED BY <2>2, <4>2
    <3> QED BY <3>1, <3>2, <3>3
  <2> QED BY <1>3, <2>1, <2>2, <2>3 DEF Matches
<1> QED BY <1>2, <1>3, <1>4, <1>5 DEF TotalsStay

LEMMA MatchStart == Init => MatchInv
<1> SUFFICES ASSUME Init, NEW r \in Refs, links[r].status = "ACTIVE" PROVE links[r].amount = invoices[links[r].invoice].total
  BY DEF MatchInv, Matches
<1>1. PICK live \in SUBSET Invoices, total \in [Invoices -> Amounts] :
        /\ invoices = SeededInvoices(live, total)
        /\ \E issued \in [Refs -> live \cup {None}], asked \in [Refs -> Amounts] :
             links = SeededLinks(total, issued, asked)
  BY DEF Init, SeededStore
<1>2. PICK issued \in [Refs -> live \cup {None}], asked \in [Refs -> Amounts] :
        links = SeededLinks(total, issued, asked)
  BY <1>1
<1>3. issued[r] # None /\ asked[r] = total[issued[r]] /\ links[r].amount = asked[r] /\ links[r].invoice = issued[r]
  BY <1>2 DEF SeededLinks, NoLinkRow
<1>4. issued[r] \in live
  BY <1>3
<1> QED BY <1>1, <1>3, <1>4 DEF SeededInvoices

\* As long as no statement fails, no link keeps asking for an amount its invoice
\* has outgrown, however many editors overwrite it at once and settle or delete
\* it under each other: whoever set the total has still to mark it.  Links being
\* issued at the same time are left out: they may ask for what was read before.
THEOREM BillingLinksMatch == Issuers = {} => (Spec => [](faults = 0 => ActiveLinkMatchesTotal))
<1> SUFFICES ASSUME Issuers = {} PROVE Spec => [](faults = 0 => ActiveLinkMatchesTotal)
  OBVIOUS
<1> DEFINE I == BillingTypeInv /\ MoneyInv /\ MatchInv
<1>1. I /\ [Next]_vars => I'
  BY BillingNextType, NextMoney, MatchStep
<1>2. I => (faults = 0 => ActiveLinkMatchesTotal)
  BY DEF MatchInv, Matches, ActiveLinkMatchesTotal
<1>3. Init => I
  BY BillingStarts, InitMoney, MatchStart
<1> HIDE DEF I
<1> QED BY <1>1, <1>2, <1>3, PTL DEF Spec

-----------------------------------------------------------------------------
(* What one editor alone does to a PAID invoice.                              *)

\* What it overwrites or deletes was not PAID, and nobody pays meanwhile.
UnpaidTargets == \A e \in Editors : edits[e].pc \in {"update", "delete"} => invoices[edits[e].invoice].status # "PAID"

LEMMA UnpaidStep ==
  ASSUME Workers = {}, AtMostOne(Editors), BillingTypeInv, UnpaidTargets, [Next]_vars
  PROVE  UnpaidTargets'
<1> SUFFICES ASSUME NEW e \in Editors, edits'[e].pc \in {"update", "delete"}
             PROVE  invoices'[edits'[e].invoice].status # "PAID"
  BY DEF UnpaidTargets
<1>0. edits \in [Editors -> Edits]
  BY DEF BillingTypeInv, BillingInv, EditingInv, EditingTypeOK
<1>1. ASSUME NEW d \in Editors, InsertInvoice(d) \/ UpdateInvoice(d) \/ MarkLinksStale(d) \/ ChangeStatus(d) \/ DeleteInvoice(d)
      PROVE  FALSE
  BY <1>0, <1>1 DEF AtMostOne, InsertInvoice, UpdateInvoice, MarkLinksStale, ChangeStatus, DeleteInvoice, End, NoEdit, Edits
<1>2. invoices' = invoices
  BY <1>1, WritesOnly DEF Writes, MarkLinkStale, InsertLink, MarkProviderStale
<1>3. edits'[e] = edits[e] \/ Decides(e)
  BY <1>1, EditorStep DEF EditorMoves
<1> QED BY <1>2, <1>3 DEF UnpaidTargets, Decides

\* One editor and no settlement: a PAID invoice stays PAID until it is unpaid.
\* With two editors, or a payment that settles meanwhile, it may be overwritten.
THEOREM BillingPaidImmutable == Workers = {} /\ AtMostOne(Editors) => (Spec => PaidInvoiceImmutable)
<1> SUFFICES ASSUME Workers = {}, AtMostOne(Editors) PROVE Spec => PaidInvoiceImmutable
  OBVIOUS
<1> DEFINE I == BillingTypeInv /\ UnpaidTargets
           A == \A i \in Invoices : invoices[i].status = "PAID" /\ invoices'[i].status # "PAID" =>
                  \E e \in Editors : edits[e].pc = "status" /\ edits[e].invoice = i
<1>1. I /\ [Next]_vars => I'
  BY BillingNextType, UnpaidStep
<1>2. I /\ [Next]_vars => A
  <2> SUFFICES ASSUME BillingTypeInv, UnpaidTargets, [Next]_vars, NEW i \in Invoices,
                      invoices[i].status = "PAID", invoices'[i].status # "PAID"
               PROVE  \E e \in Editors : edits[e].pc = "status" /\ edits[e].invoice = i
    OBVIOUS
  <2>0. invoices \in [Invoices -> InvoiceRows]
    BY DEF BillingTypeInv, BillingInv, TypeInv, SettlementAloneTypeOK, StoreTypeOK
  <2>1. PICK e \in Editors : InsertInvoice(e) \/ UpdateInvoice(e) \/ ChangeStatus(e) \/ DeleteInvoice(e)
    BY WritesOnly DEF Writes, MarkLinksStale, MarkLinkStale, InsertLink, MarkProviderStale
  <2>2. edits[e].invoice = i
    BY <2>0, <2>1 DEF InsertInvoice, InsertInvoiceRow, UpdateInvoice, UpdateInvoiceRow, ChangeStatus,
       UpdateInvoiceStatus, DeleteInvoice, DeleteInvoiceRow
  <2>3. ~InsertInvoice(e)
    BY <2>2 DEF InsertInvoice, InsertInvoiceRow
  <2>4. ChangeStatus(e)
    BY <2>1, <2>2, <2>3 DEF UnpaidTargets, UpdateInvoice, DeleteInvoice
  <2> QED BY <2>2, <2>4 DEF ChangeStatus
<1>3. Init => I
  BY BillingStarts DEF Init, EditingInit, NoEdit, UnpaidTargets
<1>4. Spec => [][A]_vars
  <2> HIDE DEF I, A
  <2> QED BY <1>1, <1>2, <1>3, PTL DEF Spec
<1> QED BY <1>4 DEF PaidInvoiceImmutable
=============================================================================
