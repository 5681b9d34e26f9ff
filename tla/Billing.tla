------------------------------ MODULE Billing ------------------------------
(* Payments, invoice editing and link issuing over the same tables.  The     *)
(* three components never call each other: they meet in the rows they read    *)
(* and write.                                                                 *)
EXTENDS PaymentSettlement, InvoiceEditing, LinkIssuing

vars == <<invoices, links, events, credentials, faults,
          bank, tasks, notices, edits, issues, configs>>

\* The links sent before the start carry their invoice's first code.
FirstLinksOnly ==
  \A r \in Refs : LinkExists(r) => r = CodeOf[ProviderOf[r], links[r].invoice, 0]

Init ==
  /\ SeededStore
  /\ FirstLinksOnly
  /\ SettlementInit
  /\ EditingInit
  /\ IssuingInit

Settlement == SettlementNext /\ UNCHANGED <<editVars, issueVars>>
Editing == EditingNext /\ UNCHANGED <<settleVars, issueVars>>
Issuing == IssuingNext /\ UNCHANGED <<settleVars, editVars>>

\* The server process dies and is started again: every request is lost, the
\* tables stay.
Restart ==
  /\ Fault
  /\ tasks' = [w \in Workers |-> Idle]
  /\ edits' = [e \in Editors |-> NoEdit]
  /\ issues' = [g \in Issuers |-> NoIssue]
  /\ configs' = [c \in Configurers |-> NoConfig]
  /\ UNCHANGED <<invoices, links, events, credentials, bank, notices>>

Next == Settlement \/ Editing \/ Issuing \/ Restart

Spec == Init /\ [][Next]_vars

-----------------------------------------------------------------------------
(* Properties of the composition.                                             *)

\* Tables and requests hold values of their types.
TypeOK == StoreTypeOK /\ SettlementTypeOK /\ EditingTypeOK /\ IssuingTypeOK

\* A room has one invoice per period, however many requests create, delete and
\* recalculate it at once: CreateInvoice's lookup can be stale, the unique
\* constraint behind its insert is not.
OneInvoicePerSlot ==
  \A i, j \in Invoices :
    InvoiceExists(i) /\ InvoiceExists(j) /\ SlotOf[i] = SlotOf[j] => i = j

\* A link that can still be reused asks for what the invoice now costs, except
\* while an UpdateInvoice is between its two statements.
ActiveLinkMatchesTotal ==
  \A r \in Refs :
    LET i == links[r].invoice
    IN links[r].status = "ACTIVE" =>
         \/ links[r].amount = invoices[i].total
         \/ \E e \in Editors : edits[e].pc = "stale" /\ edits[e].invoice = i

\* A PAID invoice stops being PAID only by UnpayInvoice: it is neither edited
\* (ErrPaidInvoiceImmutable) nor deleted (ErrPaidInvoiceDelete).
PaidInvoiceImmutable ==
  [][\A i \in Invoices :
       invoices[i].status = "PAID" /\ invoices'[i].status # "PAID" =>
         \E e \in Editors : edits[e].pc = "status" /\ edits[e].invoice = i]_vars

\* Two ACTIVE links of one provider never ask for the same invoice and amount:
\* the second delivery reuses the first one's link.
ActiveLinkIsReused ==
  \A q, r \in Refs :
    (/\ links[q].status = "ACTIVE" /\ links[r].status = "ACTIVE"
     /\ links[q].invoice = links[r].invoice /\ links[q].amount = links[r].amount
     /\ ProviderOf[q] = ProviderOf[r]) => q = r

\* The QR sent with an invoice asks for the total shown on its image.
QRMatchesInvoiceImage ==
  \A g \in Issuers :
    LET x == issues[g]
    IN x.pc = "sent" /\ x.ref \in LinksOf(x.invoice) =>
         links[x.ref].amount = x.total

\* A link that was settled stays PAID: only the deletion of its invoice takes it
\* away, or an issuer that read the link before it was settled.
PaidLinkStaysPaid ==
  [][\A r \in Refs : links[r].status = "PAID" =>
       \/ links'[r].status = "PAID"
       \/ invoices'[links[r].invoice].status = "deleted"
       \/ \E g \in Issuers : issues[g].pc = "stale" /\ issues[g].ref = r]_vars
=============================================================================
