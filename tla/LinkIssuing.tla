---------------------------- MODULE LinkIssuing ----------------------------
(* Sending an invoice with a payment QR (deliverInvoiceToZalo calling         *)
(* CreatePreferredPaymentLinkForInvoice and CreatePaymentLinkForInvoice), and *)
(* the provider configuration handlers that invalidate links already sent.    *)
EXTENDS InvoiceStore

CONSTANTS
  Issuers,       \* goroutines sending an invoice
  Configurers,   \* goroutines saving or deleting a provider configuration
  CodeOf,        \* reference built for [provider, invoice, attempt]
  MaxAttempts,   \* maxOrderCodeAttempts, 5 in the code
  MaxAccounts    \* bound on how often credentials are saved

ASSUME IssuingAssumption ==
  /\ MaxAttempts \in Nat \ {0}
  /\ MaxAccounts \in Nat
  /\ CodeOf \in [Providers \X Invoices \X (0..MaxAttempts-1) -> Refs]
  /\ \A x \in DOMAIN CodeOf : ProviderOf[CodeOf[x]] = x[1]

VARIABLES
  issues,    \* what each issuer is doing
  configs    \* what each configurer is doing

issueVars == <<issues, configs>>

IssueStages == {"idle", "resolve", "credentials", "lookup", "stale", "code", "insert", "sent"}

Issues == [pc : IssueStages,
           invoice : Invoices \cup {None},
           total : Nat,                    \* the invoice total as read
           provider : Providers,
           account : Nat,                  \* the credentials as read
           ref : Refs \cup {None}]         \* link found, generated or sent

NoIssue == [pc |-> "idle", invoice |-> None, total |-> 0, provider |-> "payos",
            account |-> 0, ref |-> None]

Configs == [pc : {"idle", "stale"}, provider : Providers]
NoConfig == [pc |-> "idle", provider |-> "payos"]

IssuingTypeOK ==
  /\ issues \in [Issuers -> Issues]
  /\ configs \in [Configurers -> Configs]

IssuingInit ==
  /\ issues = [g \in Issuers |-> NoIssue]
  /\ configs = [c \in Configurers |-> NoConfig]

Stage(g, from, to) == issues[g].pc = from /\ issues' = [issues EXCEPT ![g].pc = to]
Give(g) == issues' = [issues EXCEPT ![g] = NoIssue]

-----------------------------------------------------------------------------
(* deliverInvoiceToZalo: a QR is made only for an invoice read as UNPAID.     *)

BeginSend(g, i) ==
  /\ issues[g].pc = "idle"
  /\ invoices[i].status = "UNPAID"
  /\ issues' = [issues EXCEPT ![g] = [NoIssue EXCEPT
                  !.pc = "resolve", !.invoice = i, !.total = invoices[i].total]]
  /\ UNCHANGED <<storeVars, configs>>

\* ResolvePreferredProvider: SePay when configured, else PayOS.
ResolveProvider(g) ==
  /\ issues[g].pc = "resolve"
  /\ \E p \in Providers :
       /\ Usable(p)
       /\ p = "payos" => credentials["sepay"] = 0
       /\ issues' = [issues EXCEPT ![g].pc = "credentials", ![g].provider = p]
  /\ UNCHANGED <<storeVars, configs>>

\* GetCredentials reads the provider's row again.
ReadCredentials(g) ==
  /\ issues[g].pc = "credentials"
  /\ Usable(issues[g].provider)
  /\ issues' = [issues EXCEPT ![g].pc = "lookup",
                              ![g].account = credentials[issues[g].provider]]
  /\ UNCHANGED <<storeVars, configs>>

\* Nothing usable: ErrPaymentCredentialsNotFound, the invoice goes out without QR.
NoCredentials(g) ==
  /\ \/ issues[g].pc = "resolve" /\ \A p \in Providers : ~Usable(p)
     \/ issues[g].pc = "credentials" /\ ~Usable(issues[g].provider)
  /\ Give(g)
  /\ UNCHANGED <<storeVars, configs>>

\* Mutant: the active link is reused whatever its amount.
ReuseLinkAnyAmount(g) ==
  /\ issues[g].pc = "lookup"
  /\ \E r \in LatestActive(issues[g].invoice, issues[g].provider) :
       issues' = [issues EXCEPT ![g].pc = "sent", ![g].ref = r]
  /\ UNCHANGED <<storeVars, configs>>

\* CreatePaymentLinkForInvoice: reuse the active link if its amount is right.
ReuseLink(g) ==
  /\ issues[g].pc = "lookup"
  /\ \E r \in LatestActive(issues[g].invoice, issues[g].provider) :
       /\ links[r].amount = issues[g].total
       /\ issues' = [issues EXCEPT ![g].pc = "sent", ![g].ref = r]
  /\ UNCHANGED <<storeVars, configs>>

RefuseLink(g) ==
  /\ issues[g].pc = "lookup"
  /\ \E r \in LatestActive(issues[g].invoice, issues[g].provider) :
       /\ links[r].amount # issues[g].total
       /\ issues' = [issues EXCEPT ![g].pc = "stale", ![g].ref = r]
  /\ UNCHANGED <<storeVars, configs>>

\* Mutant: a new link is made without looking for an active one.
NoActiveLinkUnchecked(g) == Stage(g, "lookup", "code") /\ UNCHANGED <<storeVars, configs>>

\* Without an active link the provider is asked for a new one.
NoActiveLink(g) ==
  /\ Stage(g, "lookup", "code")
  /\ LatestActive(issues[g].invoice, issues[g].provider) = {}
  /\ UNCHANGED <<storeVars, configs>>

\* The link found is marked STALE by id, whatever has become of it since.
MarkLinkStale(g) ==
  /\ Stage(g, "stale", "code")
  /\ UpdatePaymentLinkStatus(issues[g].ref, issues[g].invoice, "STALE")
  /\ UNCHANGED <<invoices, events, credentials, faults, configs>>

\* The code of the first attempt that no stored link carries.
FreeAttempts(g) ==
  {n \in 0..MaxAttempts-1 : ~LinkExists(CodeOf[issues[g].provider, issues[g].invoice, n])}

GenerateCode(g) ==
  /\ issues[g].pc = "code"
  /\ \E n \in FreeAttempts(g) :
       /\ \A m \in FreeAttempts(g) : n <= m
       /\ issues' = [issues EXCEPT ![g].pc = "insert",
                       ![g].ref = CodeOf[issues[g].provider, issues[g].invoice, n]]
  /\ UNCHANGED <<storeVars, configs>>

\* Every attempt is taken: "could not generate unique ... code".
CodesExhausted(g) ==
  /\ issues[g].pc = "code"
  /\ FreeAttempts(g) = {}
  /\ Give(g)
  /\ UNCHANGED <<storeVars, configs>>

InsertLink(g) ==
  LET x == issues[g]
  IN /\ Stage(g, "insert", "sent")
     /\ LinkInsertable(x.ref, x.invoice)
     /\ InsertLinkRow(x.ref, x.invoice, x.total, x.account)
     /\ UNCHANGED <<invoices, events, credentials, faults, configs>>

\* The reference was taken meanwhile, or the invoice deleted.
InsertRejected(g) ==
  /\ issues[g].pc = "insert"
  /\ ~LinkInsertable(issues[g].ref, issues[g].invoice)
  /\ Give(g)
  /\ UNCHANGED <<storeVars, configs>>

\* The tenant gets the invoice image and the QR of the link.
SendQR(g) ==
  /\ issues[g].pc = "sent"
  /\ Give(g)
  /\ UNCHANGED <<storeVars, configs>>

\* A statement or the provider's API fails: the invoice goes out without QR.
IssueFails(g) ==
  /\ issues[g].pc # "idle"
  /\ Fault
  /\ Give(g)
  /\ UNCHANGED <<invoices, links, events, credentials, configs>>

-----------------------------------------------------------------------------
(* SaveSePayConfig, SavePayOSConfig, DeleteSePayConfig, DeletePayOSConfig:    *)
(* the credential row first, the links in a second statement.                 *)

Configure(c, p, v) ==
  /\ configs[c].pc = "idle"
  /\ credentials' = [credentials EXCEPT ![p] = v]
  /\ configs' = [configs EXCEPT ![c] = [pc |-> "stale", provider |-> p]]
  /\ UNCHANGED <<invoices, links, events, faults, issues>>

\* UpsertPaymentProviderCredential with another account's credentials.
SaveConfig(c, p) ==
  \E v \in 1..MaxAccounts : v > credentials[p] /\ Configure(c, p, v)

DeleteConfig(c, p) == credentials[p] > 0 /\ Configure(c, p, 0)

MarkProviderStale(c) ==
  /\ configs[c].pc = "stale"
  /\ MarkStaleByProvider(configs[c].provider)
  /\ configs' = [configs EXCEPT ![c] = NoConfig]
  /\ UNCHANGED <<invoices, events, credentials, faults, issues>>

ConfigFails(c) ==
  /\ configs[c].pc = "stale"
  /\ Fault
  /\ configs' = [configs EXCEPT ![c] = NoConfig]
  /\ UNCHANGED <<invoices, links, events, credentials, issues>>

-----------------------------------------------------------------------------
IssuingNext ==
  \/ \E g \in Issuers, i \in Invoices : BeginSend(g, i)
  \/ \E g \in Issuers : ResolveProvider(g) \/ ReadCredentials(g) \/ NoCredentials(g)
  \/ \E g \in Issuers : ReuseLink(g) \/ RefuseLink(g) \/ NoActiveLink(g) \/ MarkLinkStale(g)
  \/ \E g \in Issuers : GenerateCode(g) \/ CodesExhausted(g)
  \/ \E g \in Issuers : InsertLink(g) \/ InsertRejected(g)
  \/ \E g \in Issuers : SendQR(g)
  \/ \E g \in Issuers : IssueFails(g)
  \/ \E c \in Configurers, p \in Providers : SaveConfig(c, p)
  \/ \E c \in Configurers, p \in Providers : DeleteConfig(c, p)
  \/ \E c \in Configurers : MarkProviderStale(c)
  \/ \E c \in Configurers : ConfigFails(c)
=============================================================================
