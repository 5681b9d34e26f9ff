# Verification of quanly-phongtro in TLA+

The repository is the backend (Go, Postgres, Zalo bot, PayOS and SePay) and the
web client (React) of a boarding-house management system. This directory holds
TLA+ modules of the parts where several requests, callbacks and failures meet,
the TLC configurations that check them, and TLAPS proofs about them. Paths below
are relative to the repository root; the table of every definition and the lines
it stands for is `map` in `PROJECT.json`.

## 1. Inventory

### The server

| component | state | operations | meets others through |
|---|---|---|---|
| Payment settlement (`service/payment/payment_service.go`, `handler/payment`, `sepay_reconciliation_service.go`) | `payment_events`, `invoice_payment_links`, status and method of `invoices` | provider webhook, SePay pull, `ProcessVerifiedTransaction`, `processInvoicePayment` | the rows of invoices and links; the provider's retries; Zalo notifications |
| Payment links and provider configuration (`payment_service.go`, `payment_credential_service.go`, `sepay_provider.go`, `payos_provider.go`, `zalo_invoice_delivery.go`) | `invoice_payment_links`, `payment_provider_credentials` | resolve the provider, reuse / invalidate / create a link, generate a code, save or delete credentials | reads invoices; its links are what payments are matched with |
| Invoices (`service/invoice/invoice_service.go`, `repository/invoice/invoice_repository.go`, `zalo_webhook_handler.go`) | `invoices` | upsert, recalculate, pay, unpay, delete, transaction image | invalidates links, publishes `EventInvoiceChanged` |
| Revenue summaries (`service/revenue`, `repository/revenue`) | event bus, bounded channel, `house_revenue_summaries` | publish, enqueue, recalculate, stop | events of invoices and house costs; reads both tables |
| House operating costs (`service/house/house_cost_service.go`, `house_cost_cron.go`) | `house_costs` | create, update, generate from the previous month, monthly job | publishes `EventHouseCostChanged` |
| Authentication sessions (`service/auth`, `security/dpop.go`, `router/auth_middleware.go`) | sessions (refresh tokens, bound keys), e-mail codes | login, refresh, logout, proof of possession, one-time codes | every request of the client |
| Zalo invoice commands (`service/zalo/zalo_invoice_command_*.go`) | `pending_invoice_updates` | parse, ask for utilities, confirm, cancel, replace a pending command | calls the invoice service |
| Tenants and rooms (`service/tenant`, `service/room`) | `tenants`, `rooms`, accounts | register (capacity check), move, delete | rooms' status, accounts of tenants |
| Zalo bot and token job; HTTP handlers, router, rate limiter; images, geocoding, e-mail, logging, configuration | OA tokens, chat bindings; counters | intake and sending; decoding and authorising; rendering and I/O | all services |

### The web client (`frontend/src`)

| component | state | operations | meets others through |
|---|---|---|---|
| Invoices (`InvoiceView`, `invoiceData`, `EditInvoiceModal`, `InvoiceDetailModal`, `CreateInvoiceModal`, `QuickCreateInvoiceModal`) | list, filter, open forms, object URLs | load, pay before the server has, edit, create one or many, download pictures | the invoice endpoints; the shared room store |
| Houses, rooms, tenants and costs (`houseData`, `roomData`, `tenantData`, `houseCostData`, `useHouseCostEditor`, `CreateHouseModal`, `QuickSetRoomPriceModal`, `DashboardView`, `useRevenueTrend`) | stores, edits not saved yet | optimistic create / update / delete with roll-back, batches of requests, loads keyed by the chosen houses | each other's stores; the REST endpoints |
| Images and documents (`imageCompression*.ts`, `OptimizeImage`, `useUploadFiles`, `api/files`, `ImageLightboxModal`, `ProtectedFileImage`, `HouseDocumentsSection`, `TenantEditModal`, `EditRoomModal`) | one Web Worker and its jobs, cache of downloads, object URLs | compress, upload, view, keep or delete documents | worker messages; multipart requests |
| Session, settings, navigation (`AuthContext`, `api/client`, `utils/dpop`, the settings cards, `UpdateProfileModal`, `selectedData`, `Sidebar`) | access token, key pair in IndexedDB, `localStorage`, look of the page | load, refresh, login, logout, save accounts, change the look, select | cookies; every request's headers |

### What is hard here

* **No handler runs two statements in one transaction.** `SystemUpdateInvoiceStatusAndMethod`
  is an `UPDATE` and a `SELECT`, `UpdateInvoice` an `UPDATE` of the row and an `UPDATE` of its
  links, a settlement five statements, saving credentials two. Every pair has a gap where
  another request, a failure or a restart fits.
* **Events are best effort.** A change of invoices or costs is followed by an event in a
  goroutine of its own, a channel that drops what does not fit, and a worker that reads two
  tables in two statements; nothing recomputes a summary that was missed.
* **Copies.** Handlers read a row, decide, and write much later by primary key, without
  `WHERE status = ...`. The client does the same with what a render showed: closures over
  lists, months, files and selections that have changed when the answer comes.
* **At-least-once delivery from two sources.** A provider repeats a webhook until it is answered
  200; the SePay pull lists the same transfers under other transaction references.
* **Failures half way.** The audit event is stored before the invoice is settled, so a failure
  between them turns a retry into a no-op. A batch of the client has rows that were stored
  and rows that were not; an answer may be lost after the server wrote.
* **Answers out of order.** Two requests of a page, two compressions, two loads of one
  effect end in any order, and a spinner whose request was disowned must still end.
* **Boundaries.** Exact, under- and overpaid amounts; five order codes per invoice; quality
  steps that miss the floor; a full cache, a full list of images.

What makes each part correct, in one line each:

* money is *never made up* (a PAID link or a provider as payment method is backed by a recorded
  full payment), *never lost without a failure*, *told once*;
* a room has *one bill per period*; a PAID bill is *not edited*; a QR that can be re-used
  asks for *today's amount*;
* a *summary that is out of date is about to be refreshed* unless its event was lost;
  *creating a month's costs twice keeps the first*;
* a page shows, offers and sends what *belongs to the house, month and row it is for*; a
  form closes by itself only on *what is stored*; nothing is *created twice* by a second try;
* a *file the user was told is saved is kept*, an image is returned at the *first
  quality that fits, or at the floor*, no
  *object URL outlives its viewer*; *no job and no spinner waits* for what will not come;
* a page that says the user is signed in *works*, across reloads and lost answers.

`PROJECT.json` lists the hazards line by line, with the property that covers each.

## 2. Modules

```
InvoiceStore            tables and SQL statements, one atomic step each
  |- PaymentSettlement  webhooks, SePay pull, ProcessVerifiedTransaction
  |    implements PaymentLedger   what settlement promises
  |- InvoiceEditing     CreateInvoice, Pay, Unpay, Delete, transaction image
  |- LinkIssuing        deliverInvoiceToZalo, CreatePaymentLinkForInvoice, credentials
  |- Billing            the three of them over the same tables, and Restart
HouseCosts              CreateMonthlyCost, UpdateMonthlyCost, the monthly job
  |- RevenueSummary     event bus, bounded channel, RevenueWorker, summary table
InvoiceDesk  QuickEntry  InvoiceForm  EntityStore  CostEditor
  |- WebPages           the client's data pages
ImageCompression        the shared Web Worker: ImageOptimizer, ImageUpload
ImageEncoding  FileViewer  DocumentForms  HouseSetup  RoomSheet  KeyedLoads
Navigation  WebSession  SettingsCard  ProfileSettings  InvoiceImages
  |- WebClient          the rest of the client
OrderedLists            the client's lists without recursion: a query's order, Array.filter
MC*                     instances for TLC
PaymentSettlement_proof  SettlementRecovery_proof  Billing_proof  RevenueSummary_proof
WebPages_proof  WebClient_proof
                        theorems, of the module each is named after
WebImages_proof         theorems of WebClient's image parts, and its types as a whole
OrderedLists_proof      lemmas on lists, which the last three rest on
```

### Server

**InvoiceStore** holds the rows of one manager. `invoices` is a function from
invoice ids (fresh UUIDs, never used again: "none" before the insert, "deleted"
after) and `SlotOf` gives the (room, period) of the unique constraint
`uq_invoices_room_period`. `links` is a function from provider order references,
which the schema keeps unique per provider, to link rows; deleting an invoice
cascades to its links and clears the `invoice_id` of its events. `credentials` is the
version of the stored account, 0 when there is none. Operators with the names of the
repository's methods are the single SQL statements; `Fault` bounds (by `MaxFaults`) how
often one of them may fail.

**PaymentSettlement** gives every request a *worker* with a program counter.

| code | action |
|---|---|
| webhook verified (`payment_service.go:189-217`) | `DeliverWebhook`, with `Verifiable`: the stored credentials verify only transfers into the account they belong to |
| `ReconcileManager` lists, then loops | `StartReconcile`, `NextTransaction` |
| `CheckProviderEventExists` (223-229) | `CheckEvent`, `SkipRecorded` |
| `GetPaymentLinkByProviderOrderRefForManager` (231) | `ReadLink`: later steps use this copy |
| `CreatePaymentEvent` and the returns after it (237-258) | `RecordEvent`, `RecordRejected`, `AuditOnly` |
| `processInvoicePayment` (272-316) | `SettleInvoice`, `ReloadInvoice`, `InvoiceGone`, `MarkLinkPaid`, `MarkFails`, `Notify` |
| an error, a lost goroutine | `StatementFails`, `WorkerLost` |

Alone, the component also sees invoices disappear (`InvoiceDeleted`), as the manager's
`DeleteInvoice` makes them. `Finish` is the 200 of a webhook, `Reject` its 500; a
reconciliation goes on to its next transaction either way. A transfer has two transaction
references, one per source, so (transfer, source) plays the reference. `Workers` is a finite set
(`WorkersAssumption`): a server runs finitely many requests at a time.

**PaymentLedger** is the abstract specification: a transaction is recorded before anything
comes of it and told of once; an invoice is settled, and then its link closed, only for a recorded
transaction that pays it in full. `RefinesLedger` maps `payment_events` and `notified` to its
`book`, links to its `bills`, PAID invoices and links to `settled` and `paid`.

**InvoiceEditing** has editors that read, decide and write in separate steps. The arithmetic of a
bill is abstracted to an arbitrary total of `Amounts`: no property of these modules depends on how
the total came about. `UpdateInvoice` and `MarkLinksStale` are the two statements of the
repository's `UpdateInvoice`.

**LinkIssuing** follows one invoice from `deliverInvoiceToZalo` to the QR that is sent, with the
lookup of a free order code (`CodeOf`, `MaxAttempts`), and the configuration handlers that
replace credentials and then invalidate links.

**Billing** takes a step of one component at a time: they share nothing but the tables, so
their composition is the interleaving over the rows. `Restart` ends every request and keeps
the tables. Initial states: any subset of unpaid invoices and the links already sent for them (ACTIVE when
the amount is still right, STALE otherwise), no events yet.

**HouseCosts** gives each request and each run of the monthly job a *clerk*. A row keeps
two amounts, the sum of the costs that are carried into a new month (rent, wifi, cleaning)
and the sum of the others. `FindsNone` is the lookup before an insert, whose error the code
takes for "no record"; the unique key decides in `InsertCost` / `InsertCostDuplicate`. The
job (`BeginJob` ... `EndJob`) lists the previous month once and handles its houses one by one in
any order, as its `SELECT` has none. `Publish` starts the event's goroutine, counted per house and
month in `handlers`.

**RevenueSummary** adds the sum of PAID invoices per house and month (`paid`), the
channel, the worker and the summaries.

| code | action |
|---|---|
| Create / Pay / Unpay / DeleteInvoice and the `Publish` after them | `ChangeInvoices`, then `Publish` |
| `UpdateInvoice` fails after its first statement | `InvoiceHalfUpdated` |
| `processInvoicePayment` | `SettlePayment`: no event |
| `RevenueWorker.Enqueue` | `Enqueue`, `DropEvent` |
| `Start`'s loop, `processEvent` | `TakeEvent`, `ReadRevenue`, `ReadCost`, `UpsertSummary` |
| an error of a read or of the upsert | `ReadFails`, `UpsertFails` |
| `Stop` or a crash, then a start | `Restart` |

`missed` is a history variable: keys of which a change has no event on its way any
more (dropped, lost in a restart, failed on the way, never published). Taking an event of the
key removes it, because the worker reads the tables after that. The profit is revenue minus
cost in the same statement and is left out.

### Web client

A page or part is modelled with its requests as records or stages: what the handler captured
when it ran (a month, a filter, the list for a roll-back, the paths to keep), whether the server
has served it, and the handler's continuation as a separate action, so that everything the user
does, and every other answer, may come in between. Reads after an `await` use the current state
or the captured copy exactly as the closure in the code does. A request may fail before
the server served it or lose its answer afterwards.

The pages do not call one another, so **WebPages** and **WebClient** compose them by choice: a behaviour
is that of one page (`page`) or part (`part`), and the others rest. What they share on the server
is the subject of the modules above.

| module | code | state and steps |
|---|---|---|
| `InvoiceDesk` | `InvoiceView.tsx`, `invoiceData.tsx`, edit and detail modal | list and filter; fetches; a payment shown at once and taken back with the list of before (`PayFails`); the picked row and its form |
| `QuickEntry` | `QuickCreateInvoiceModal.tsx` | rooms and invoices loaded in two steps per house and period, readings typed into rows, one request per row on save |
| `InvoiceForm` | `CreateInvoiceModal.tsx` | the chain of effects house → rooms → room → readings and tenants, with suggestions in between |
| `EntityStore` | `houseData.tsx`, `roomData.tsx`, `tenantData.tsx` | temporary ids, optimistic rows, their confirmation and roll-back |
| `CostEditor` | `houseCostData.tsx`, `useHouseCostEditor.tsx`, `useDirtyConfirm.tsx`, `RevenueView.tsx` | costs typed, saved for a month, and the question before they are dropped |
| `ImageCompression` | `imageCompression.ts` | worker, `pendingJobs`, idle timer, errors; used by `ImageOptimizer` (`OptimizeImage.tsx`, `runQueue`) and `ImageUpload` (`useUploadFiles.tsx`, two runners and a cursor) |
| `ImageEncoding` | `imageCompressionCore.ts` | the quality loop over any encoder (a lower quality may give a larger output), and the callers' choice between the result and the original |
| `FileViewer` | `api/files.tsx`, `ImageLightboxModal.tsx`, `ProtectedFileImage.tsx` | bounded cache of downloads, lightbox with read-ahead, thumbnails, object URLs |
| `InvoiceImages` | `InvoiceView.tsx`, `InvoiceDetailModal.tsx` | the preview of a row, the loop of "download all", what the detail modal draws; views that are left and shown again |
| `DocumentForms` | `HouseDocumentsSection.tsx`, `TenantEditModal.tsx`, `EditRoomModal.tsx` and the server's update | files saved at once with the paths to keep |
| `HouseSetup` | `CreateHouseModal.tsx` | a house, then its rooms in parallel, the second try, and a form closed and opened again while a submission goes on; the store's provisional house and its refetch |
| `RoomSheet` | `QuickSetRoomPriceModal.tsx` | the sheet, "save all", copies and deletions of rooms |
| `KeyedLoads` | `DashboardView.tsx`, `useRevenueTrend.tsx` | effects that disown the previous load |
| `Navigation` | `selectedData.tsx`, `Sidebar.tsx`, mobile navigation | tab and house in the store, in `localStorage` and on the server |
| `WebSession` | `api/client.tsx`, `api/auth.tsx`, `utils/dpop.tsx`, `AuthContext.tsx`; the server's login, refresh, logout and middleware | tokens, cookies, key pair written in three steps, rotation of refresh tokens |
| `SettingsCard` | the SePay, PayOS and Zalo cards | status asked for on mount and after each change |
| `ProfileSettings` | `UpdateProfileModal.tsx`, `ThemeApplier` | looks applied before they are saved, whole profiles in every answer |

What a user does is bounded by `Max...` constants. Where the code has no guard and only a user who
waits is safe, the module has a flag, chosen in the initial state or recorded in history, for that user: `alone` (InvoiceDesk),
`patient` (QuickEntry), `mode` (InvoiceForm), `orderly` (EntityStore), `awaits` (CostEditor), `oneByOne`
(InvoiceImages), `hasty` (WebSession), `overlapped` (SettingsCard), `twice` and `outOfOrder` (ProfileSettings), `leftBusy` (DocumentForms).
The properties that need the flag name it. The behaviours without it are explored as well, under
the properties that do not (`SpinnerHasFetch`, `NothingVanishes`, `ViewerHolds`, `AllAskedOnce`, `BusyHasRequest`, `SpinnersEnd`); in `QuickEntry` only the
patient user is (`Patience`). What the flags exclude is listed in section 4.

Initial states of the client: fresh pages, any rows on the server. Of `RevenueSummary`: any
records of costs, `CreateHouse`'s all-zero ones among them, and summaries that agree with the tables.

## 3. Runs

| run | instance | question | result |
|---|---|---|---|
| `settle_faults` | 2 workers, 2 transfers, 1 invoice, 1 SePay link, 2 amounts, 1 failure | Can overlap and one failure anywhere invent, repeat or lose a payment? Is it the ledger? | `SettlementAloneTypeOK`, `NotifiedOncePerReference`, `OnlyFaultsLosePayments`, `SecondSourceRecovers`, `RefinesLedger` hold |
| `settle_serial` | 1 worker, 2 transfers, both providers, fairness | Is the guard on a PAID link enough when requests do not overlap, and does a full payment get settled? | `SettledOncePerWorker` (once, with one worker), `FullPaymentSettles` hold |
| `billing_backed` | 1 worker, 1 editor, 1 issuer, both providers | The backing of payments while invoices are edited, deleted and re-created and links are issued | `PaymentsBacked`, `PaidLinkStaysPaid` hold |
| `edit_race` | 2 editors, 2 ids for one slot | Concurrent create / recalculate / delete of one room's bill | `OneInvoicePerSlot`, `ActiveLinkMatchesTotal` hold |
| `requests_serial` | 1 editor, 1 issuer, 1 configurer, 1 failure | The editing and issuing rules the docs state, without two requests of one kind at once | `ActiveLinkIsReused`, `QRMatchesInvoiceImage`, `PaidInvoiceImmutable` hold |
| `revenue_follows` | 1 house, 2 months, 2 clerks, channel of 1, 1 failure or restart | Do overtaking events, a full channel, the worker's two reads or a failure leave a stale summary unnoticed? Do a manager and the job replace each other's record? | `TypeOK`, `NoSilentStaleness`, `CostRecordKept` hold |
| `revenue_catches_up` | the same with 1 clerk, invoices that change, fairness, no failure | Does the summary get there in the end? | `SummaryCatchesUp` holds |
| `web_pages` | 2 houses, 2 or 3 rooms, 2 invoices, 2 months, 2 requests under way | Do overlapping, failing and late answers put data under the wrong house, month or row? | `TypeOK`, `ListHolds`, `TicksHold`, `PayloadAgrees`, `StoreHolds`, `CostsHold`, `ClosesWhenAllStored` hold |
| `web_client` | 3 images and queues, 2 selections, 2 files and a cache of 1, 2 houses, 2 rooms, 1 tab, 3 pages and 4 tokens, 3 submissions of a house, 3 document requests, 2 pictures; fairness | Is a job, file, URL, session or selection lost, or a request repeated? Does every spinner end? | `TypeOK`, `NoJobLost`, `FirstFitOrFloor`, `ImagesHold`, `DocumentsHold`, `CreatedOnce`, `SheetHolds`, `RoomsAreCurrent`, `SelectionHolds`, `SignedInWorks`, `SessionHolds`, `StatusIsServer`, `ProfileHolds`, `SubmittedFilesComplete`, `SpinnersEnd` hold |
| `settle_lost_payment` | 1 worker, 1 failure | "a matched payment marks the invoice PAID" | `AcknowledgedMeansSettled` violated |
| `paid_overwritten` | 1 worker, 1 editor | "cannot edit a paid invoice" | `PaidInvoiceImmutable` violated |
| `papers_lost` | as `web_client` | "a file is stored at once" | `HousePapersKept` violated |

Several client properties are conjunctions, one part of the model each
(`ImagesHold`, `DocumentsHold`, `ListHolds`, ...): their named parts are defined and commented where
their state is.

**Bounds.** Two workers and two transfers are the smallest instance where a repeated delivery, an
overlap of both sources and an over- or underpayment all occur; one failure suffices for every
statement to be the one that fails. Two amounts are what the code distinguishes (exact / less /
more). One slot with two ids lets an invoice be deleted and re-created under the reference of its
predecessor. A third worker or a third amount adds no new guard outcome. `billing_backed` has
no failure, because `settle_faults` covers them, and one invoice id, because the theorem `BillingBacked` has
neither bound. In the revenue runs a channel of one event stands for the
1000 of the code, so that it is full early, and `MaxPending` (goroutines per house and month that
have not run yet) is 1; two months of one house are two keys, enough for events to overtake
each other and for costs to be carried over. In `revenue_follows` month 1 has earned a constant
amount, so a failed read still shows; changes of invoices are left to `revenue_catches_up` and
the theorem. In the client two requests of a kind are the fewest that overtake each other, and the third lets one
follow both; the caches and lists that hold 40 or 20 items in the code hold one or two, so that they
overflow; two houses and two rooms let a choice change under a request. The encoder's
starts, floors and step are the code's own; a size is just below the target, the target or just above it, chosen
afresh at each encoding.

Deadlock checking is off in all runs: with all transfers acknowledged and nobody
asking for anything the server rests, and so does a page whose user does nothing (or has reached a `Max...` bound).

**Fairness.** `SettlementFairness` (used by `settle_serial` for the liveness property only): weak
fairness of `Progress(w)`, as the Go scheduler runs every goroutine and database calls return; strong
fairness of a webhook's delivery: the provider repeats until it gets a 200, and in the code a
request never waits for a free goroutine, whereas here the bounded workers may be busy. Nothing makes
a tenant pay or a manager reconcile. The property is checked without failures: with one
`settle_lost_payment` shows that it is false. `Fairness` of `RevenueSummary` is weak fairness of each
clerk that has started, of each event goroutine and of the worker; nobody has to change anything, so
`SummaryCatchesUp` assumes that a key is left alone. The client's fairness (`FairSpec`) is that of
the browser: a request that was sent ends, with an answer or an error; the handler that awaits it goes
on; the worker answers or reports an error; storing a key ends. No user action is fair, and a
spinner may not rely on one. The modules of `SpinnersEnd` each state their part next to `Next`.

Symmetry is used only in runs without liveness properties.

## 4. Disagreements between code and documentation

Each violation run is a finding in `PROJECT.json` with the sentence it contradicts.

1. `settle_lost_payment`: the event is stored first, so a failure of the settlement makes the
   retry a no-op that is answered 200. `SecondSourceRecovers` shows what repairs it: the SePay
   pull, which PayOS does not have.
2. `paid_overwritten`: `UpdateInvoice` writes every column of a copy read earlier.
3. `papers_lost`: two uploads to one house, of identity cards and of contracts, each send the paths to keep as their render
   showed them; the later drops what the earlier stored. The room's form, which disables all
   its controls, keeps its promise (`RoomDocumentsKept`).

Known gaps of the same kinds, found with TLC on other instances of these modules and not kept as
runs of their own. On the server:

* A webhook and a reconciliation of one transfer that overlap both pass the PAID guard, which
  looks at the link as read before the event insert, and both notify (`payment_service.go:245-249`).
  `SettledOncePerWorker` therefore counts the requests that can overlap: it means once when they come
  one after the other, and its theorem says that nothing worse happens.
* The settlement compares the amount paid with the link's, not with the invoice's, and a STALE link is as
  good as an ACTIVE one (`payment_service.go:254-255`): a transfer for the former, smaller total settles
  the invoice.
* Two deliveries of one invoice both look for an active link before either has inserted one:
  `ActiveLinkIsReused` fails with two issuers (`payment_service.go:102`).
* A link for the former total inserted after an edit has invalidated the invoice's links stays
  ACTIVE: `ActiveLinkMatchesTotal` fails with an issuer and an editor (`payment_service.go:142`, against
  `invoice_repository.go:302`). The next send compares the amount and repairs it.
* A link built from credentials read before they were replaced is inserted after the invalidation
  and asks for money into the former account (`payment_service.go:97`).
* `CreatePaymentLinkForInvoice` marks the link it read STALE by id even if a webhook has marked it
  PAID since (`payment_service.go:108`). `PaidLinkStaysPaid` names this exception.
* `PaymentService` has no event bus: an invoice that a provider's payment marks PAID is not in the revenue
  summary until another change of the same house and month (`payment_service.go:274`).
* `generateUniqueSePayCode` gives up after five codes (`sepay_provider.go:203`) and STALE links keep theirs, so
  the sixth amount of an invoice goes out without a QR. The code's body is the first
  eight hexadecimal digits of a UUIDv7, a timestamp, so invoices of one batch share their codes.
* An invoice paid by hand keeps its ACTIVE link; a reconciliation then settles,
  re-labels and notifies it (`sepay_reconciliation_service.go:62`).

In the client:

* A change of page that the user declined stays in `pendingAction` and runs on a later Escape
  (`RevenueView.tsx:75`).
* `fetchOldIndex` has no cancellation: the readings of a room chosen before may arrive in the form of
  another (`CreateInvoiceModal.tsx:129`). `PayloadAgrees` is about a user who awaits them.
* Two tabs may store halves of different key pairs, and of two tabs that refresh with one token
  both get a session. The session properties are about one tab.
* A user who logs in while the load of the page is still refreshing is signed out by that load's
  catch (`AuthContext.tsx:26`).
* `RefreshToken` stores the new session and then revokes the old one, in the context of the request
  (`auth_service.go:320-326`, `auth_handler.go:211`): a failed statement, or a reload or lost connection that cancels the
  context between the two, leaves both alive, the new one in no cookie. It stays until it expires; no later logout
  reaches it. `SessionPerLogin` sets these sessions aside by name (`orphans`) and says that nothing else adds one.
* Two previews of invoices asked for at once leave the first one's object URL behind (`InvoiceView.tsx:100`).

## 5. Proofs

All theorems hold for every value of the constants, from the named `ASSUME`s of the modules only. Three of `Billing`
name in their statement which requests may overlap (`BillingLinkReused`, `BillingLinksMatch`, `BillingPaidImmutable`): without that premise
the code breaks the property, as section 4 says.
Besides types, these assumptions say what the program's data are: a room belongs to one house, the
recommended room of a house is a room of that house (`useRecommendedRoom` looks in its list only), a
reading stored before was typed for the period it is stored under (`EntryAssumption`,
`FormAssumption`), there is a month and no record of costs is the value that stands for none (`CostAssumption`,
`NoCostAssumption`). A job is known to the compression service by whom it is for (the number of a queue, the place in a
selection: `OptimizerAssumption`, `UploadAssumption`); no item is the value that stands for none, no thumbnail is named like the lightbox, a file chosen on this
device is no path on the server, and the cache holds at least one (`ViewerAssumption`). There are finitely many invoices,
rooms and tabs (`PicturesAssumption`, `SheetAssumption`, `SessionAssumption`). The rest are bounds of the model: they are
numbers, and each lets the page be opened or loaded at least once where it begins that way (`DeskAssumption`,
`DocumentAssumption`).

`PaymentSettlement_proof`

* `TypeCorrect`: `SettlementSafeSpec => []SettlementAloneTypeOK`. The type invariant is not
  inductive: a worker past "next" indexes `bank` with its transfer, which the type of `tasks` allows
  to be `None`. `TypeInv` adds `TasksHaveTransfers`.
* `Idempotent`: `SettlementSafeSpec => []NotifiedOncePerReference`. At most one notification is a
  fact about the history, so the invariant ties it to the present: `HandledOnce` (no two
  workers are past the event insert for one reference), `HandledIsRecorded`, `HandledIsUnnotified` and
  `NotifiedIsRecorded`. The insert's unique key excludes a second worker, and events are never
  removed. Steps that touch none of this share the lemma `QuietStep`.
* `Refinement`: `SettlementSafeSpec => RefinesLedger`, that is, initial states map to initial states and every step
  to a step of the ledger or a stutter. The steps that matter are decided on a copy of the
  link read earlier; `CopyInv` says why the copy is good: a link exists exactly as long as its invoice
  (`ForeignKeys`), the copy agrees with it while it is there (`CopyIsTrue`), only a payment in full is
  handled (`HandledPays`), and what is past its `UPDATE` is PAID unless deleted (`SettledIsPaid`).
* `Backed`: `SettlementSafeSpec => []PaymentsBacked`, with `BackedInv` (the event of what is
  handled is in the table).

`Billing_proof`, of the composition

* `BillingTypes`: `Spec => []TypeOK`. `OnePerSlot`: `Spec => []OneInvoicePerSlot`; the insert's guard and that no
  other step makes an invoice exist. `PaidStaysPaid`: `Spec => PaidLinkStaysPaid`.
* `BillingBacked`: `Spec => []PaymentsBacked`. Editors and issuers break `CopyIsTrue`: an invoice is deleted
  under a worker and its reference is given to another link. `MoneyInv` weakens it to copies whose
  invoice still exists (`CopyHolds`), which suffices because ids are not reused, and adds
  that the row an editor holds names a provider only as its invoice may (`RowsHold`).
* Four properties of what is sent and edited. `RowsStep` says once what any step does to the tables: ids are not
  reused, a link lives and keeps its amount as long as its invoice (`RowsSurvive`), a total changes only by `UpdateInvoice`
  (`TotalsStay`), and only `InsertLink` makes a link ACTIVE (`ActiveStays`).
  - `BillingQRMatchesImage`: `Spec => []QRMatchesInvoiceImage`, without any premise. The link found or made for an
    issuer is the invoice's and asks for the total it has read (`SendHolds`).
  - `BillingLinkReused`: `ActiveLinkIsReused` if there is at most one issuer (`AtMostOne(Issuers)`), for any number of everything
    else. `ReuseInv`: one ACTIVE link per invoice and provider, and an issuer on its way to
    the insert has found none.
  - `BillingLinksMatch`: `ActiveLinkMatchesTotal` while `faults = 0`, if there is no issuer. The property is not inductive: of
    two editors between their statements, the one that wrote the *present* total must still be
    there (`MatchInv`).
  - `BillingPaidImmutable`: `PaidInvoiceImmutable` for at most one editor and no worker; nobody pays between its look and its
    write (`UnpaidTargets`).

`RevenueSummary_proof`

* `TypeCorrect`: `SafeSpec => []TypeOK`, with `TypeInv` = `TypeOK` and that a clerk and a worker at work
  have a key.
* `NoneSilentlyStale`: `SafeSpec => []NoSilentStaleness`. The next `UpsertSummary` writes what the worker has read,
  which may be outdated, so `CoverInv` says of each key that its summary (`SummaryCovered`) and also the worker's half-read
  result (`WorkerCovered`) are right, or *covered* by an event on its way or by `missed`.
* `RecordsKept`: `SafeSpec => CostRecordKept`. Only two steps write `house_costs`, and the insert
  needs the row to be absent.

`SettlementRecovery_proof`, what a failure can do

* `LossesAreFailures`: the transactions whose event is stored while their link stays unpaid and no worker
  is at it (`Stranded`) are never more than the failures (`StrandedCosts`). From it follow
  `NothingLostWithoutFailure` (`OnlyFaultsLosePayments`) and `OneFailureIsRecovered`
  (`SecondSourceRecovers`: one failure never strands both references of a transfer). The inductive part `RecoveryInv`
  adds that a copy that says PAID is right and that a webhook is answered with 200 only after its
  event is stored. Each step adds at most one stranded transaction, and only `StatementFails` and `WorkerLost` do.
* `SettledAtMostPerWorker`: `SettledOncePerWorker`. Whoever has read the link before the first
  settlement may still settle it, and each worker at most once, so `OverlapInv` counts the notices of a link together with the workers
  that still hold an unpaid copy (`FewTold`).

`WebPages_proof`, of `WebPages!Spec` (a page steps, the others rest: lemma `PartsStep`)

* `ListIsTrue`: `ListHolds`. A user who awaits answers has either fetches or one change under way (`AloneInv`),
  and the list is described while each of them is: a payment shown but not made knows the list it was shown in, a
  fetch is for the filter chosen now or is disowned, an edit form is open only over its own save
  (`FormOpenInv`). That a spinner has a fetch (`SpinnerHasFetch`) needs no such user.
* `TicksAreStored`: `TicksHold`, and `SaveClosesComplete`: `ClosesWhenAllStored`. `CalmInv`: one load at most, for the
  house and period on screen; rows at rest are of that period; a request of the save carries its row as it
  still is; a row with a reading is ticked, on its way, or its failure is remembered (`errors`), which is
  what keeps the sheet open.
* `FormAgrees`: `PayloadAgrees`. `OrderInv` says whose turn it is in the chain of effects: what the form shows
  belongs to the room chosen now, or the fetch that will bring it is under way and its answer comes next.
* `StoresAreServer`: `StoreHolds`, for all three stores. `OrderlyInv`: a user who awaits answers has one request
  under way, and the list shows the server's rows with that request's change made (sent) or
  already the server's (served). A temporary id stands for a row that does not exist yet, and the
  lemmas about `Append`, `WithoutId` and `Replaced` say what each does to what a list shows; `ShownExactly`
  turns "every row and nothing else" into "each row once".
  `VanishInv` needs no such user: a house or tenant missing from its list is held by a deletion
  under way, which puts it back when it fails; a list on its way to the client has it. It does not hold for rooms, whose roll-back
  restores the whole list of before.
* `CostsAgree`: `CostsHold`. What was typed belongs to the month on screen (`EditsInv`, `MeantInv`), and the
  store holds the server's costs unless a change has been served whose answer is still to come, or costs are coming or
  were lost (`StoredInv`).
* `PagesTypes`: `TypeOK`, of any user. `PagesInv` puts together what the invariants above say without assuming a user who waits, and
  adds `CostTyped`, whose point is the requests: what an answer brings, however late, is costs or sums of houses and months there
  are, which is why it may go into the store as it is.

`WebClient_proof`, of `WebClient!Spec` (likewise)

* `HouseCreatedOnce`: of all submissions, also of forms closed meanwhile, only the one whose request found the code of the
  house free comes to send rooms, and it sends each once (`SetupInv`).
* `DashboardCurrent`: the view's own load is for the houses given now (`LoadInv`).
* `SelectionFollows`: `localStorage` holds the user's choice, and a deletion under way names
  what it will leave (`DeletionInv`, `RowsInv`).
* `FirstFitIsReturned`: the history `tried` holds the qualities from the start down to the present one, in steps of at most
  ten, and all but the last gave too large an output (`EncodingInv`). Nothing is assumed of the sizes.
* `SheetIsTrue`: store and server differ in a row only by what its request carries (`RowAgrees`), and a row asked for is
  sent, stored or refused (`RowAsked`).
* `CardIsServer`: while nothing overlapped, at most one of save, deletion and status is under way and
  the status asked for last is answered from the present configuration (`OneAtATime`).
* `ProfileIsServer`: `ProfileHolds`. The server's writes are in order, the newest answer is what the page's user is
  (`WritesInv`, `AnswersInv`), and a look that differs from the saved one has its one request under way
  (`LooksInv`).
* `SessionKept`: `SessionHolds`, and `HomePageIsSignedIn`: `SignedInWorks`. `TabInv`, per tab: a request is signed with the
  stored key, and a key is replaced only where none is stored (`KeysInv`); at most one session per login is live, one
  more half way through a rotation, those aside that an interrupted rotation left (`CountInv`); these are in no cookie,
  request or answer, so that none is rotated in its turn (`OrphanInv`); a home page holds the access token of the live session in the
  cookie, both bound to the stored key (`PageInv`, `SignedIn`).
* `DocumentFormsKeepWord`: `DocumentsHold`. A disabled control has its request (`DialogInv`); the room's form, which
  disables all of them, has at most one request and shows what is stored (`RoomInv`).

`WebImages_proof`, of `WebClient!Spec`; `ImagesInv` is the conjunction of the four parts below

* `CompressionLosesNoJob`: `NoJobLost`. The service by itself keeps its promise only while jobs are posted to a living worker
  (`ServiceOK`: what is pending was posted, and while something is posted the worker is alive), and a queue that is not done
  awaits its own job, from the worker or as a rejection on its way (`JobsThere`). The idle timer, a crash, an answer and a
  rejection each have a lemma that says what they do to whom else is waiting.
* `ImagesStayTrue`: `ImagesHold`.
  - the optimizer: every listed image has its own id and the object URLs it shows, and one that waits is in the queue of some run
    (`ListOK`, `Queued`), although images are removed, added and done again with another preset while queues go on;
  - the viewer: an item on screen has its URL, or its download is under way and the lightbox says so (`Told`, `Backed`,
    `ThumbOK`); the bounded cache names only downloads that have not failed (`Fine`), and forgets the oldest without anyone who waits for it
    losing it, because a waiting viewer holds its download itself. `Backed` must speak of the items read ahead too: turning
    shows one of them without asking again;
  - the pictures: a run of "download all" has asked once for each invoice it no longer has to ask for, and the one it awaits is its own
    (`RunOK`), the button is busy exactly while a run of this showing of the view is on (`ButtonOK`), and every object URL is the preview's or
    the run's (`OwnersOK`). That the pictures stay within the model's bound is itself an invariant: asked plus still to ask
    (`RoomOK`).
* `FormSendsAllFiles`: `SubmittedFilesComplete`. Of a selection, the files below the cursor are awaited or stored at their own place
  (`SelOK`); selections hand over their files when the last one ends, so the form has those of complete selections,
  each selection's in the order of choice (`FilesOK`, `InTurn`), and while one is open the form cannot be sent.
* `ClientTypes`: `TypeOK`, with `ClientInv`: `ImagesInv`, the invariants of `WebClient_proof`, and what those leave open
  (`StoresTyped`). Only the session needed a new idea: tokens are numbers below `MaxIssued`, so the tokens issued *plus one for each
  request that may still be answered with one* (`Owed`) stay within it (`TokensCounted`), and no page, key or cookie
  names a token that was not issued.

`OrderedLists_proof` holds what these and the stores need of lists: `InOrderEnumerates` (a finite set of numbers in
order, each once), `FilteredIs` (filtering keeps the chosen places, each once and in their order), `ListByIndex`.

**What proving changed in the model.** Two handlers were written as `CASE` with overlapping guards (`CostCallFails`, a
step of `FileViewer`): TLC takes the first that holds, TLA+ any, so no proof could go through. The
guards are now disjoint. Lists are filtered and put in order with `Filtered` and `InOrder` of `OrderedLists` instead of `SelectSeq`, folds and
the library's sort, whose recursion the provers cannot open. The type of `InvoiceDesk`'s list of requests allowed twice
as many as its steps ever make; the theorem has the true bound. That a link is settled once, which only
holds for one worker, became `SettledOncePerWorker`; `SecondSourceRecovers` states its premise of one failure itself,
which the constants of the run implied before.

**Only model-checked.**

* Liveness (`FullPaymentSettles`, `SummaryCatchesUp`, `SpinnersEnd`) and anything about `ENABLED`: out of TLAPS's reach.

Every invariant and every action property of the runs that pass is the subject of a theorem.

## 6. Not modelled

* The pending commands of the Zalo bot (`pending_invoice_updates`): one row per chat that a confirmation turns into
  the editing and issuing modelled here; the rest of that component is text.
* The capacity check of `tenant_service.go:139` and the accounts of tenants; one-time codes
  with their counters, expiry of tokens, password changes, requests of one tab that share one
  `refreshTokenPromise`.
* `CancelPaymentLink` and the CANCELLED status: only tests call it.
* Signature schemes and message formats of the providers: reduced to `Verifiable`.
* Deleting a house with its rooms, costs and summaries on the server; the revenue model's houses stay.
* The monthly job's calendar (which months it is run for): any two consecutive months.
* Bill arithmetic, rendering of images, wording of messages, the rate limiter, geocoding, e-mail.
  Sending to Zalo is best effort and its failure changes no state.
* In the client: the blur check of a house's code, recommendations, the cards' reconcile and copy
  buttons, the transaction image of the detail modal, totals over lists, zoom and pan, layout.
* Of `GenerateCode`: SePay's `code_prefix`, and the provider's errors for a missing account or an amount that is not
  positive (`sepay_provider.go:37-45`), which end as a failed creation of a link does. Of `StartReconcile`: the pages in
  which the transactions are listed; the list is one set read at one time.
* In the invoice form: the fallback house and a change of the period (`CreateInvoiceModal.tsx:53,227`), and a house without
  a recommended room. In quick entry: the house re-selected when the recommendation changes
  (`QuickCreateInvoiceModal.tsx:24-34`), and houses with both utilities at a fixed price, whose rows go out without readings.
* A page's requests that a reload cuts off are served before the new page's first or not at all; none is served later.
* The reasons for each component are in `PROJECT.json`.
