--------------------------- MODULE RevenueSummary ---------------------------
(* house_revenue_summaries, and what keeps it up to date: handlers publish an *)
(* event after they have changed invoices or costs, a goroutine of the event  *)
(* bus puts it on the channel of RevenueWorker, and the worker's only         *)
(* goroutine reads both tables and writes the summary.                        *)
EXTENDS HouseCosts

CONSTANTS
  Incomes,    \* possible sums of PAID invoices in VND, by house and period
  Capacity    \* buffer of the worker's channel, 1000 in the code

ASSUME RevenueAssumption == Incomes \in [Keys -> SUBSET Nat] /\ Capacity \in Nat

VARIABLES
  paid,       \* the sum of the PAID invoices, by house and period
  channel,    \* RevenueWorker.eventChannel
  worker,     \* what the worker's goroutine is doing
  summaries,  \* house_revenue_summaries; zeros stand for a missing record
  missed      \* keys that changed and that no event on its way will refresh

vars == <<costVars, paid, channel, worker, summaries, missed>>

Summaries == [revenue : Nat, cost : Nat]
WorkerTasks == [pc : {"idle", "revenue", "cost", "upsert"}, key : Keys \cup {None},
                revenue : Nat, cost : Nat]
Waiting == [pc |-> "idle", key |-> None, revenue |-> 0, cost |-> 0]

TypeOK ==
  /\ CostsTypeOK
  /\ paid \in [Keys -> Nat]
  /\ channel \in Seq(Keys) /\ Len(channel) <= Capacity
  /\ worker \in WorkerTasks
  /\ summaries \in [Keys -> Summaries]
  /\ missed \subseteq Keys

Init ==
  /\ CostsInit
  /\ paid \in [Keys -> UNION {Incomes[k] : k \in Keys}]
  /\ \A k \in Keys : paid[k] \in Incomes[k]
  /\ channel = <<>>
  /\ worker = Waiting
  /\ summaries = [k \in Keys |-> [revenue |-> paid[k], cost |-> TotalCost(costs[k])]]
  /\ missed = {}

revenueVars == <<paid, channel, worker, summaries, missed>>

-----------------------------------------------------------------------------
(* Changes of the tables.                                                     *)

\* CreateInvoice, PayInvoice, UnpayInvoice and DeleteInvoice change the sum and
\* publish; here they are a clerk's request like those of the costs.
ChangeInvoices(c, k, sum) ==
  /\ clerks[c].pc = "idle"
  /\ paid' = [paid EXCEPT ![k] = sum]
  /\ clerks' = [clerks EXCEPT ![c] = On(k, "publish", NoRow)]
  /\ UNCHANGED <<costs, handlers, faults, channel, worker, summaries, missed>>

\* processInvoicePayment marks an invoice PAID and publishes nothing.
SettlePayment(k, sum) ==
  /\ sum > paid[k]
  /\ paid' = [paid EXCEPT ![k] = sum]
  /\ missed' = missed \cup {k}
  /\ UNCHANGED <<costVars, channel, worker, summaries>>

\* UpdateInvoice has changed the row and fails to invalidate its links: the
\* error returns before the event is published.  Only a clerk of the costs has
\* a record to write.
InvoiceHalfUpdated(c) ==
  /\ clerks[c].pc = "publish" /\ ~clerks[c].row.exists
  /\ Fault
  /\ clerks' = [clerks EXCEPT ![c] = Off]
  /\ missed' = missed \cup {clerks[c].key}
  /\ UNCHANGED <<costs, handlers, paid, channel, worker, summaries>>

-----------------------------------------------------------------------------
(* The event bus and the worker.                                              *)

\* Mutant: the channel grows when it is full.
EnqueueUnbounded(k) ==
  /\ handlers[k] > 0
  /\ handlers' = [handlers EXCEPT ![k] = @ - 1]
  /\ channel' = Append(channel, k)
  /\ UNCHANGED <<costs, clerks, faults, paid, worker, summaries, missed>>

\* A handler's goroutine runs Enqueue: the event is on the channel.
Enqueue(k) ==
  /\ handlers[k] > 0
  /\ Len(channel) < Capacity
  /\ handlers' = [handlers EXCEPT ![k] = @ - 1]
  /\ channel' = Append(channel, k)
  /\ UNCHANGED <<costs, clerks, faults, paid, worker, summaries, missed>>

\* The channel is full: the event is dropped.  It is not missed if another one
\* of its key is still waiting.
DropEvent(k) ==
  /\ handlers[k] > 0
  /\ Len(channel) >= Capacity
  /\ handlers' = [handlers EXCEPT ![k] = @ - 1]
  /\ missed' = missed \cup ({k} \ {channel[n] : n \in 1..Len(channel)})
  /\ UNCHANGED <<costs, clerks, faults, paid, channel, worker, summaries>>

\* From here the worker reads everything that has changed so far.
TakeEvent ==
  /\ worker.pc = "idle"
  /\ channel # <<>>
  /\ worker' = [Waiting EXCEPT !.pc = "revenue", !.key = Head(channel)]
  /\ channel' = Tail(channel)
  /\ missed' = missed \ {Head(channel)}
  /\ UNCHANGED <<costVars, paid, summaries>>

\* CalculateRevenue
ReadRevenue ==
  /\ worker.pc = "revenue"
  /\ worker' = [worker EXCEPT !.pc = "cost", !.revenue = paid[worker.key]]
  /\ UNCHANGED <<costVars, paid, channel, summaries, missed>>

\* Mutant: the cost of the summary is kept.
ReadCostOfSummary ==
  /\ worker.pc = "cost"
  /\ worker' = [worker EXCEPT !.pc = "upsert", !.cost = summaries[worker.key].cost]
  /\ UNCHANGED <<costVars, paid, channel, summaries, missed>>

\* GetByHouseAndPeriod; no record counts as 0.
ReadCost ==
  /\ worker.pc = "cost"
  /\ worker' = [worker EXCEPT !.pc = "upsert", !.cost = TotalCost(costs[worker.key])]
  /\ UNCHANGED <<costVars, paid, channel, summaries, missed>>

\* A read fails: the error is logged and 0 is taken for its result.
ReadFails ==
  /\ \/ worker.pc = "revenue" /\ worker' = [worker EXCEPT !.pc = "cost"]
     \/ worker.pc = "cost" /\ worker' = [worker EXCEPT !.pc = "upsert"]
  /\ Fault
  /\ missed' = missed \cup {worker.key}
  /\ UNCHANGED <<costs, clerks, handlers, paid, channel, summaries>>

UpsertSummary ==
  /\ worker.pc = "upsert"
  /\ summaries' = [summaries EXCEPT ![worker.key] =
                     [revenue |-> worker.revenue, cost |-> worker.cost]]
  /\ worker' = Waiting
  /\ UNCHANGED <<costVars, paid, channel, missed>>

UpsertFails ==
  /\ worker.pc = "upsert"
  /\ Fault
  /\ worker' = Waiting
  /\ missed' = missed \cup {worker.key}
  /\ UNCHANGED <<costs, clerks, handlers, paid, channel, summaries>>

\* Some event that will refresh the key is on its way to the worker.
Announced(k) ==
  \/ \E c \in Clerks : clerks[c].pc = "publish" /\ clerks[c].key = k
  \/ handlers[k] > 0
  \/ \E n \in 1..Len(channel) : channel[n] = k

\* The process ends, in order (Stop leaves the channel as it is) or not, and
\* starts again with an empty channel.
Restart ==
  /\ Fault
  /\ clerks' = [c \in Clerks |-> Off]
  /\ handlers' = [k \in Keys |-> 0]
  /\ channel' = <<>>
  /\ worker' = Waiting
  /\ missed' = missed \cup {k \in Keys : Announced(k) \/ worker.key = k}
  /\ UNCHANGED <<costs, paid, summaries>>

-----------------------------------------------------------------------------
WorkerProgress == TakeEvent \/ ReadRevenue \/ ReadCost \/ UpsertSummary

Next ==
  \/ CostsNext /\ UNCHANGED revenueVars
  \/ \E c \in Clerks, k \in Keys : \E sum \in Incomes[k] : ChangeInvoices(c, k, sum)
  \/ \E k \in Keys : \E sum \in Incomes[k] : SettlePayment(k, sum)
  \/ \E c \in Clerks : InvoiceHalfUpdated(c)
  \/ \E k \in Keys : Enqueue(k) \/ DropEvent(k)
  \/ WorkerProgress
  \/ ReadFails \/ UpsertFails \/ Restart

\* Go runs every goroutine and database calls return.  Nobody has to change
\* anything.
Fairness ==
  /\ \A c \in Clerks : WF_vars(ClerkProgress(c) /\ UNCHANGED revenueVars)
  /\ \A k \in Keys : WF_vars(Enqueue(k) \/ DropEvent(k))
  /\ WF_vars(WorkerProgress)

SafeSpec == Init /\ [][Next]_vars
Spec == SafeSpec /\ Fairness

-----------------------------------------------------------------------------
(* Properties.                                                               *)

Truth(k) == [revenue |-> paid[k], cost |-> TotalCost(costs[k])]

\* The worker holds, or is about to read, what the tables say about the key.  An
\* idle worker has no key.
Refreshing(k) ==
  /\ worker.key = k
  /\ worker.pc \in {"cost", "upsert"} => worker.revenue = paid[k]
  /\ worker.pc = "upsert" => worker.cost = TotalCost(costs[k])

\* A summary that disagrees with the tables is about to be refreshed, or its
\* event was dropped, lost, failed or never published: events that overtake one
\* another, and changes between the worker's two reads, do no harm.
NoSilentStaleness ==
  \A k \in Keys :
    summaries[k] # Truth(k) => Announced(k) \/ Refreshing(k) \/ k \in missed

\* Once nobody changes a key any more, its summary agrees with the tables and
\* stays so, unless its event was missed.
SummaryCatchesUp ==
  \A k \in Keys :
    <>[][paid'[k] = paid[k] /\ costs'[k] = costs[k]]_vars
      => <>[](summaries[k] = Truth(k) \/ k \in missed)

\* A month's record is written by UpdateMonthlyCost only, once it is there:
\* creating a month twice, by hand and by the job, leaves the first record.
CostRecordKept ==
  [][\A k \in Keys :
       costs[k].exists /\ costs'[k] # costs[k] =>
         \E c \in Clerks : clerks[c].pc = "update" /\ clerks[c].key = k]_vars
=============================================================================
