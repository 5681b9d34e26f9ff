----------------------------- MODULE HouseCosts -----------------------------
(* The monthly operating costs of houses: CreateMonthlyCost,                  *)
(* UpdateMonthlyCost and the job that carries fixed costs into a new month.   *)
(* Each SQL statement is one step of the goroutine that runs it, a clerk.     *)
EXTENDS Integers, Sequences

CONSTANTS
  Houses,
  LastPeriod,   \* bound on the months of the model, 1..LastPeriod
  Prices,       \* amounts in VND, for fixed (rent, wifi, cleaning) and other costs
  Clerks,       \* goroutines of requests and of the monthly job
  MaxPending,   \* bound on the event handlers started but not run, per key
  MaxFaults,    \* bound on injected failures
  None          \* no key

Periods == 1..LastPeriod
Keys == Houses \X Periods     \* uq_house_costs_house_period

ASSUME CostsAssumption ==
  /\ Prices \subseteq Nat
  /\ LastPeriod \in Nat /\ MaxPending \in Nat /\ MaxFaults \in Nat
  /\ None \notin Keys

VARIABLES
  costs,      \* house_costs: by house and period
  clerks,     \* what each clerk is doing
  handlers,   \* event bus: goroutines started by Publish, per house and period
  faults      \* failures injected so far

costVars == <<costs, clerks, handlers, faults>>

Rows == [exists : BOOLEAN, fixed : Nat, other : Nat]
NoRow == [exists |-> FALSE, fixed |-> 0, other |-> 0]
TotalCost(row) == row.fixed + row.other

ClerkStages == {"idle", "latest", "insert", "update", "publish", "job"}

\* todo: the fixed costs a job has listed and not yet carried over, by house.
ClerkTasks == [pc : ClerkStages, key : Keys \cup {None}, row : Rows,
               job : BOOLEAN, todo : [Houses -> Nat]]

Off == [pc |-> "idle", key |-> None, row |-> NoRow, job |-> FALSE,
        todo |-> [h \in Houses |-> 0]]
On(k, pc, row) == [Off EXCEPT !.pc = pc, !.key = k, !.row = row]
Row(fixed, other) == [exists |-> TRUE, fixed |-> fixed, other |-> other]

CostsTypeOK ==
  /\ costs \in [Keys -> Rows]
  /\ clerks \in [Clerks -> ClerkTasks]
  /\ handlers \in [Keys -> Nat]
  /\ faults \in 0..MaxFaults

\* A running system has some records, all-zero ones (CreateHouse) among them.
CostsInit ==
  /\ costs \in [Keys -> {NoRow} \cup {Row(fixed, 0) : fixed \in Prices \cup {0}}]
  /\ clerks = [c \in Clerks |-> Off]
  /\ handlers = [k \in Keys |-> 0]
  /\ faults = 0

-----------------------------------------------------------------------------
\* A clerk has done with its record: a request ends, a job takes its next house.
Done(task) == IF task.job THEN [task EXCEPT !.pc = "job"] ELSE Off

Fault == faults < MaxFaults /\ faults' = faults + 1

\* GetByHouseAndPeriod before an insert: an error counts as "no record".
FindsNone(k) == (~costs[k].exists /\ UNCHANGED faults) \/ Fault

\* CreateMonthlyCost is refused if there is a record.
BeginCreate(c, k) ==
  /\ clerks[c].pc = "idle"
  /\ FindsNone(k)
  /\ clerks' = [clerks EXCEPT ![c] = On(k, "latest", NoRow)]
  /\ UNCHANGED <<costs, handlers>>

\* GetLatestByHouseID: the record of the highest period, even one after the
\* period to create.  Its fixed costs are carried over, the others start at 0.
LatestFixed(h) ==
  {costs[<<h, p>>].fixed :
     p \in {p \in Periods : /\ costs[<<h, p>>].exists
                            /\ \A q \in Periods : costs[<<h, q>>].exists => q <= p}}

ReadLatest(c) ==
  LET k == clerks[c].key
  IN /\ clerks[c].pc = "latest"
     /\ \/ \E fixed \in LatestFixed(k[1]) :
             /\ clerks' = [clerks EXCEPT ![c] = On(k, "insert", Row(fixed, 0))]
             /\ UNCHANGED faults
        \/ /\ (LatestFixed(k[1]) = {} /\ UNCHANGED faults) \/ Fault
           /\ clerks' = [clerks EXCEPT ![c] = On(k, "insert", Row(0, 0))]
     /\ UNCHANGED <<costs, handlers>>

\* GenerateMonthlyCostsFromPrevious lists the previous month; a record without
\* fixed costs is skipped.
BeginJob(c, p) ==
  /\ clerks[c].pc = "idle"
  /\ p - 1 \in Periods
  /\ \E h \in Houses :
       clerks' = [clerks EXCEPT ![c] =
         [On(<<h, p>>, "job", NoRow) EXCEPT
            !.job = TRUE, !.todo = [g \in Houses |-> costs[<<g, p - 1>>].fixed]]]
  /\ UNCHANGED <<costs, handlers, faults>>

\* The job looks a house's record up and skips the house if there is one.
SkipHouse(c, h) ==
  /\ clerks[c].pc = "job" /\ clerks[c].todo[h] > 0
  /\ costs[<<h, clerks[c].key[2]>>].exists
  /\ clerks' = [clerks EXCEPT ![c].todo[h] = 0]
  /\ UNCHANGED <<costs, handlers, faults>>

TakeHouse(c, h) ==
  LET k == <<h, clerks[c].key[2]>>
  IN /\ clerks[c].pc = "job" /\ clerks[c].todo[h] > 0
     /\ FindsNone(k)
     /\ clerks' = [clerks EXCEPT ![c].pc = "insert", ![c].key = k, ![c].todo[h] = 0,
                                 ![c].row = Row(clerks[c].todo[h], 0)]
     /\ UNCHANGED <<costs, handlers>>

EndJob(c) ==
  /\ clerks[c].pc = "job"
  /\ \A h \in Houses : clerks[c].todo[h] = 0
  /\ clerks' = [clerks EXCEPT ![c] = Off]
  /\ UNCHANGED <<costs, handlers, faults>>

\* Mutant: an insert that replaces the record on conflict.
InsertCostUpserting(c) ==
  /\ clerks[c].pc = "insert"
  /\ costs' = [costs EXCEPT ![clerks[c].key] = clerks[c].row]
  /\ clerks' = [clerks EXCEPT ![c].pc = "publish"]
  /\ UNCHANGED <<handlers, faults>>

InsertCost(c) ==
  /\ clerks[c].pc = "insert"
  /\ ~costs[clerks[c].key].exists
  /\ costs' = [costs EXCEPT ![clerks[c].key] = clerks[c].row]
  /\ clerks' = [clerks EXCEPT ![c].pc = "publish"]
  /\ UNCHANGED <<handlers, faults>>

\* The record was created meanwhile: an error, or one more house skipped.
InsertCostDuplicate(c) ==
  /\ clerks[c].pc = "insert"
  /\ costs[clerks[c].key].exists
  /\ clerks' = [clerks EXCEPT ![c] = Done(@)]
  /\ UNCHANGED <<costs, handlers, faults>>

\* UpdateMonthlyCost: every cost comes from the form, whatever has been read.
BeginUpdate(c, k, fixed, other) ==
  /\ clerks[c].pc = "idle"
  /\ costs[k].exists
  /\ clerks' = [clerks EXCEPT ![c] = On(k, "update", Row(fixed, other))]
  /\ UNCHANGED <<costs, handlers, faults>>

UpdateCost(c) ==
  /\ clerks[c].pc = "update"
  /\ costs' = [costs EXCEPT ![clerks[c].key] = clerks[c].row]
  /\ clerks' = [clerks EXCEPT ![c].pc = "publish"]
  /\ UNCHANGED <<handlers, faults>>

\* Mutant: the event names the first month.
PublishOtherPeriod(c) ==
  LET k == clerks[c].key
  IN /\ clerks[c].pc = "publish"
     /\ handlers[<<k[1], 1>>] < MaxPending
     /\ handlers' = [handlers EXCEPT ![<<k[1], 1>>] = @ + 1]
     /\ clerks' = [clerks EXCEPT ![c] = Done(@)]
     /\ UNCHANGED <<costs, faults>>

\* EventBus.Publish starts a goroutine and returns.
Publish(c) ==
  LET k == clerks[c].key
  IN /\ clerks[c].pc = "publish"
     /\ handlers[k] < MaxPending
     /\ handlers' = [handlers EXCEPT ![k] = @ + 1]
     /\ clerks' = [clerks EXCEPT ![c] = Done(@)]
     /\ UNCHANGED <<costs, faults>>

\* A statement fails; a job counts the house as failed and goes on.
StatementFails(c) ==
  /\ clerks[c].pc \in {"insert", "update"}
  /\ Fault
  /\ clerks' = [clerks EXCEPT ![c] = Done(@)]
  /\ UNCHANGED <<costs, handlers>>

-----------------------------------------------------------------------------
ClerkProgress(c) ==
  \/ ReadLatest(c) \/ EndJob(c)
  \/ \E h \in Houses : SkipHouse(c, h) \/ TakeHouse(c, h)
  \/ InsertCost(c) \/ InsertCostDuplicate(c) \/ UpdateCost(c) \/ Publish(c)

CostsNext ==
  \/ \E c \in Clerks, k \in Keys : BeginCreate(c, k)
  \/ \E c \in Clerks, p \in Periods : BeginJob(c, p)
  \/ \E c \in Clerks, k \in Keys, fixed, other \in Prices : BeginUpdate(c, k, fixed, other)
  \/ \E c \in Clerks : ClerkProgress(c)
  \/ \E c \in Clerks : StatementFails(c)
=============================================================================
