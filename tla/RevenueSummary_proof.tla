------------------------ MODULE RevenueSummary_proof ------------------------
(* What RevenueSummary guarantees for any number of houses, months, clerks    *)
(* and failures and any capacity of the channel: its variables keep their     *)
(* types, no summary goes stale unnoticed, and cost records are not replaced.   *)
EXTENDS RevenueSummary, TLAPS

-----------------------------------------------------------------------------
(* Type correctness.                                                          *)

\* A clerk at work has a key.
ClerksHaveKeys == \A c \in Clerks : clerks[c].pc # "idle" => clerks[c].key \in Keys

\* The worker has a key exactly while it works.
WorkerHasKey == IF worker.pc = "idle" THEN worker.key = None ELSE worker.key \in Keys

TypeInv == TypeOK /\ ClerksHaveKeys /\ WorkerHasKey

\* Tasks a clerk may be given.
Task(task) == task \in ClerkTasks /\ (task.pc # "idle" => task.key \in Keys)

LEMMA OffIsTask == Task(Off) /\ Off.pc = "idle"
BY DEF Task, Off, ClerkTasks, ClerkStages, Rows, NoRow

LEMMA OnIsTask ==
  ASSUME NEW k \in Keys, NEW pc \in ClerkStages, NEW row \in Rows
  PROVE  Task(On(k, pc, row)) /\ On(k, pc, row).pc = pc /\ On(k, pc, row).key = k
BY DEF On, Task, Off, ClerkTasks, ClerkStages, Rows, NoRow

LEMMA DoneIsTask ==
  ASSUME NEW task \in ClerkTasks, task.key \in Keys
  PROVE  Task(Done(task)) /\ Done(task).pc \in {"idle", "job"}
BY OffIsTask DEF Done, Task, ClerkTasks, ClerkStages

\* A clerk that is given a task keeps the clerks well typed.
LEMMA GiveTask ==
  ASSUME TypeInv, NEW c \in Clerks, NEW task, Task(task),
         clerks' = [clerks EXCEPT ![c] = task]
  PROVE  clerks' \in [Clerks -> ClerkTasks] /\ ClerksHaveKeys'
<1>1. clerks \in [Clerks -> ClerkTasks] /\ task \in ClerkTasks
  BY DEF TypeInv, TypeOK, CostsTypeOK, Task
<1>2. \A d \in Clerks : clerks'[d] = IF d = c THEN task ELSE clerks[d]
  BY <1>1
<1> QED BY <1>1, <1>2 DEF Task, TypeInv, ClerksHaveKeys

LEMMA ClerkAtWork ==
  ASSUME TypeInv, NEW c \in Clerks, clerks[c].pc # "idle"
  PROVE  clerks[c] \in ClerkTasks /\ clerks[c].key \in Keys
BY DEF TypeInv, TypeOK, CostsTypeOK, ClerksHaveKeys

LEMMA FaultType == ASSUME TypeInv, UNCHANGED faults \/ Fault PROVE faults' \in 0..MaxFaults
BY CostsAssumption DEF Fault, TypeInv, TypeOK, CostsTypeOK

\* The steps of the clerks keep the types of their own variables.
LEMMA CostsType ==
  ASSUME TypeInv, CostsNext
  PROVE  CostsTypeOK' /\ ClerksHaveKeys'
<1> USE DEF TypeInv, TypeOK, CostsTypeOK
<1>0. NoRow \in Rows /\ \A x, y \in Nat : Row(x, y) \in Rows
  BY DEF NoRow, Row, Rows
<1>1. ASSUME NEW c \in Clerks, NEW k \in Keys, BeginCreate(c, k)
      PROVE  CostsTypeOK' /\ ClerksHaveKeys'
  <2>0. Task(On(k, "latest", NoRow))
    BY <1>0, OnIsTask DEF ClerkStages
  <2>1. clerks' \in [Clerks -> ClerkTasks] /\ ClerksHaveKeys'
    BY <1>1, <2>0, GiveTask DEF BeginCreate
  <2> QED BY <1>1, <2>1, FaultType DEF BeginCreate, FindsNone
<1>2. ASSUME NEW c \in Clerks, NEW p \in Periods, BeginJob(c, p)
      PROVE  CostsTypeOK' /\ ClerksHaveKeys'
  <2> DEFINE listed == [g \in Houses |-> costs[<<g, p - 1>>].fixed]
             start(h) == On(<<h, p>>, "job", NoRow)
  <2>1. PICK h \in Houses :
          clerks' = [clerks EXCEPT ![c] = [start(h) EXCEPT !.job = TRUE, !.todo = listed]]
    BY <1>2 DEF BeginJob
  <2>2. listed \in [Houses -> Nat]
    BY <1>2 DEF BeginJob, Keys, Rows
  <2>3. <<h, p>> \in Keys
    BY DEF Keys
  <2>4. Task(start(h)) /\ start(h).key = <<h, p>>
    BY <1>0, <2>3, OnIsTask, ZenonT(30) DEF ClerkStages
  <2> HIDE DEF listed, start
  <2>5. Task([start(h) EXCEPT !.job = TRUE, !.todo = listed])
    BY <2>2, <2>3, <2>4 DEF Task, ClerkTasks
  <2>6. clerks' \in [Clerks -> ClerkTasks] /\ ClerksHaveKeys'
    BY <2>1, <2>5, GiveTask
  <2> QED BY <1>2, <2>6 DEF BeginJob
<1>3. ASSUME NEW c \in Clerks, NEW k \in Keys, NEW fixed \in Prices, NEW other \in Prices,
             BeginUpdate(c, k, fixed, other)
      PROVE  CostsTypeOK' /\ ClerksHaveKeys'
  <2>1. Row(fixed, other) \in Rows
    BY <1>0, CostsAssumption
  <2>2. Task(On(k, "update", Row(fixed, other)))
    BY <2>1, OnIsTask DEF ClerkStages
  <2>3. clerks' \in [Clerks -> ClerkTasks] /\ ClerksHaveKeys'
    BY <1>3, <2>2, GiveTask DEF BeginUpdate
  <2> QED BY <1>3, <2>3 DEF BeginUpdate
<1>4. ASSUME NEW c \in Clerks, ReadLatest(c) PROVE CostsTypeOK' /\ ClerksHaveKeys'
  <2>1. clerks[c].key \in Keys
    BY <1>4, ClerkAtWork DEF ReadLatest
  <2>2. \A x \in LatestFixed(clerks[c].key[1]) : x \in Nat
    BY <2>1 DEF LatestFixed, Keys, Rows
  <2>3. PICK x \in Nat : clerks' = [clerks EXCEPT ![c] = On(clerks[c].key, "insert", Row(x, 0))]
    BY <1>4, <2>2 DEF ReadLatest
  <2>4. Task(On(clerks[c].key, "insert", Row(x, 0)))
    BY <1>0, <2>1, OnIsTask DEF ClerkStages
  <2>5. clerks' \in [Clerks -> ClerkTasks] /\ ClerksHaveKeys'
    BY <2>3, <2>4, GiveTask
  <2>6. faults' \in 0..MaxFaults
    BY <1>4, FaultType DEF ReadLatest
  <2> QED BY <1>4, <2>5, <2>6 DEF ReadLatest
<1>5. ASSUME NEW c \in Clerks, EndJob(c) PROVE CostsTypeOK' /\ ClerksHaveKeys'
  <2>1. clerks' \in [Clerks -> ClerkTasks] /\ ClerksHaveKeys'
    BY <1>5, OffIsTask, GiveTask DEF EndJob
  <2> QED BY <1>5, <2>1 DEF EndJob
<1>6. ASSUME NEW c \in Clerks, NEW h \in Houses, SkipHouse(c, h)
      PROVE  CostsTypeOK' /\ ClerksHaveKeys'
  <2>1. clerks[c] \in ClerkTasks /\ clerks[c].key \in Keys
    BY <1>6, ClerkAtWork DEF SkipHouse
  <2>2. Task([clerks[c] EXCEPT !.todo[h] = 0])
    BY <2>1 DEF Task, ClerkTasks
  <2>3. clerks' = [clerks EXCEPT ![c] = [clerks[c] EXCEPT !.todo[h] = 0]]
    BY <1>6 DEF SkipHouse
  <2>4. clerks' \in [Clerks -> ClerkTasks] /\ ClerksHaveKeys'
    BY <2>2, <2>3, GiveTask
  <2> QED BY <1>6, <2>4 DEF SkipHouse
<1>7. ASSUME NEW c \in Clerks, NEW h \in Houses, TakeHouse(c, h)
      PROVE  CostsTypeOK' /\ ClerksHaveKeys'
  <2> DEFINE k == <<h, clerks[c].key[2]>>
             task == [clerks[c] EXCEPT !.pc = "insert", !.key = k, !.todo[h] = 0,
                                       !.row = Row(clerks[c].todo[h], 0)]
  <2>1. clerks[c] \in ClerkTasks /\ clerks[c].key \in Keys
    BY <1>7, ClerkAtWork DEF TakeHouse
  <2>2. k \in Keys /\ clerks[c].todo[h] \in Nat
    BY <2>1 DEF Keys, ClerkTasks
  <2>3. Row(clerks[c].todo[h], 0) \in Rows
    BY <1>0, <2>2
  <2>4. Task(task)
    BY <2>1, <2>2, <2>3 DEF Task, ClerkTasks, ClerkStages
  <2>5. clerks' = [clerks EXCEPT ![c] = task]
    BY <1>7 DEF TakeHouse
  <2> HIDE DEF task, k
  <2>6. clerks' \in [Clerks -> ClerkTasks] /\ ClerksHaveKeys'
    BY <2>4, <2>5, GiveTask
  <2>7. faults' \in 0..MaxFaults
    BY <1>7, FaultType DEF TakeHouse, FindsNone
  <2> QED BY <1>7, <2>6, <2>7 DEF TakeHouse
<1>8. ASSUME NEW c \in Clerks, InsertCost(c) \/ UpdateCost(c)
      PROVE  CostsTypeOK' /\ ClerksHaveKeys'
  <2>1. clerks[c] \in ClerkTasks /\ clerks[c].key \in Keys
    BY <1>8, ClerkAtWork DEF InsertCost, UpdateCost
  <2>2. Task([clerks[c] EXCEPT !.pc = "publish"])
    BY <2>1 DEF Task, ClerkTasks, ClerkStages
  <2>3. clerks' = [clerks EXCEPT ![c] = [clerks[c] EXCEPT !.pc = "publish"]]
    BY <1>8 DEF InsertCost, UpdateCost
  <2>4. clerks' \in [Clerks -> ClerkTasks] /\ ClerksHaveKeys'
    BY <2>2, <2>3, GiveTask
  <2>5. costs' \in [Keys -> Rows]
    BY <1>8, <2>1 DEF InsertCost, UpdateCost, ClerkTasks
  <2> QED BY <1>8, <2>4, <2>5 DEF InsertCost, UpdateCost
<1>9. ASSUME NEW c \in Clerks, InsertCostDuplicate(c) \/ Publish(c) \/ StatementFails(c)
      PROVE  CostsTypeOK' /\ ClerksHaveKeys'
  <2>1. clerks[c] \in ClerkTasks /\ clerks[c].key \in Keys
    BY <1>9, ClerkAtWork DEF InsertCostDuplicate, Publish, StatementFails
  <2>2. clerks' = [clerks EXCEPT ![c] = Done(clerks[c])]
    BY <1>9 DEF InsertCostDuplicate, Publish, StatementFails
  <2>3. clerks' \in [Clerks -> ClerkTasks] /\ ClerksHaveKeys'
    BY <2>1, <2>2, DoneIsTask, GiveTask
  <2>4. faults' \in 0..MaxFaults
    BY <1>9, FaultType DEF InsertCostDuplicate, Publish, StatementFails
  <2>5. handlers' \in [Keys -> Nat] /\ costs' = costs
    <3>1. CASE Publish(c)
      <4>1. /\ handlers' = [handlers EXCEPT ![clerks[c].key] = @ + 1]
            /\ costs' = costs
        BY <3>1 DEF Publish
      <4> QED BY <2>1, <4>1
    <3>2. CASE InsertCostDuplicate(c) \/ StatementFails(c)
      BY <3>2 DEF InsertCostDuplicate, StatementFails
    <3> QED BY <1>9, <3>1, <3>2
  <2> QED BY <2>3, <2>4, <2>5
<1> QED BY <1>1, <1>2, <1>3, <1>4, <1>5, <1>6, <1>7, <1>8, <1>9 DEF CostsNext, ClerkProgress

LEMMA TotalIsNat == \A row \in Rows : TotalCost(row) \in Nat
BY DEF Rows, TotalCost

LEMMA InitType == Init => TypeInv
<1> SUFFICES ASSUME Init PROVE TypeInv
  OBVIOUS
<1> USE DEF Init, CostsInit
<1>0. NoRow \in Rows /\ \A x \in Prices \cup {0} : Row(x, 0) \in Rows
  BY CostsAssumption DEF NoRow, Row, Rows
<1>1. costs \in [Keys -> Rows]
  <2>1. costs \in [Keys -> {NoRow} \cup {Row(fixed, 0) : fixed \in Prices \cup {0}}]
    OBVIOUS
  <2>2. \A k \in Keys : costs[k] \in Rows
    BY <1>0, <2>1
  <2> QED BY <2>1, <2>2
<1>2. clerks \in [Clerks -> ClerkTasks] /\ ClerksHaveKeys
  BY OffIsTask DEF Task, ClerksHaveKeys
<1>3. handlers \in [Keys -> Nat] /\ faults \in 0..MaxFaults
  BY CostsAssumption
<1>4. \A k \in Keys : paid[k] \in Nat
  BY RevenueAssumption
<1>5. paid \in [Keys -> Nat]
  BY <1>4
<1>6. \A k \in Keys : TotalCost(costs[k]) \in Nat
  <2> HIDE DEF Init, CostsInit
  <2> QED BY <1>1, TotalIsNat
<1>7. summaries \in [Keys -> Summaries]
  BY <1>4, <1>6 DEF Summaries
<1>8. channel \in Seq(Keys) /\ Len(channel) <= Capacity
  BY RevenueAssumption
<1>9. worker \in WorkerTasks /\ WorkerHasKey
  BY DEF Waiting, WorkerTasks, WorkerHasKey
<1>10. missed \subseteq Keys
  OBVIOUS
<1> QED BY <1>1, <1>2, <1>3, <1>5, <1>7, <1>8, <1>9, <1>10 DEF TypeInv, TypeOK, CostsTypeOK

\* Every step keeps the types.
LEMMA NextType == TypeInv /\ [Next]_vars => TypeInv'
<1> SUFFICES ASSUME TypeInv, [Next]_vars PROVE TypeInv'
  OBVIOUS
<1> USE DEF TypeInv, TypeOK, CostsTypeOK
<1>0. NoRow \in Rows /\ \A k \in Keys : TotalCost(costs[k]) \in Nat
  BY DEF NoRow, Rows, TotalCost
<1>1. CASE CostsNext /\ UNCHANGED revenueVars
  BY <1>1, CostsType DEF revenueVars, WorkerHasKey
<1>2. ASSUME NEW c \in Clerks, NEW k \in Keys, NEW sum \in Incomes[k], ChangeInvoices(c, k, sum)
      PROVE  TypeInv'
  <2>1. Task(On(k, "publish", NoRow))
    BY <1>0, OnIsTask DEF ClerkStages
  <2>2. clerks' \in [Clerks -> ClerkTasks] /\ ClerksHaveKeys'
    BY <1>2, <2>1, GiveTask DEF ChangeInvoices
  <2>3. paid' \in [Keys -> Nat]
    BY <1>2, RevenueAssumption DEF ChangeInvoices
  <2> QED BY <1>2, <2>2, <2>3 DEF ChangeInvoices, WorkerHasKey
<1>3. ASSUME NEW k \in Keys, NEW sum \in Incomes[k], SettlePayment(k, sum) PROVE TypeInv'
  <2>1. paid' \in [Keys -> Nat] /\ missed' \subseteq Keys
    BY <1>3, RevenueAssumption DEF SettlePayment
  <2> QED BY <1>3, <2>1 DEF SettlePayment, costVars, WorkerHasKey, ClerksHaveKeys
<1>4. ASSUME NEW c \in Clerks, InvoiceHalfUpdated(c) PROVE TypeInv'
  <2>1. clerks' \in [Clerks -> ClerkTasks] /\ ClerksHaveKeys'
    BY <1>4, OffIsTask, GiveTask DEF InvoiceHalfUpdated
  <2>2. missed' \subseteq Keys
    BY <1>4, ClerkAtWork DEF InvoiceHalfUpdated
  <2> QED BY <1>4, <2>1, <2>2, FaultType DEF InvoiceHalfUpdated, WorkerHasKey
<1>5. ASSUME NEW k \in Keys, Enqueue(k) PROVE TypeInv'
  <2>1. handlers' \in [Keys -> Nat]
    BY <1>5 DEF Enqueue
  <2>2. channel' \in Seq(Keys) /\ Len(channel') = Len(channel) + 1
    BY <1>5 DEF Enqueue
  <2>3. Len(channel') <= Capacity
    BY <1>5, <2>2, RevenueAssumption DEF Enqueue
  <2> QED BY <1>5, <2>1, <2>2, <2>3 DEF Enqueue, WorkerHasKey, ClerksHaveKeys
<1>6. ASSUME NEW k \in Keys, DropEvent(k) PROVE TypeInv'
  <2>1. handlers' \in [Keys -> Nat] /\ missed' \subseteq Keys
    BY <1>6 DEF DropEvent
  <2> QED BY <1>6, <2>1 DEF DropEvent, WorkerHasKey, ClerksHaveKeys
<1>7. CASE TakeEvent
  <2>1. /\ Head(channel) \in Keys /\ channel' \in Seq(Keys)
        /\ Len(channel') = Len(channel) - 1
    BY <1>7 DEF TakeEvent
  <2>2. worker' \in WorkerTasks /\ WorkerHasKey'
    BY <1>7, <2>1 DEF TakeEvent, Waiting, WorkerTasks, WorkerHasKey
  <2>3. Len(channel') <= Capacity
    BY <2>1, RevenueAssumption
  <2>4. missed' \subseteq Keys
    BY <1>7 DEF TakeEvent
  <2> QED BY <1>7, <2>1, <2>2, <2>3, <2>4 DEF TakeEvent, costVars, ClerksHaveKeys
<1>8. CASE ReadRevenue
  <2>1. worker' \in WorkerTasks /\ WorkerHasKey'
    BY <1>8 DEF ReadRevenue, WorkerTasks, WorkerHasKey
  <2> QED BY <1>8, <2>1 DEF ReadRevenue, costVars, ClerksHaveKeys
<1>9. CASE ReadCost
  <2>1. worker.key \in Keys
    BY <1>9 DEF ReadCost, WorkerHasKey
  <2>2. worker' \in WorkerTasks /\ WorkerHasKey'
    BY <1>0, <1>9, <2>1 DEF ReadCost, WorkerTasks, WorkerHasKey
  <2> QED BY <1>9, <2>2 DEF ReadCost, costVars, ClerksHaveKeys
<1>10. CASE ReadFails
  <2>1. worker' \in WorkerTasks /\ WorkerHasKey' /\ missed' \subseteq Keys
    BY <1>10 DEF ReadFails, WorkerTasks, WorkerHasKey
  <2> QED BY <1>10, <2>1, FaultType DEF ReadFails, ClerksHaveKeys
<1>11. CASE UpsertSummary
  <2>1. summaries' \in [Keys -> Summaries]
    BY <1>11 DEF UpsertSummary, WorkerTasks, Summaries
  <2>2. worker' \in WorkerTasks /\ WorkerHasKey'
    BY <1>11 DEF UpsertSummary, Waiting, WorkerTasks, WorkerHasKey
  <2> QED BY <1>11, <2>1, <2>2 DEF UpsertSummary, costVars, ClerksHaveKeys
<1>12. CASE UpsertFails
  <2>1. worker' \in WorkerTasks /\ WorkerHasKey' /\ missed' \subseteq Keys
    BY <1>12 DEF UpsertFails, Waiting, WorkerTasks, WorkerHasKey
  <2> QED BY <1>12, <2>1, FaultType DEF UpsertFails, ClerksHaveKeys
<1>13. CASE Restart
  <2>1. clerks' \in [Clerks -> ClerkTasks] /\ ClerksHaveKeys'
    BY <1>13, OffIsTask DEF Restart, Task, ClerksHaveKeys
  <2>2. worker' \in WorkerTasks /\ WorkerHasKey'
    BY <1>13 DEF Restart, Waiting, WorkerTasks, WorkerHasKey
  <2>3. handlers' \in [Keys -> Nat] /\ missed' \subseteq Keys
    BY <1>13 DEF Restart
  <2>4. channel' \in Seq(Keys) /\ Len(channel') <= Capacity
    BY <1>13, RevenueAssumption DEF Restart
  <2> QED BY <1>13, <2>1, <2>2, <2>3, <2>4, FaultType DEF Restart
<1>14. CASE UNCHANGED vars
  BY <1>14 DEF vars, costVars, WorkerHasKey, ClerksHaveKeys
<1> QED BY <1>1, <1>2, <1>3, <1>4, <1>5, <1>6, <1>7, <1>8, <1>9, <1>10, <1>11, <1>12,
           <1>13, <1>14 DEF Next, WorkerProgress

\* The tables, the clerks, the channel and the worker always hold values of
\* their types, and the channel never exceeds its capacity.
THEOREM TypeCorrect == SafeSpec => []TypeOK
<1>1. SafeSpec => []TypeInv
  BY InitType, NextType, PTL DEF SafeSpec
<1>2. TypeInv => TypeOK
  BY DEF TypeInv
<1> QED BY <1>1, <1>2, PTL

-----------------------------------------------------------------------------
(* No silent staleness.  What makes the invariant inductive is the worker's   *)
(* half of it: as soon as a value it has read is outdated, the change that    *)
(* outdated it has an event on its way, or has been missed.                   *)

Covered(k) == Announced(k) \/ k \in missed

SummaryCovered(k) == summaries[k] # Truth(k) => Covered(k) \/ Refreshing(k)
WorkerCovered(k) == worker.key = k /\ ~Refreshing(k) => Covered(k)

CoverInv == \A k \in Keys : SummaryCovered(k) /\ WorkerCovered(k)

\* A step that changes neither the tables nor the worker's result, and leaves
\* every key covered, keeps the invariant.
LEMMA QuietStep ==
  ASSUME TypeInv, CoverInv, NEW k \in Keys,
         Covered(k) => Covered(k)',
         Covered(k)' \/ (costs'[k] = costs[k] /\ paid'[k] = paid[k]),
         UNCHANGED <<worker, summaries>>
  PROVE  (SummaryCovered(k) /\ WorkerCovered(k))'
<1>1. SummaryCovered(k) /\ WorkerCovered(k)
  BY DEF CoverInv
<1>2. CASE Covered(k)'
  BY <1>2 DEF SummaryCovered, WorkerCovered
<1>3. CASE ~Covered(k)' /\ costs'[k] = costs[k] /\ paid'[k] = paid[k]
  <2>1. Truth(k)' = Truth(k) /\ Refreshing(k)' = Refreshing(k)
    BY <1>3 DEF Truth, TotalCost, Refreshing
  <2>2. ~Covered(k)
    BY <1>3
  <2> QED BY <1>1, <2>1, <2>2 DEF SummaryCovered, WorkerCovered
<1> QED BY <1>2, <1>3

\* A key stays announced when a clerk does something else than publishing it.
LEMMA StaysAnnounced ==
  ASSUME TypeInv, NEW c \in Clerks, NEW task, NEW k \in Keys,
         clerks' = [clerks EXCEPT ![c] = task],
         clerks[c].pc = "publish" => clerks[c].key # k,
         UNCHANGED <<handlers, channel, missed>>, Covered(k)
  PROVE  Covered(k)'
<1>1. \A d \in Clerks : clerks'[d] = IF d = c THEN task ELSE clerks[d]
  BY DEF TypeInv, TypeOK, CostsTypeOK
<1> QED BY <1>1 DEF Covered, Announced

\* The steps of the clerks.
LEMMA CostsCovered ==
  ASSUME TypeInv, CoverInv, CostsNext, UNCHANGED revenueVars, NEW k \in Keys
  PROVE  (SummaryCovered(k) /\ WorkerCovered(k))'
<1>0. clerks \in [Clerks -> ClerkTasks] /\ handlers \in [Keys -> Nat]
  BY DEF TypeInv, TypeOK, CostsTypeOK
<1>1. ASSUME NEW c \in Clerks, NEW task, clerks' = [clerks EXCEPT ![c] = task],
             clerks[c].pc # "publish", UNCHANGED <<costs, handlers>>
      PROVE  (SummaryCovered(k) /\ WorkerCovered(k))'
  <2>1. Covered(k) => Covered(k)'
    BY <1>1, StaysAnnounced DEF revenueVars
  <2> QED BY <1>1, <2>1, QuietStep DEF revenueVars
<1>2. ASSUME NEW c \in Clerks, InsertCost(c) \/ UpdateCost(c)
      PROVE  (SummaryCovered(k) /\ WorkerCovered(k))'
  <2>1. /\ clerks' = [clerks EXCEPT ![c] = [clerks[c] EXCEPT !.pc = "publish"]]
        /\ clerks[c].pc # "publish" /\ handlers' = handlers
        /\ costs' = [costs EXCEPT ![clerks[c].key] = clerks[c].row]
    BY <1>2 DEF InsertCost, UpdateCost
  <2>2. Covered(k) => Covered(k)'
    BY <2>1, StaysAnnounced DEF revenueVars
  <2>3. CASE clerks[c].key = k
    <3>1. clerks'[c].pc = "publish" /\ clerks'[c].key = k
      BY <1>0, <2>1, <2>3 DEF ClerkTasks
    <3>2. Covered(k)'
      BY <3>1 DEF Covered, Announced
    <3> QED BY <2>2, <3>2, QuietStep DEF revenueVars
  <2>4. CASE clerks[c].key # k
    <3>1. costs'[k] = costs[k]
      BY <2>1, <2>4 DEF TypeInv, TypeOK, CostsTypeOK
    <3> QED BY <2>2, <3>1, QuietStep DEF revenueVars
  <2> QED BY <2>3, <2>4
<1>3. ASSUME NEW c \in Clerks, Publish(c)
      PROVE  (SummaryCovered(k) /\ WorkerCovered(k))'
  <2>1. /\ handlers' = [handlers EXCEPT ![clerks[c].key] = @ + 1]
        /\ clerks' = [clerks EXCEPT ![c] = Done(@)] /\ costs' = costs
    BY <1>3 DEF Publish
  <2>2. clerks[c].key \in Keys
    BY <1>3, ClerkAtWork DEF Publish
  <2>3. Covered(k) => Covered(k)'
    <3>1. CASE clerks[c].key = k
      <4>1. handlers'[k] > 0
        BY <1>0, <2>1, <3>1
      <4> QED BY <4>1 DEF Covered, Announced
    <3>2. CASE clerks[c].key # k
      <4>1. handlers'[k] = handlers[k]
        BY <1>0, <2>1, <3>2
      <4>2. \A d \in Clerks \ {c} : clerks'[d] = clerks[d]
        BY <1>0, <2>1
      <4> QED BY <3>2, <4>1, <4>2 DEF Covered, Announced, revenueVars
    <3> QED BY <3>1, <3>2
  <2> QED BY <2>1, <2>3, QuietStep DEF revenueVars
<1>4. ASSUME NEW c \in Clerks, NEW l \in Keys, BeginCreate(c, l)
      PROVE  (SummaryCovered(k) /\ WorkerCovered(k))'
  BY <1>1, <1>4 DEF BeginCreate
<1>5. ASSUME NEW c \in Clerks, NEW p \in Periods, BeginJob(c, p)
      PROVE  (SummaryCovered(k) /\ WorkerCovered(k))'
  BY <1>1, <1>5 DEF BeginJob
<1>6. ASSUME NEW c \in Clerks, NEW l \in Keys, NEW fixed \in Prices, NEW other \in Prices,
             BeginUpdate(c, l, fixed, other)
      PROVE  (SummaryCovered(k) /\ WorkerCovered(k))'
  BY <1>1, <1>6 DEF BeginUpdate
<1>7. ASSUME NEW c \in Clerks, ReadLatest(c)
      PROVE  (SummaryCovered(k) /\ WorkerCovered(k))'
  BY <1>1, <1>7 DEF ReadLatest
<1>8. ASSUME NEW c \in Clerks, EndJob(c) \/ InsertCostDuplicate(c) \/ StatementFails(c)
      PROVE  (SummaryCovered(k) /\ WorkerCovered(k))'
  BY <1>1, <1>8 DEF EndJob, InsertCostDuplicate, StatementFails
<1>9. ASSUME NEW c \in Clerks, NEW h \in Houses, SkipHouse(c, h)
      PROVE  (SummaryCovered(k) /\ WorkerCovered(k))'
  <2>1. clerks' = [clerks EXCEPT ![c] = [clerks[c] EXCEPT !.todo[h] = 0]]
    BY <1>9 DEF SkipHouse
  <2> QED BY <1>1, <1>9, <2>1 DEF SkipHouse
<1>10. ASSUME NEW c \in Clerks, NEW h \in Houses, TakeHouse(c, h)
       PROVE  (SummaryCovered(k) /\ WorkerCovered(k))'
  <2>1. clerks' = [clerks EXCEPT ![c] =
                     [clerks[c] EXCEPT !.pc = "insert", !.key = <<h, clerks[c].key[2]>>,
                                       !.todo[h] = 0, !.row = Row(clerks[c].todo[h], 0)]]
    BY <1>10 DEF TakeHouse
  <2> QED BY <1>1, <1>10, <2>1 DEF TakeHouse
<1> QED BY <1>2, <1>3, <1>4, <1>5, <1>6, <1>7, <1>8, <1>9, <1>10 DEF CostsNext, ClerkProgress

\* The worker's steps for the key it works on, and for the others.
LEMMA WorkerStep ==
  ASSUME TypeInv, CoverInv, ReadRevenue \/ ReadCost \/ UpsertSummary, NEW k \in Keys
  PROVE  (SummaryCovered(k) /\ WorkerCovered(k))'
<1>1. SummaryCovered(k) /\ WorkerCovered(k)
  BY DEF CoverInv
<1>2. Covered(k)' = Covered(k) /\ Truth(k)' = Truth(k)
  BY DEF ReadRevenue, ReadCost, UpsertSummary, costVars, Covered, Announced, Truth, TotalCost
<1>3. CASE ReadRevenue \/ ReadCost
  <2>1. Refreshing(k) => Refreshing(k)'
    BY <1>3 DEF ReadRevenue, ReadCost, costVars, Refreshing, TypeInv, TypeOK, WorkerTasks, TotalCost
  <2>2. worker'.key = worker.key /\ summaries' = summaries
    BY <1>3 DEF ReadRevenue, ReadCost, TypeInv, TypeOK, WorkerTasks
  <2> QED BY <1>1, <1>2, <2>1, <2>2 DEF SummaryCovered, WorkerCovered
<1>4. CASE UpsertSummary
  <2>1. WorkerCovered(k)'
    <3>1. worker'.key = None
      BY <1>4 DEF UpsertSummary, Waiting
    <3> QED BY <3>1, CostsAssumption DEF WorkerCovered
  <2>2. CASE worker.key = k /\ Refreshing(k)
    <3>1. summaries'[k] = Truth(k)
      BY <1>4, <2>2 DEF UpsertSummary, Refreshing, Truth, TypeInv, TypeOK
    <3> QED BY <1>2, <2>1, <3>1 DEF SummaryCovered
  <2>3. CASE worker.key = k /\ ~Refreshing(k)
    BY <1>1, <1>2, <2>1, <2>3 DEF WorkerCovered, SummaryCovered
  <2>4. CASE worker.key # k
    <3>1. summaries'[k] = summaries[k] /\ ~Refreshing(k)
      BY <1>4, <2>4 DEF UpsertSummary, Refreshing, TypeInv, TypeOK
    <3> QED BY <1>1, <1>2, <2>1, <3>1 DEF SummaryCovered
  <2> QED BY <2>2, <2>3, <2>4
<1> QED BY <1>3, <1>4

\* The worker takes an event: from here it will read the current tables.
LEMMA TakeStep ==
  ASSUME TypeInv, CoverInv, TakeEvent, NEW k \in Keys
  PROVE  (SummaryCovered(k) /\ WorkerCovered(k))'
<1>1. /\ worker'.key = Head(channel) /\ worker'.pc = "revenue"
      /\ channel' = Tail(channel) /\ summaries' = summaries /\ missed' = missed \ {Head(channel)}
      /\ UNCHANGED costVars /\ paid' = paid
  BY DEF TakeEvent, Waiting
<1>2. CASE Head(channel) = k
  <2>1. Refreshing(k)'
    BY <1>1, <1>2 DEF Refreshing
  <2> QED BY <2>1 DEF SummaryCovered, WorkerCovered
<1>3. CASE Head(channel) # k
  <2>1. SummaryCovered(k) /\ ~Refreshing(k)
    <3>1. worker.key # k
      BY CostsAssumption DEF TakeEvent, TypeInv, WorkerHasKey
    <3> QED BY <3>1 DEF CoverInv, Refreshing
  <2>2. Covered(k) => Covered(k)'
    <3>1. ASSUME NEW n \in 1..Len(channel), channel[n] = k
          PROVE  \E m \in 1..Len(channel') : channel'[m] = k
      <4>1. channel \in Seq(Keys) /\ channel # <<>>
        BY DEF TakeEvent, TypeInv, TypeOK
      <4>2. n # 1
        BY <1>3, <3>1, <4>1
      <4>3. n - 1 \in 1..Len(channel') /\ channel'[n - 1] = channel[n]
        BY <1>1, <4>1, <4>2
      <4> QED BY <3>1, <4>3
    <3> QED BY <1>1, <1>3, <3>1 DEF Covered, Announced, costVars
  <2>3. Truth(k)' = Truth(k)
    BY <1>1 DEF Truth, TotalCost, costVars
  <2> QED BY <1>1, <1>3, <2>1, <2>2, <2>3 DEF SummaryCovered, WorkerCovered
<1> QED BY <1>2, <1>3

\* Every step keeps every key covered.
LEMMA NextCovered == TypeInv /\ CoverInv /\ [Next]_vars => CoverInv'
<1> SUFFICES ASSUME TypeInv, CoverInv, [Next]_vars, NEW k \in Keys
             PROVE  (SummaryCovered(k) /\ WorkerCovered(k))'
  BY DEF CoverInv
<1>0. /\ clerks \in [Clerks -> ClerkTasks] /\ handlers \in [Keys -> Nat]
      /\ paid \in [Keys -> Nat] /\ channel \in Seq(Keys)
  BY DEF TypeInv, TypeOK, CostsTypeOK
<1>1. CASE CostsNext /\ UNCHANGED revenueVars
  BY <1>1, CostsCovered
<1>2. ASSUME NEW c \in Clerks, NEW l \in Keys, NEW sum \in Incomes[l], ChangeInvoices(c, l, sum)
      PROVE  (SummaryCovered(k) /\ WorkerCovered(k))'
  <2>1. Covered(k) => Covered(k)'
    BY <1>2, StaysAnnounced DEF ChangeInvoices
  <2>2. CASE l = k
    <3>1. clerks'[c] = On(k, "publish", NoRow)
      BY <1>0, <1>2, <2>2 DEF ChangeInvoices
    <3>2. clerks'[c].pc = "publish" /\ clerks'[c].key = k
      BY <3>1 DEF On, Off
    <3>3. Covered(k)'
      BY <3>2 DEF Covered, Announced
    <3> QED BY <1>2, <2>1, <3>3, QuietStep DEF ChangeInvoices
  <2>3. CASE l # k
    <3>1. paid'[k] = paid[k]
      BY <1>0, <1>2, <2>3 DEF ChangeInvoices
    <3> QED BY <1>2, <2>1, <3>1, QuietStep DEF ChangeInvoices
  <2> QED BY <2>2, <2>3
<1>3. ASSUME NEW l \in Keys, NEW sum \in Incomes[l], SettlePayment(l, sum)
      PROVE  (SummaryCovered(k) /\ WorkerCovered(k))'
  <2>1. Covered(k) => Covered(k)'
    BY <1>3 DEF SettlePayment, costVars, Covered, Announced
  <2>2. Covered(k)' \/ paid'[k] = paid[k]
    BY <1>0, <1>3 DEF SettlePayment, Covered
  <2> QED BY <1>3, <2>1, <2>2, QuietStep DEF SettlePayment, costVars
<1>4. ASSUME NEW c \in Clerks, InvoiceHalfUpdated(c)
      PROVE  (SummaryCovered(k) /\ WorkerCovered(k))'
  <2>1. Covered(k) => Covered(k)'
    <3>1. \A d \in Clerks \ {c} : clerks'[d] = clerks[d]
      BY <1>0, <1>4 DEF InvoiceHalfUpdated
    <3> QED BY <1>4, <3>1 DEF InvoiceHalfUpdated, Covered, Announced
  <2> QED BY <1>4, <2>1, QuietStep DEF InvoiceHalfUpdated
<1>5. ASSUME NEW l \in Keys, Enqueue(l)
      PROVE  (SummaryCovered(k) /\ WorkerCovered(k))'
  <2>1. /\ handlers'[k] = IF k = l THEN handlers[k] - 1 ELSE handlers[k]
        /\ Len(channel') = Len(channel) + 1 /\ channel'[Len(channel) + 1] = l
        /\ \A n \in 1..Len(channel) : channel'[n] = channel[n]
    BY <1>0, <1>5 DEF Enqueue
  <2>2. Len(channel) \in Nat
    BY <1>0
  <2>3. Covered(k) => Covered(k)'
    <3>1. CASE k = l
      BY <2>1, <2>2, <3>1 DEF Covered, Announced
    <3>2. CASE k # l
      BY <1>5, <2>1, <2>2, <3>2 DEF Enqueue, Covered, Announced
    <3> QED BY <3>1, <3>2
  <2> QED BY <1>5, <2>3, QuietStep DEF Enqueue
<1>6. ASSUME NEW l \in Keys, DropEvent(l)
      PROVE  (SummaryCovered(k) /\ WorkerCovered(k))'
  <2>1. k # l => handlers'[k] = handlers[k]
    BY <1>0, <1>6 DEF DropEvent
  <2>2. Covered(k) => Covered(k)'
    BY <1>6, <2>1 DEF DropEvent, Covered, Announced
  <2> QED BY <1>6, <2>2, QuietStep DEF DropEvent
<1>7. CASE TakeEvent
  BY <1>7, TakeStep
<1>8. CASE ReadRevenue \/ ReadCost \/ UpsertSummary
  BY <1>8, WorkerStep
<1>9. CASE ReadFails \/ UpsertFails
  <2>1. /\ Covered(k) => Covered(k)'
        /\ worker.key = k => Covered(k)'
        /\ Truth(k)' = Truth(k) /\ summaries' = summaries
    BY <1>9 DEF ReadFails, UpsertFails, Covered, Announced, Truth, TotalCost
  <2>2. worker'.key = worker.key \/ worker'.key = None
    BY <1>9 DEF ReadFails, UpsertFails, Waiting, TypeInv, TypeOK, WorkerTasks
  <2>3. worker.key # k => ~Refreshing(k) /\ worker'.key # k
    BY <2>2, CostsAssumption DEF Refreshing
  <2> QED BY <2>1, <2>3 DEF CoverInv, SummaryCovered, WorkerCovered
<1>10. CASE Restart
  <2>1. /\ Covered(k) \/ worker.key = k => Covered(k)'
        /\ Truth(k)' = Truth(k) /\ summaries' = summaries /\ worker'.key = None
    BY <1>10 DEF Restart, Waiting, Covered, Truth, TotalCost
  <2>2. worker'.key # k
    BY <2>1, CostsAssumption
  <2>3. Refreshing(k) => worker.key = k
    BY DEF Refreshing
  <2> QED BY <2>1, <2>2, <2>3 DEF CoverInv, SummaryCovered, WorkerCovered
<1>11. CASE UNCHANGED vars
  <2>1. Covered(k) => Covered(k)'
    BY <1>11 DEF vars, costVars, Covered, Announced
  <2> QED BY <1>11, <2>1, QuietStep DEF vars, costVars
<1> QED BY <1>1, <1>2, <1>3, <1>4, <1>5, <1>6, <1>7, <1>8, <1>9, <1>10, <1>11
        DEF Next, WorkerProgress

LEMMA InitCovered == Init => CoverInv
<1> SUFFICES ASSUME Init, NEW k \in Keys PROVE SummaryCovered(k) /\ WorkerCovered(k)
  BY DEF CoverInv
<1>1. summaries[k] = Truth(k)
  BY DEF Init, Truth
<1>2. worker.key # k
  BY CostsAssumption DEF Init, Waiting
<1> QED BY <1>1, <1>2 DEF SummaryCovered, WorkerCovered

\* A summary is out of date only while an event will refresh it or after one was
\* dropped, lost or never published (revenue_worker.go lines 56-105), for any
\* number of clerks and any capacity of the channel.
THEOREM NoneSilentlyStale == SafeSpec => []NoSilentStaleness
<1>1. SafeSpec => [](TypeInv /\ CoverInv)
  BY InitType, NextType, InitCovered, NextCovered, PTL DEF SafeSpec
<1>2. CoverInv => NoSilentStaleness
  BY DEF CoverInv, SummaryCovered, Covered, NoSilentStaleness
<1> QED BY <1>1, <1>2, PTL
-----------------------------------------------------------------------------
(* Cost records.                                                              *)

\* Whatever requests and jobs do at once, a month's record that is there is
\* changed by UpdateMonthlyCost only: house_costs has one row per house and
\* month, and both ways of creating one insert.
THEOREM RecordsKept == SafeSpec => CostRecordKept
<1>1. SafeSpec => []TypeInv
  BY InitType, NextType, PTL DEF SafeSpec
<1>2. ASSUME TypeInv, [Next]_vars, NEW k \in Keys, costs[k].exists, costs'[k] # costs[k]
      PROVE  \E c \in Clerks : clerks[c].pc = "update" /\ clerks[c].key = k
  <2>1. costs \in [Keys -> Rows]
    BY <1>2 DEF TypeInv, TypeOK, CostsTypeOK
  <2>2. costs' # costs
    BY <1>2
  <2>3. PICK c \in Clerks : InsertCost(c) \/ UpdateCost(c)
    BY <1>2, <2>2 DEF Next, vars, costVars, CostsNext, ClerkProgress, BeginCreate, BeginJob,
      BeginUpdate, ReadLatest, EndJob, SkipHouse, TakeHouse, InsertCostDuplicate, Publish,
      StatementFails, ChangeInvoices, SettlePayment, InvoiceHalfUpdated, Enqueue, DropEvent,
      WorkerProgress, TakeEvent, ReadRevenue, ReadCost, UpsertSummary, ReadFails, UpsertFails,
      Restart
  <2>4. clerks[c].key = k
    BY <1>2, <2>1, <2>3 DEF InsertCost, UpdateCost
  <2>5. ~InsertCost(c)
    BY <1>2, <2>4 DEF InsertCost
  <2> QED BY <2>3, <2>4, <2>5 DEF UpdateCost
<1>3. TypeInv /\ [Next]_vars =>
        [\A k \in Keys : costs[k].exists /\ costs'[k] # costs[k] =>
           \E c \in Clerks : clerks[c].pc = "update" /\ clerks[c].key = k]_vars
  BY <1>2
<1> QED BY <1>1, <1>3, PTL DEF SafeSpec, CostRecordKept
=============================================================================
