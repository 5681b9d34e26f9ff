----------------------------- MODULE CostEditor -----------------------------
(* The revenue page: the operating costs and the summaries of the chosen      *)
(* houses and month (useHouseCostStore), the costs typed for one house and    *)
(* saved on demand (useHouseCostEditor), and the question the page asks       *)
(* before it drops what was typed (RevenueView, useDirtyConfirm).             *)
EXTENDS Integers, FiniteSets

CONSTANTS
  Houses, FirstHouse,   \* the houses; the one chosen when none is
  Choices,              \* the sets of houses the user chooses
  Months,               \* consecutive periods
  Fields,               \* the amounts of a month's costs
  NoCost, NoTarget,
  MaxCostCalls,         \* bound on the requests under way
  MaxSteps              \* bound on the steps of a user who does not wait

CostSlots == 1..MaxCostCalls

ASSUME CostAssumption ==
  /\ FirstHouse \in Houses /\ Choices \subseteq SUBSET Houses
  /\ Months # {} /\ Months \subseteq Nat \ {0} /\ MaxCostCalls \in Nat /\ MaxSteps \in Nat

\* An amount is named by the month of the costs it was typed into; 0 was not
\* typed here: it was there, was copied from the month before, or was removed.
Costs == [Fields -> Months \cup {0}]
ASSUME NoCostAssumption == NoCost \notin Costs
Untyped == -1
NoEdits == [f \in Fields |-> Untyped]
Edits == [Fields -> Months \cup {0, Untyped}]

\* What a change is to: houses, a month, or another tab and back.
HouseTargets == {[to |-> "houses", pickedHouses |-> S] : S \in Choices}
MonthTargets == {[to |-> "month", month |-> m] : m \in Months}
TabTarget == [to |-> "tab"]
Targets == HouseTargets \cup MonthTargets \cup {TabTarget}

VARIABLES
  awaits,       \* the user awaits every answer
  costRows,     \* the costs on the server
  pickedHouses, month,\* selectedHouseIds, period
  costs,        \* what the store holds for each house: a month and its costs
  sums,         \* summaries: by house and month, the costs they count
  loadingCosts, \* isLoadingCosts
  edits,        \* editState
  saving,       \* isSaving
  pending,      \* pendingAction
  asking,       \* showConfirmClose
  costCalls,    \* the requests under way
  steps,        \* of a user who does not wait: the requests so far
  lostCosts     \* history: what an answer was lost of, and no fetch has made up for

costVars == <<awaits, costRows, pickedHouses, month, costs, sums, loadingCosts, edits, saving, pending,
              asking, costCalls, steps, lostCosts>>
editVars == <<edits, saving, pending, asking>>

Record(m, c) == [month |-> m, costs |-> c]
Records == [month : Months, costs : Costs] \cup {NoCost}
NoRows == [x \in {} |-> NoCost]
NoCostCall == [op |-> "none", home |-> FirstHouse, month |-> 1, want |-> {}, edits |-> NoEdits,
               costs |-> [f \in Fields |-> 0], typed |-> [h \in Houses |-> NoEdits],
               reply |-> NoRows, stage |-> "sent", mine |-> TRUE]

CostTypeOK ==
  /\ awaits \in BOOLEAN /\ costRows \in [Houses \X Months -> Costs \cup {NoCost}]
  /\ pickedHouses \in ({{FirstHouse}} \cup Choices) \ {{}} /\ month \in Months
  /\ DOMAIN costs \subseteq Houses /\ \A h \in DOMAIN costs : costs[h] \in Records
  /\ DOMAIN sums \subseteq Houses \X Months /\ \A x \in DOMAIN sums : sums[x] \in Costs
  /\ loadingCosts \in BOOLEAN /\ edits \in [Houses -> Edits] /\ saving \in [Houses -> BOOLEAN]
  /\ pending \in Targets \cup {NoTarget} /\ asking \in BOOLEAN
  /\ \A s \in CostSlots : /\ costCalls[s].op \in {"none", "costs", "sums", "create", "update"}
                          /\ costCalls[s].costs \in Costs /\ costCalls[s].edits \in Edits
  /\ steps \in 0..MaxSteps /\ lostCosts \subseteq {"costs", "sums"}

InFlight == {s \in CostSlots : costCalls[s].op # "none"}
Dirty == \E h \in Houses : edits[h] # NoEdits

RowsOf(S, m) == [h \in S |-> IF costRows[<<h, m>>] = NoCost THEN NoCost ELSE Record(m, costRows[<<h, m>>])]
SumsOf(S, m) == [x \in {x \in S \X {m} : costRows[x] # NoCost} |-> costRows[x]]

\* The page has been loaded.
CostInit ==
  /\ awaits \in BOOLEAN
  /\ costRows \in {[x \in Houses \X Months |-> IF x[2] \in S THEN [f \in Fields |-> 0] ELSE NoCost] :
                     S \in SUBSET Months}
  /\ pickedHouses = {FirstHouse} /\ month = CHOOSE m \in Months : TRUE
  /\ costs = RowsOf(pickedHouses, month) /\ sums = SumsOf(pickedHouses, month) /\ loadingCosts = FALSE
  /\ edits = [h \in Houses |-> NoEdits] /\ saving = [h \in Houses |-> FALSE]
  /\ pending = NoTarget /\ asking = FALSE
  /\ costCalls = [s \in CostSlots |-> NoCostCall] /\ steps = 0 /\ lostCosts = {}

AtPage == ~asking /\ (awaits => InFlight = {})
FreeSlot(taken) == CHOOSE s \in CostSlots \ (InFlight \cup taken) : TRUE
CanSend(n) == Cardinality(CostSlots \ InFlight) >= n
Step == (awaits \/ steps < MaxSteps) /\ steps' = IF awaits THEN steps ELSE steps + 1
Finish(s) == costCalls' = [costCalls EXCEPT ![s] = NoCostCall]

\* fetchCosts and fetchSummaries, of the page as it then is
SendFetches(S, m, calls) ==
  LET one == FreeSlot({}) two == FreeSlot({one}) IN
  /\ CanSend(2)
  /\ costCalls' = [calls EXCEPT ![one] = [NoCostCall EXCEPT !.op = "costs", !.want = S, !.month = m],
                                ![two] = [NoCostCall EXCEPT !.op = "sums", !.want = S, !.month = m]]
  /\ loadingCosts' = TRUE

\* setSelectedHouseIds (with none chosen the page chooses the first), setPeriod;
\* another tab and back: the page starts anew, the store stays, and handlers
\* under way can no longer change the page.
GoTo(t) ==
  CASE t.to = "tab" ->
         /\ edits' = [h \in Houses |-> NoEdits] /\ saving' = [h \in Houses |-> FALSE]
         /\ pending' = NoTarget /\ asking' = FALSE
         /\ SendFetches(pickedHouses, month,
              [s \in CostSlots |-> [costCalls[s] EXCEPT !.mine = (costCalls[s].op = "none")]])
         /\ UNCHANGED <<pickedHouses, month, costs, sums>>
    [] t.to = "houses" ->
         LET S == IF t.pickedHouses = {} THEN {FirstHouse} ELSE t.pickedHouses IN
         /\ pickedHouses' = S /\ SendFetches(S, month, costCalls)
         /\ IF t.pickedHouses = {} THEN costs' = NoRows /\ sums' = NoRows ELSE UNCHANGED <<costs, sums>>
         /\ UNCHANGED <<month, saving>>
    [] t.to = "month" ->
         /\ month' = t.month /\ SendFetches(pickedHouses, t.month, costCalls)
         /\ UNCHANGED <<pickedHouses, saving, costs, sums>>

Elsewhere(t) == t # [to |-> "houses", pickedHouses |-> pickedHouses] /\ t # [to |-> "month", month |-> month]

\* a change of month or houses that does not ask first
ChangeUnasked(t) ==
  /\ AtPage /\ Step /\ Elsewhere(t)
  /\ GoTo(t) /\ (t # TabTarget => UNCHANGED <<edits, pending, asking>>)
  /\ UNCHANGED <<awaits, costRows, lostCosts>>

\* What was typed makes the page ask first.
Change(t) ==
  /\ AtPage /\ Step /\ Elsewhere(t)
  /\ IF Dirty
     THEN /\ pending' = t /\ asking' = TRUE
          /\ UNCHANGED <<pickedHouses, month, costs, sums, loadingCosts, costCalls, edits, saving>>
     ELSE GoTo(t) /\ (t # TabTarget => UNCHANGED <<edits, pending, asking>>)
  /\ UNCHANGED <<awaits, costRows, lostCosts>>

HandleHouses == \E t \in HouseTargets : Change(t)
HandlePeriodChange == \E t \in MonthTargets : Change(t)
InterceptTab == Change(TabTarget)

\* handleDiscard: nobody closes the question, unless the page goes with it.
Discard(asks) ==
  /\ edits' = [h \in Houses |-> NoEdits]
  /\ IF pending = NoTarget
     THEN UNCHANGED <<pickedHouses, month, costs, sums, loadingCosts, costCalls, saving, pending>> /\ asking' = asks
     ELSE /\ GoTo(pending) /\ pending' = NoTarget
          /\ (pending # TabTarget => asking' = asks)
  /\ UNCHANGED <<awaits, costRows, lostCosts>>

Confirm == asking /\ (awaits => InFlight = {}) /\ Step /\ Discard(TRUE)

\* "Continue editing"
Decline ==
  /\ asking /\ asking' = FALSE
  /\ UNCHANGED <<awaits, costRows, pickedHouses, month, costs, sums, loadingCosts, edits, saving, pending, costCalls,
                 steps, lostCosts>>

Escape ==
  /\ AtPage /\ Step
  /\ IF Dirty
     THEN /\ asking' = TRUE
          /\ UNCHANGED <<awaits, costRows, pickedHouses, month, costs, sums, loadingCosts, edits, saving, pending,
                         costCalls, lostCosts>>
     ELSE Discard(FALSE)

-----------------------------------------------------------------------------
\* The table of costs is there for one house, once its costs are loaded.
Table(h) == pickedHouses = {h} /\ ~loadingCosts /\ h \in DOMAIN costs
Shown(h) == Table(h) /\ costs[h] # NoCost

\* handleFieldChange, handleExtraCostChange, handleAddExtraCost, EditNoteModal
TypeCost(h, f) ==
  /\ AtPage /\ Shown(h)
  /\ edits' = [edits EXCEPT ![h][f] = costs[h].month]
  /\ UNCHANGED <<awaits, costRows, pickedHouses, month, costs, sums, loadingCosts, saving, pending, asking, costCalls,
                 steps, lostCosts>>

Merged(c, e) == [f \in Fields |-> IF e[f] = Untyped THEN c[f] ELSE e[f]]

\* updateCost: the costs in the store with the edits, under the record's id
Send(h, e) ==
  /\ AtPage /\ Step /\ Shown(h) /\ CanSend(1)
  /\ saving' = [saving EXCEPT ![h] = TRUE]
  /\ costCalls' = [costCalls EXCEPT ![FreeSlot({})] =
       [NoCostCall EXCEPT !.op = "update", !.home = h, !.month = costs[h].month, !.edits = e,
                          !.costs = Merged(costs[h].costs, e), !.typed = edits]]
  /\ UNCHANGED <<awaits, costRows, pickedHouses, month, costs, sums, loadingCosts, edits, pending, asking, lostCosts>>

SaveCost(h) == ~saving[h] /\ edits[h] # NoEdits /\ Send(h, edits[h])

\* Removing an extra cost saves at once, with whatever else was typed.
RemoveExtraCost(h, f) == Send(h, [edits[h] EXCEPT ![f] = 0])

CreateMonthCost(h) ==
  /\ AtPage /\ Step /\ Table(h) /\ costs[h] = NoCost /\ CanSend(1)
  /\ costCalls' = [costCalls EXCEPT ![FreeSlot({})] =
       [NoCostCall EXCEPT !.op = "create", !.home = h, !.month = month]]
  /\ UNCHANGED <<awaits, costRows, pickedHouses, month, costs, sums, loadingCosts, editVars, lostCosts>>

-----------------------------------------------------------------------------
ServeCosts(s) ==
  LET c == costCalls[s] x == <<c.home, c.month>> IN
  /\ c.op # "none" /\ c.stage = "sent"
  /\ CASE c.op = "create" -> costRows[x] = NoCost /\ costRows' = [costRows EXCEPT ![x] = [f \in Fields |-> 0]]
       [] c.op = "update" -> costRows' = [costRows EXCEPT ![x] = c.costs]
       [] OTHER -> UNCHANGED costRows
  /\ costCalls' = [costCalls EXCEPT ![s].stage = "served", ![s].reply =
       CASE c.op = "costs" -> RowsOf(c.want, c.month)
         [] c.op = "sums" -> SumsOf(c.want, c.month)
         [] OTHER -> NoRows]
  /\ UNCHANGED <<awaits, pickedHouses, month, costs, sums, loadingCosts, editVars, steps, lostCosts>>

Served(op, s) == costCalls[s].op = op /\ costCalls[s].stage = "served" /\ Finish(s)

CostsFetched(s) ==
  /\ Served("costs", s) /\ costs' = costCalls[s].reply /\ loadingCosts' = FALSE
  /\ lostCosts' = lostCosts \ {"costs"}
  /\ UNCHANGED <<awaits, costRows, pickedHouses, month, sums, editVars, steps>>

SumsFetched(s) ==
  /\ Served("sums", s) /\ sums' = costCalls[s].reply
  /\ lostCosts' = lostCosts \ {"sums"}
  /\ UNCHANGED <<awaits, costRows, pickedHouses, month, costs, loadingCosts, editVars, steps>>

Counted(x, c) == [y \in DOMAIN sums \cup {x} |-> IF y = x THEN c ELSE sums[y]]
Kept(h, r) == [g \in DOMAIN costs \cup {h} |-> IF g = h THEN r ELSE costs[g]]

CostCreated(s) ==
  LET c == costCalls[s] IN
  /\ Served("create", s)
  /\ costs' = Kept(c.home, Record(c.month, [f \in Fields |-> 0]))
  /\ sums' = Counted(<<c.home, c.month>>, [f \in Fields |-> 0])
  /\ UNCHANGED <<awaits, costRows, pickedHouses, month, loadingCosts, editVars, steps, lostCosts>>

\* The edits go into whatever costs the store then holds for the house, and the
\* page's edits are those of the time of the save, without the house.
CostUpdated(s) ==
  LET c == costCalls[s] h == c.home IN
  /\ Served("update", s)
  /\ IF h \in DOMAIN costs /\ costs[h] # NoCost
     THEN LET r == Record(costs[h].month, Merged(costs[h].costs, c.edits)) IN
          costs' = Kept(h, r) /\ sums' = Counted(<<h, r.month>>, r.costs)
     ELSE UNCHANGED <<costs, sums>>
  /\ edits' = IF c.mine THEN [c.typed EXCEPT ![h] = NoEdits] ELSE edits
  /\ saving' = IF c.mine THEN [saving EXCEPT ![h] = FALSE] ELSE saving
  /\ UNCHANGED <<awaits, costRows, pickedHouses, month, loadingCosts, pending, asking, steps, lostCosts>>

CostCallFails(s) ==
  LET c == costCalls[s] IN
  /\ c.op # "none" /\ Finish(s)
  /\ loadingCosts' = (loadingCosts /\ c.op # "costs")
  /\ saving' = IF c.op = "update" /\ c.mine THEN [saving EXCEPT ![c.home] = FALSE] ELSE saving
  /\ lostCosts' = lostCosts \cup CASE c.op \in {"costs", "sums"} -> {c.op}
                                [] c.op \in {"create", "update"} /\ c.stage = "served" -> {"costs", "sums"}
                                [] OTHER -> {}
  /\ UNCHANGED <<awaits, costRows, pickedHouses, month, costs, sums, edits, pending, asking, steps>>

CostNext ==
  \/ HandleHouses \/ HandlePeriodChange \/ InterceptTab
  \/ Confirm \/ Decline \/ Escape
  \/ \E h \in Houses : SaveCost(h) \/ CreateMonthCost(h) \/ \E f \in Fields : TypeCost(h, f) \/ RemoveExtraCost(h, f)
  \/ \E s \in CostSlots :
       \/ ServeCosts(s) \/ CostsFetched(s) \/ SumsFetched(s) \/ CostCreated(s) \/ CostUpdated(s) \/ CostCallFails(s)

-----------------------------------------------------------------------------
(* What a user who awaits every answer types into a month's costs is stored   *)
(* for that month: no edit is carried into the costs of another one, whatever *)
(* was asked, declined, discarded, removed or lost in between.                *)
CostsStayInTheirMonth ==
  awaits => \A h \in Houses, m \in Months : costRows[<<h, m>>] # NoCost =>
              \A f \in Fields : costRows[<<h, m>>][f] \in {0, m}

(* Once everything is answered, the page shows the server's costs of the      *)
(* chosen month, and the summaries, which it recomputes by itself after a     *)
(* save, count the same costs.                                                *)
CostsMatchServer ==
  awaits /\ InFlight = {} /\ lostCosts = {} =>
    /\ costs = RowsOf(pickedHouses, month)
    /\ sums = SumsOf(pickedHouses, month)

(* The page shows what is stored, and what is stored was meant for its month. *)
CostsHold == CostsStayInTheirMonth /\ CostsMatchServer
=============================================================================
