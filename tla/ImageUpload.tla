---------------------------- MODULE ImageUpload ----------------------------
(* The upload path of the tenant form: useUploadFiles hands every selection   *)
(* to compressImagesForUpload, whose two runners share a cursor, and appends  *)
(* the results to the form's files.  Small files and files of another type    *)
(* need no worker.                                                            *)
EXTENDS ImageCompression, FiniteSetsExt

CONSTANTS
  MaxSelections,  \* bound on the selections made on one form
  MaxSelected,    \* bound on the files of a selection
  MaxChosen,      \* bound on the files chosen in all
  MaxParallel     \* MAX_PARALLEL, 2 in the code

Selections == 1..MaxSelections
Positions == 1..MaxSelected

ASSUME UploadAssumption ==
  /\ MaxSelections \in Nat /\ MaxSelected \in Nat /\ MaxChosen \in Nat /\ MaxParallel \in Nat \ {0}
  /\ Selections \X Positions \subseteq Jobs

Kinds == {"large", "small"}   \* compressed by the worker, or taken as they are

VARIABLES
  selections,   \* what compressImagesForUpload knows of each selection
  files,        \* the form's files, in the order they will be sent
  optimizing,   \* isOptimizing
  form,         \* "open", "sending" or "closed"
  removed       \* history: the files the user took out again

uploadVars == <<service, selections, files, optimizing, form, removed>>
formVars == <<selections, files, optimizing, form, removed>>

Unused == [kinds |-> <<>>, cursor |-> 1, awaited |-> {}, slots |-> <<>>, open |-> FALSE]

UploadTypeOK ==
  /\ selections \in [Selections ->
       [kinds : Seq(Kinds), cursor : 1..(MaxSelected + 1), awaited : SUBSET Positions,
        slots : Seq(0..MaxSelected), open : BOOLEAN]]
  /\ files \in Seq(Selections \X Positions)
  /\ optimizing \in BOOLEAN /\ form \in {"open", "sending", "closed"}
  /\ removed \subseteq Selections \X Positions

UploadInit ==
  /\ ServiceInit
  /\ selections = [b \in Selections |-> Unused]
  /\ files = <<>> /\ optimizing = FALSE /\ removed = {}
  /\ form = "open"

Length(sel) == Len(sel.kinds)
OpenSelections == {b \in Selections : selections[b].open}

\* The runners take positions from the cursor until each one awaits the worker.
Large(sel) == {i \in sel.cursor..Length(sel) : sel.kinds[i] = "large"}
Free(sel) == MaxParallel - Cardinality(sel.awaited)
Taken(sel) == {i \in Large(sel) : Cardinality({k \in Large(sel) : k < i}) < Free(sel)}
Advance(sel) ==
  LET next == IF Cardinality(Large(sel)) < Free(sel) THEN Length(sel) + 1
              ELSE Max(Taken(sel)) + 1
  IN [sel EXCEPT !.cursor = next, !.awaited = @ \cup Taken(sel),
                 !.slots = [i \in DOMAIN @ |->
                    IF i \in sel.cursor..(next - 1) /\ sel.kinds[i] = "small" THEN i ELSE @[i]]]

\* Each job in its turn, as Posted does.
PostAll(s, b, taken) ==
  LET order == InOrder(taken) IN
  IF taken = {} THEN s
  ELSE [s EXCEPT !.alive = TRUE, !.timer = FALSE, !.posted = @ \cup {<<b, i>> : i \in taken},
                 !.pending = @ \o [k \in DOMAIN order |-> <<b, order[k]>>]]

\* results.push(...) instead of results[index] = ...
StoreInTurn(sel, i) ==
  LET n == CHOOSE k \in DOMAIN sel.slots : sel.slots[k] = 0 /\ \A m \in 1..(k - 1) : sel.slots[m] # 0
  IN [sel EXCEPT !.slots[n] = i, !.awaited = @ \ {i}]

\* results[index] = await compressImageForUpload(...): compressed, or the
\* original where compressing failed or did not pay.
Store(sel, i) == [sel EXCEPT !.slots[i] = i, !.awaited = @ \ {i}]

Complete(sel) == sel.awaited = {} /\ sel.cursor > Length(sel)

\* setFiles(prev => [...prev, ...results]), then the pending count.
Settle(b, sel) ==
  IF Complete(sel)
  THEN /\ files' = files \o [i \in DOMAIN sel.slots |-> <<b, sel.slots[i]>>]
       /\ selections' = [selections EXCEPT ![b] = [sel EXCEPT !.open = FALSE]]
       /\ optimizing' = (OpenSelections \ {b} # {})
  ELSE /\ selections' = [selections EXCEPT ![b] = sel]
       /\ optimizing' = TRUE
       /\ UNCHANGED files

\* What the properties and the bound need of the past.
ChosenFiles == UNION {{<<b, i>> : i \in 1..Length(selections[b])} : b \in Selections}

SelectFiles(kinds) ==
  LET b == Cardinality({c \in Selections : selections[c] # Unused}) + 1
      sel == Advance([Unused EXCEPT !.kinds = kinds, !.open = TRUE,
                                    !.slots = [i \in DOMAIN kinds |-> 0]])
  IN /\ Quiet /\ form # "closed" /\ b \in Selections /\ kinds # <<>>
     /\ Cardinality(ChosenFiles) + Len(kinds) <= MaxChosen
     /\ ~optimizing                 \* the picker is disabled meanwhile
     /\ service' = PostAll(service, b, sel.awaited)
     /\ Settle(b, sel)
     /\ UNCHANGED <<form, removed>>

\* A runner goes on after the answer for one file, good or bad.
FileCompressed(b, i) ==
  LET sel == Store(selections[b], i)
      next == Advance(sel)
      Go(s) == service' = PostAll(s, b, next.awaited \ sel.awaited)
  IN /\ \/ CanAnswer(<<b, i>>) /\ Go(Answered(service, <<b, i>>))
        \/ CanReject(<<b, i>>) /\ Go(Rejected(service))
     /\ Settle(b, next)
     /\ UNCHANGED <<form, removed>>

RemoveFile(n) ==
  /\ Quiet /\ form # "closed" /\ ~optimizing
  /\ files' = RemoveAt(files, n)
  /\ removed' = removed \cup {files[n]}
  /\ UNCHANGED <<service, selections, optimizing, form>>

\* onSubmit builds the form data from the files of the moment.
Submit ==
  /\ Quiet /\ form = "open" /\ ~optimizing
  /\ form' = "sending"
  /\ UNCHANGED <<service, selections, files, optimizing, removed>>

\* createTenant answers: onSuccess closes the form, an error leaves it as it is.
SubmitAnswered ==
  /\ Quiet /\ form = "sending"
  /\ form' \in {"open", "closed"}
  /\ UNCHANGED <<service, selections, files, optimizing, removed>>

Cancel ==
  /\ Quiet /\ form # "closed"
  /\ form' = "closed"
  /\ UNCHANGED <<service, selections, files, optimizing, removed>>

UploadNext ==
  \/ \E n \in Positions : \E kinds \in [1..n -> Kinds] : SelectFiles(kinds)
  \/ \E b \in OpenSelections : \E i \in selections[b].awaited : FileCompressed(b, i)
  \/ \E n \in DOMAIN files : RemoveFile(n)
  \/ Submit
  \/ SubmitAnswered
  \/ Cancel
  \/ (WorkerFails \/ IdleTimeout) /\ UNCHANGED formVars

RunnerContinues(b) == \E i \in selections[b].awaited : FileCompressed(b, i)
UploadFairness == \A b \in Selections : WF_uploadVars(RunnerContinues(b))

-----------------------------------------------------------------------------
Before(x, y) == \E m, n \in DOMAIN files : m < n /\ files[m] = x /\ files[n] = y

(* A submitted tenant form carries every chosen file that was not taken out,  *)
(* once, in the order of choice, although the worker answers in any order,    *)
(* may fail, and most files of a selection are still to come when its first   *)
(* one is ready; also when an earlier submission failed.                      *)
SubmittedFilesComplete ==
  [][form' = "sending" =>
       /\ ToSet(files) = ChosenFiles \ removed
       /\ Cardinality(ToSet(files)) = Len(files)
       /\ \A x, y \in ToSet(files) : x[1] = y[1] /\ x[2] < y[2] => Before(x, y)]_form
=============================================================================
