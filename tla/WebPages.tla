------------------------------ MODULE WebPages ------------------------------
(* The pages of the web client that list and edit the manager's data.  A      *)
(* behaviour is that of one of them: the list of invoices with its detail and *)
(* edit forms, the sheet of meter readings, the form for one invoice, the     *)
(* houses, rooms and tenants, or the operating costs.  They meet only on the  *)
(* server, which the other modules of this project are about.                 *)
EXTENDS InvoiceDesk, QuickEntry, InvoiceForm, EntityStore, CostEditor

VARIABLE page

Pages == {"list", "sheet", "form", "entities", "costs"}

vars == <<page, deskVars, quickVars, formVars, storeVars, costVars>>

\* The pages that are not shown stay as they are at first.
Init ==
  /\ page \in Pages /\ DeskInit /\ QuickInit /\ FormInit /\ StoreInit /\ CostInit
  /\ page # "list" => ~alone /\ rows = [i \in Invoices |-> "UNPAID"]
  /\ page # "form" => mode = (CHOOSE m \in Modes : TRUE) /\ offered = Unset
  /\ page # "entities" => /\ ~orderly /\ kind = (CHOOSE k \in StoreKinds : TRUE)
                          /\ shown = (CHOOSE h \in StoreHouses : TRUE)
  /\ page # "costs" => ~awaits /\ \A x \in Houses \X Months : costRows[x] = NoCost

Next ==
  /\ UNCHANGED page
  /\ \/ page = "list" /\ DeskNext /\ UNCHANGED <<quickVars, formVars, storeVars, costVars>>
     \/ page = "sheet" /\ QuickNext /\ UNCHANGED <<deskVars, formVars, storeVars, costVars>>
     \/ page = "form" /\ FormNext /\ UNCHANGED <<deskVars, quickVars, storeVars, costVars>>
     \/ page = "entities" /\ StoreNext /\ UNCHANGED <<deskVars, quickVars, formVars, costVars>>
     \/ page = "costs" /\ CostNext /\ UNCHANGED <<deskVars, quickVars, formVars, storeVars>>

Spec == Init /\ [][Next]_vars

\* Whatever is on screen, the stores, forms and requests hold values of their types.
TypeOK ==
  /\ page \in Pages /\ DeskTypeOK /\ QuickTypeOK /\ FormTypeOK
  /\ StoreTypeOK /\ CostTypeOK
=============================================================================
