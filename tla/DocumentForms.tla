--------------------------- MODULE DocumentForms ---------------------------
(* The forms that keep uploaded documents: a house's own papers               *)
(* (HouseDocumentsSection), a tenant's identity cards (TenantEditModal) and a *)
(* room's contract (EditRoomModal).  An upload or a deletion is saved at      *)
(* once: the request carries the new files and the paths to keep, as the form *)
(* showed them when the handler ran, and the server writes exactly those.     *)
EXTENDS Integers, Sequences, FiniteSets

CONSTANTS
  MaxDocRequests,  \* bound on the requests of a behaviour
  MaxOpenings,  \* bound on how often the form is opened
  NoFile

Forms == {"house", "tenant", "room"}
PaperKinds == {"cccd", "contract"}
KindsOf(f) == CASE f = "house" -> PaperKinds [] f = "tenant" -> {"cccd"} [] f = "room" -> {"contract"}

FirstKind(f) == IF f = "room" THEN "contract" ELSE "cccd"

\* A new file is named by the request that uploads it; 0 was there before.
Files == 0..MaxDocRequests
Papers == [PaperKinds -> SUBSET Files]

ASSUME DocumentAssumption == MaxDocRequests \in Nat /\ MaxOpenings \in Nat \ {0} /\ NoFile \notin Files

VARIABLES
  which,        \* the form of this behaviour
  saved,        \* the columns of the row on the server
  store,        \* the row in the client's data store
  shownFiles,        \* the paths the form shows
  dialog,       \* busyKind, the file awaiting confirmation, isDeleting, isSubmitting
  opening,      \* how often the form was opened, and whether it is open
  docRequests,  \* the requests, answered ones included
  promised,     \* history: what the user was told is saved, and is deleted
  leftBusy      \* history: the form was closed with a request under way

docVars == <<which, saved, store, shownFiles, dialog, opening, docRequests, promised, leftBusy>>

NoPapers == [k \in PaperKinds |-> {}]
Rest == [busy |-> {}, file |-> NoFile, kind |-> "cccd", deleting |-> FALSE, submitting |-> FALSE]

DocTypeOK ==
  /\ which \in Forms
  /\ saved \in Papers /\ store \in Papers /\ shownFiles \in Papers
  /\ dialog \in [busy : SUBSET PaperKinds, file : Files \cup {NoFile}, kind : PaperKinds,
                 deleting : BOOLEAN, submitting : BOOLEAN]
  /\ opening \in [times : 1..MaxOpenings, open : BOOLEAN]
  /\ docRequests \in Seq([type : {"upload", "delete", "submit"}, kind : PaperKinds, file : Files \cup {NoFile},
                          kept : Papers, reply : Papers, from : 1..MaxOpenings,
                          stage : {"sent", "saved", "done"}])
  /\ promised \in [kept : SUBSET Files, gone : SUBSET Files]
  /\ leftBusy \in BOOLEAN

DocInit ==
  /\ which \in Forms
  /\ saved = [k \in PaperKinds |-> IF k = FirstKind(which) THEN {0} ELSE {}]
  /\ store = saved /\ shownFiles = saved
  /\ dialog = Rest /\ opening = [times |-> 1, open |-> TRUE]
  /\ docRequests = <<>> /\ promised = [kept |-> {0}, gone |-> {}] /\ leftBusy = FALSE

DocsInFlight == {n \in DOMAIN docRequests : docRequests[n].stage # "done"}
Mine(n) == opening.open /\ docRequests[n].from = opening.times

SendFiles(type, kind, file, kept) ==
  /\ Len(docRequests) < MaxDocRequests
  /\ docRequests' = Append(docRequests,
       [type |-> type, kind |-> kind, file |-> file, kept |-> kept, reply |-> NoPapers,
        from |-> opening.times, stage |-> "sent"])

\* The confirmation is a dialog over the form.
AtForm == opening.open /\ dialog.file = NoFile

\* an upload button that stays enabled
StartUploadAnyTime(kind) ==
  /\ AtForm
  /\ dialog' = [dialog EXCEPT !.busy = {kind}]
  /\ SendFiles("upload", kind, Len(docRequests) + 1, shownFiles)
  /\ UNCHANGED <<which, saved, store, shownFiles, opening, promised, leftBusy>>

\* handleUpload: only the kind last started counts as busy.
StartUpload(kind) ==
  /\ AtForm /\ kind \notin dialog.busy
  /\ dialog' = [dialog EXCEPT !.busy = {kind}]
  /\ SendFiles("upload", kind, Len(docRequests) + 1, shownFiles)
  /\ UNCHANGED <<which, saved, store, shownFiles, opening, promised, leftBusy>>

AskDelete(kind, file) ==
  /\ AtForm /\ kind \notin dialog.busy /\ file \in shownFiles[kind]
  /\ dialog' = [dialog EXCEPT !.file = file, !.kind = kind]
  /\ UNCHANGED <<which, saved, store, shownFiles, opening, docRequests, promised, leftBusy>>

CancelDelete ==
  /\ opening.open /\ dialog.file # NoFile /\ ~dialog.deleting
  /\ dialog' = [dialog EXCEPT !.file = NoFile]
  /\ UNCHANGED <<which, saved, store, shownFiles, opening, docRequests, promised, leftBusy>>

ConfirmDelete ==
  /\ opening.open /\ dialog.file # NoFile /\ ~dialog.deleting
  /\ dialog' = [dialog EXCEPT !.deleting = TRUE]
  /\ SendFiles("delete", dialog.kind, dialog.file, [shownFiles EXCEPT ![dialog.kind] = @ \ {dialog.file}])
  /\ promised' = [promised EXCEPT !.kept = @ \ {dialog.file}]
  /\ UNCHANGED <<which, saved, store, shownFiles, opening, leftBusy>>

\* Saving a tenant's other data sends the kept paths as well.
SubmitTenant ==
  /\ which = "tenant" /\ AtForm /\ dialog.busy = {} /\ ~dialog.submitting
  /\ dialog' = [dialog EXCEPT !.submitting = TRUE]
  /\ SendFiles("submit", "cccd", NoFile, shownFiles)
  /\ UNCHANGED <<which, saved, store, shownFiles, opening, promised, leftBusy>>

Leave ==
  /\ opening' = [opening EXCEPT !.open = FALSE]
  /\ dialog' = Rest
  /\ leftBusy' = (leftBusy \/ DocsInFlight # {})

\* "Cancel", the cross, Escape, or the room's and the house's own save.
CloseForm ==
  /\ AtForm /\ Leave
  /\ UNCHANGED <<which, saved, store, shownFiles, docRequests, promised>>

\* The form's state starts from the store's row.
ReopenForm ==
  /\ ~opening.open /\ opening.times < MaxOpenings
  /\ opening' = [times |-> opening.times + 1, open |-> TRUE]
  /\ shownFiles' = store
  /\ UNCHANGED <<which, saved, store, dialog, docRequests, promised, leftBusy>>

-----------------------------------------------------------------------------
\* UpdateHouseDocuments, UpdateRoomContract, UpdateTenantInfo
WithFile(q) ==
  [k \in PaperKinds |-> IF q.type = "upload" /\ k = q.kind THEN q.kept[k] \cup {q.file} ELSE q.kept[k]]

ServerSaves(n) ==
  /\ docRequests[n].stage = "sent"
  /\ saved' = WithFile(docRequests[n])
  /\ docRequests' = [docRequests EXCEPT ![n].stage = "saved", ![n].reply = WithFile(docRequests[n])]
  /\ UNCHANGED <<which, store, shownFiles, dialog, opening, promised, leftBusy>>

Done(n) == docRequests' = [docRequests EXCEPT ![n].stage = "done"]

\* The handlers' finally.
Finished(q) ==
  CASE q.type = "upload" -> [dialog EXCEPT !.busy = {}]
    [] q.type = "delete" -> [dialog EXCEPT !.deleting = FALSE]
    [] q.type = "submit" -> [dialog EXCEPT !.submitting = FALSE]

\* An error answer, or an answer that is lost after the server has saved.
RequestFails(n) ==
  /\ docRequests[n].stage \in {"sent", "saved"} /\ Done(n)
  /\ dialog' = IF Mine(n) THEN Finished(docRequests[n]) ELSE dialog
  /\ UNCHANGED <<which, saved, store, shownFiles, opening, promised, leftBusy>>

\* The success answer carries the row that was written.
DocAnswered(n) ==
  LET q == docRequests[n] IN
  /\ q.stage = "saved" /\ Done(n)
  /\ store' = q.reply
  /\ promised' = CASE q.type = "upload" -> [promised EXCEPT !.kept = @ \cup {q.file}]
                   [] q.type = "delete" -> [promised EXCEPT !.gone = @ \cup {q.file}]
                   [] q.type = "submit" -> promised
  /\ IF q.type = "submit" /\ Mine(n)
     THEN /\ opening' = [opening EXCEPT !.open = FALSE] /\ dialog' = Rest
          /\ leftBusy' = (leftBusy \/ DocsInFlight # {n})
          /\ UNCHANGED shownFiles
     ELSE /\ shownFiles' = IF Mine(n) THEN q.reply ELSE shownFiles
          /\ dialog' = IF ~Mine(n) THEN dialog
                       ELSE IF q.type = "delete" THEN [Finished(q) EXCEPT !.file = NoFile]
                       ELSE Finished(q)
          /\ UNCHANGED <<opening, leftBusy>>
  /\ UNCHANGED <<which, saved>>

RequestEnds(n) == n \in DOMAIN docRequests /\ (RequestFails(n) \/ DocAnswered(n))

RequestOf(type) == \E n \in DOMAIN docRequests : docRequests[n].type = type /\ (RequestFails(n) \/ DocAnswered(n))

\* Each form's handlers, with what they do before their request and after.
HandleUpload == (\E k \in KindsOf(which) : StartUpload(k)) \/ RequestOf("upload")
HandleDelete == (\E k \in KindsOf(which), f \in Files : AskDelete(k, f)) \/ CancelDelete \/ ConfirmDelete
                \/ RequestOf("delete")

UploadHousePapers == which = "house" /\ HandleUpload
DeleteHousePaper == which = "house" /\ HandleDelete
UploadCards == which = "tenant" /\ HandleUpload
DeleteCard == which = "tenant" /\ HandleDelete
SubmitCards == SubmitTenant \/ RequestOf("submit")
UploadContract == which = "room" /\ HandleUpload
DeleteContract == which = "room" /\ HandleDelete

DocNext ==
  \/ UploadHousePapers \/ DeleteHousePaper
  \/ UploadCards \/ DeleteCard \/ SubmitCards
  \/ UploadContract \/ DeleteContract
  \/ CloseForm
  \/ ReopenForm
  \/ \E n \in DOMAIN docRequests : ServerSaves(n)

\* A request ends with an answer or an error.
DocFairness == WF_docVars(\E n \in DOMAIN docRequests : RequestEnds(n))

-----------------------------------------------------------------------------
(* What the user was told is saved is on the server, and what the user was    *)
(* told is deleted is not.                                                    *)
DocumentsKept == promised.kept \subseteq UNION {saved[k] : k \in PaperKinds}
                 /\ promised.gone \cap UNION {saved[k] : k \in PaperKinds} = {}

(* A room's contract form keeps that promise, also when answers are lost and  *)
(* the form is opened again, as long as it is not left with a request under   *)
(* way: its disabled controls keep its requests from overlapping.             *)
RoomDocumentsKept == which = "room" /\ ~leftBusy => DocumentsKept

(* "Files are saved as soon as they are uploaded or deleted": so do a house's *)
(* own papers.                                                                *)
HousePapersKept == which = "house" /\ ~leftBusy => DocumentsKept

(* A form that says "saving" awaits an answer for it, and the confirmation    *)
(* that says "deleting" awaits that of its own file: whatever overlaps, no    *)
(* control stays disabled for a request that has ended.                       *)
BusyHasRequest ==
  opening.open =>
    /\ \A k \in dialog.busy : \E n \in DocsInFlight : Mine(n) /\ docRequests[n].type = "upload" /\ docRequests[n].kind = k
    /\ dialog.deleting => \E n \in DocsInFlight : Mine(n) /\ docRequests[n].type = "delete"
                                              /\ docRequests[n].file = dialog.file
    /\ dialog.submitting => \E n \in DocsInFlight : Mine(n) /\ docRequests[n].type = "submit"

(* A document form keeps its word and never hangs.                            *)
DocumentsHold == RoomDocumentsKept /\ BusyHasRequest
=============================================================================
