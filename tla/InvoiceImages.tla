--------------------------- MODULE InvoiceImages ---------------------------
(* Pictures of invoices.  InvoicesView fetches them from the server, one for  *)
(* the preview of a row and one after the other to download the whole list;   *)
(* the detail modal draws its own.  A fetched picture becomes an object URL   *)
(* that whoever made it must revoke, and a view that was left and shown again *)
(* knows nothing of what the earlier one still awaits.                        *)
EXTENDS Integers, Sequences, FiniteSets

CONSTANTS
  Bills,        \* the invoices
  MaxPictures,  \* bound on the pictures fetched
  MaxVisits     \* bound on the times the view is shown

ASSUME PicturesAssumption == MaxPictures \in Nat /\ MaxVisits \in Nat \ {0} /\ IsFiniteSet(Bills)

VARIABLES
  oneByOne,     \* the user awaits a preview before anything else
  visit,        \* which showing of the view this is
  billsShown,   \* invoices, of the store
  pictures,     \* every picture asked for: for a row when run is 0
  previewed,    \* previewData: the picture on screen, 0 for none
  pictureUrls,  \* the pictures whose object URL is not revoked
  runsOfAll,    \* every press of "download all"
  downloadingAll, \* isDownloadingAll
  detail        \* the detail modal: what it draws, and whether it shows a drawing

pictureVars == <<oneByOne, visit, billsShown, pictures, previewed, pictureUrls, runsOfAll, downloadingAll, detail>>

Drawings == {"preview", "download"}
NoDetail == [open |-> FALSE, drawing |-> {}, shown |-> FALSE]
Numbers == 0..MaxPictures

PictureTypeOK ==
  /\ oneByOne \in BOOLEAN /\ visit \in 1..MaxVisits /\ billsShown \subseteq Bills
  /\ pictures \in Seq([of : Bills, run : 0..MaxPictures, visit : 1..MaxVisits, state : {"asked", "saved", "done"}])
  /\ previewed \in Numbers /\ pictureUrls \subseteq Numbers /\ downloadingAll \in BOOLEAN
  /\ runsOfAll \in Seq([listed : SUBSET Bills, left : SUBSET Bills, current : Numbers, visit : 1..MaxVisits])
  /\ detail \in [open : BOOLEAN, drawing : SUBSET Drawings, shown : BOOLEAN]

PictureInit ==
  /\ oneByOne \in BOOLEAN /\ visit = 1 /\ billsShown = Bills /\ pictures = <<>> /\ previewed = 0
  /\ pictureUrls = {} /\ runsOfAll = <<>> /\ downloadingAll = FALSE /\ detail = NoDetail

ForRow(n) == n \in DOMAIN pictures /\ pictures[n].run = 0 /\ pictures[n].state = "asked"
AtRest == \A n \in DOMAIN pictures : ~ForRow(n)
ListIsFree == previewed = 0 /\ ~detail.open /\ (oneByOne => AtRest)

AskFor(b, run, v) == Append(pictures, [of |-> b, run |-> run, visit |-> v, state |-> "asked"])
Coming == {kb \in (DOMAIN runsOfAll) \X Bills : kb[2] \in runsOfAll[kb[1]].left}
MayAsk(k) == Len(pictures) + Cardinality(Coming) + k <= MaxPictures

\* The list was fetched again, or changed by the user.
ListChanges(list) ==
  /\ ListIsFree /\ list # billsShown /\ billsShown' = list
  /\ UNCHANGED <<oneByOne, visit, pictures, previewed, pictureUrls, runsOfAll, downloadingAll, detail>>

\* handleDownload of InvoicesView
Download(b) ==
  /\ ListIsFree /\ b \in billsShown /\ MayAsk(1)
  /\ pictures' = AskFor(b, 0, visit)
  /\ UNCHANGED <<oneByOne, visit, billsShown, previewed, pictureUrls, runsOfAll, downloadingAll, detail>>

\* A view that was left makes the object URL and has nowhere to show it.
PreviewReady(n) ==
  /\ ForRow(n) /\ pictures' = [pictures EXCEPT ![n].state = "done"]
  /\ pictureUrls' = pictureUrls \cup {n}
  /\ previewed' = IF pictures[n].visit = visit THEN n ELSE previewed
  /\ UNCHANGED <<oneByOne, visit, billsShown, runsOfAll, downloadingAll, detail>>

PreviewFails(n) ==
  /\ ForRow(n) /\ pictures' = [pictures EXCEPT ![n].state = "done"]
  /\ UNCHANGED <<oneByOne, visit, billsShown, previewed, pictureUrls, runsOfAll, downloadingAll, detail>>

ClosePreview ==
  /\ previewed # 0 /\ pictureUrls' = pictureUrls \ {previewed} /\ previewed' = 0
  /\ UNCHANGED <<oneByOne, visit, billsShown, pictures, runsOfAll, downloadingAll, detail>>

-----------------------------------------------------------------------------
(* handleDownloadAll: the list as it was at the press, whatever it is by now. *)
Unfinished(k) == runsOfAll[k].current # 0

DownloadAll(b) ==
  /\ ListIsFree /\ ~downloadingAll /\ b \in billsShown
  /\ MayAsk(Cardinality(billsShown))
  /\ runsOfAll' = Append(runsOfAll, [listed |-> billsShown, left |-> billsShown \ {b},
                                     current |-> Len(pictures) + 1, visit |-> visit])
  /\ pictures' = AskFor(b, Len(runsOfAll) + 1, visit)
  /\ downloadingAll' = TRUE
  /\ UNCHANGED <<oneByOne, visit, billsShown, previewed, pictureUrls, detail>>

\* The next turn of the loop, or its end.
GoOn(k) ==
  LET r == runsOfAll[k]
      asked == [pictures EXCEPT ![r.current].state = "done"] IN
  IF r.left = {}
  THEN /\ runsOfAll' = [runsOfAll EXCEPT ![k].current = 0] /\ pictures' = asked
       /\ downloadingAll' = (downloadingAll /\ r.visit # visit)
  ELSE /\ \E b \in r.left :
            /\ runsOfAll' = [runsOfAll EXCEPT ![k] = [r EXCEPT !.left = @ \ {b}, !.current = Len(asked) + 1]]
            /\ pictures' = Append(asked, [of |-> b, run |-> k, visit |-> r.visit, state |-> "asked"])
       /\ UNCHANGED downloadingAll

InRun(k, state) == k \in DOMAIN runsOfAll /\ Unfinished(k) /\ pictures[runsOfAll[k].current].state = state

\* Saved by a click on a link.
SavedToDisk(k) ==
  LET n == runsOfAll[k].current IN
  /\ InRun(k, "asked") /\ pictures' = [pictures EXCEPT ![n].state = "saved"]
  /\ pictureUrls' = pictureUrls \cup {n}
  /\ UNCHANGED <<oneByOne, visit, billsShown, previewed, runsOfAll, downloadingAll, detail>>

\* The 300 ms are over.
AfterPause(k) ==
  /\ InRun(k, "saved") /\ pictureUrls' = pictureUrls \ {runsOfAll[k].current} /\ GoOn(k)
  /\ UNCHANGED <<oneByOne, visit, billsShown, previewed, detail>>

\* The loop goes on without a picture that failed.
OneFails(k) ==
  /\ InRun(k, "asked") /\ GoOn(k)
  /\ UNCHANGED <<oneByOne, visit, billsShown, previewed, pictureUrls, detail>>

\* Another page and back: a loop goes on, the button does not know.
ShowAgain ==
  /\ ListIsFree /\ visit < MaxVisits /\ visit' = visit + 1 /\ downloadingAll' = FALSE
  /\ UNCHANGED <<oneByOne, billsShown, pictures, previewed, pictureUrls, runsOfAll, detail>>

-----------------------------------------------------------------------------
(* InvoiceDetailModal draws what it shows; its pictures are data, not URLs.   *)
OpenDetail ==
  /\ ListIsFree /\ billsShown # {} /\ detail' = [NoDetail EXCEPT !.open = TRUE]
  /\ UNCHANGED <<oneByOne, visit, billsShown, pictures, previewed, pictureUrls, runsOfAll, downloadingAll>>

Draw(what) ==
  /\ detail.open /\ ~detail.shown /\ what \notin detail.drawing
  /\ detail' = [detail EXCEPT !.drawing = @ \cup {what}]
  /\ UNCHANGED <<oneByOne, visit, billsShown, pictures, previewed, pictureUrls, runsOfAll, downloadingAll>>

DrawnPreview(ok) ==
  /\ "preview" \in detail.drawing
  /\ detail' = [detail EXCEPT !.drawing = @ \ {"preview"}, !.shown = @ \/ ok]
  /\ UNCHANGED <<oneByOne, visit, billsShown, pictures, previewed, pictureUrls, runsOfAll, downloadingAll>>

DrawnDownload ==
  /\ "download" \in detail.drawing /\ detail' = [detail EXCEPT !.drawing = @ \ {"download"}]
  /\ UNCHANGED <<oneByOne, visit, billsShown, pictures, previewed, pictureUrls, runsOfAll, downloadingAll>>

CloseDrawing ==
  /\ detail.open /\ detail' = IF detail.shown THEN [detail EXCEPT !.shown = FALSE] ELSE NoDetail
  /\ UNCHANGED <<oneByOne, visit, billsShown, pictures, previewed, pictureUrls, runsOfAll, downloadingAll>>

PictureEnds ==
  \/ \E n \in DOMAIN pictures : PreviewReady(n) \/ PreviewFails(n)
  \/ \E k \in DOMAIN runsOfAll : SavedToDisk(k) \/ AfterPause(k) \/ OneFails(k)
DrawingEnds == (\E ok \in BOOLEAN : DrawnPreview(ok)) \/ DrawnDownload

PictureNext ==
  \/ \E list \in SUBSET Bills : ListChanges(list)
  \/ \E b \in Bills : Download(b) \/ DownloadAll(b)
  \/ ClosePreview \/ ShowAgain \/ OpenDetail \/ CloseDrawing \/ \E what \in Drawings : Draw(what)
  \/ PictureEnds \/ DrawingEnds

\* Requests are answered or fail, timers go off, and a drawing ends.
PictureFairness ==
  WF_pictureVars(PictureEnds) /\ WF_pictureVars(\E ok \in BOOLEAN : DrawnPreview(ok)) /\ WF_pictureVars(DrawnDownload)

-----------------------------------------------------------------------------
(* The preview on screen is never one whose object URL was revoked, and when  *)
(* the user awaits each preview no URL outlives its preview or its turn of    *)
(* the loop, whichever of them fail.                                          *)
UrlsHaveOwner ==
  /\ previewed # 0 => previewed \in pictureUrls
  /\ oneByOne => pictureUrls \subseteq {previewed} \cup {runsOfAll[k].current : k \in DOMAIN runsOfAll}

(* A finished "download all" has asked once for every invoice listed when it  *)
(* was pressed, although some failed, the list changed and another loop ran;  *)
(* its button waits for the loop of this view, and for no other.              *)
AllAskedOnce ==
  /\ \A k \in DOMAIN runsOfAll : ~Unfinished(k) =>
       \A b \in runsOfAll[k].listed :
         Cardinality({n \in DOMAIN pictures : pictures[n].run = k /\ pictures[n].of = b}) = 1
  /\ downloadingAll = \E k \in DOMAIN runsOfAll : Unfinished(k) /\ runsOfAll[k].visit = visit

(* Pictures of invoices are all asked for, and none is left behind.           *)
PicturesHold == UrlsHaveOwner /\ AllAskedOnce
=============================================================================
