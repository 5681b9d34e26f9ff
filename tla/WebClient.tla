------------------------------ MODULE WebClient ------------------------------
(* What the web client does around the data pages: images and documents,      *)
(* forms that save at once or in parallel, settings, the session and          *)
(* navigation.  A behaviour is that of one of these parts; they share no      *)
(* state but the session, without which nothing is answered.                  *)
EXTENDS ImageOptimizer, ImageUpload, ImageEncoding, FileViewer,
        DocumentForms, HouseSetup, RoomSheet, KeyedLoads,
        Navigation, WebSession, SettingsCard, ProfileSettings, InvoiceImages

VARIABLE part

Parts == {"optimizer", "upload", "encoding", "viewer", "documents", "setup", "sheet", "loads",
          "navigation", "session", "card", "profile", "pictures"}

vars == <<part, service, pageVars, formVars, encodingVars, viewerVars, docVars, setupVars, sheetVars, loadVars,
          navVars, sessionVars, cardVars, profileVars, pictureVars>>

\* The parts that are not shown stay as they are at first.
Init ==
  /\ part \in Parts
  /\ OptimizerInit /\ UploadInit /\ ViewerInit
  /\ IF part = "encoding" THEN EncodingInit ELSE EncodingIdle
  /\ DocInit /\ SetupInit /\ SheetInit /\ LoadInit /\ NavInit /\ SessionInit /\ ProfileInit /\ PictureInit
  /\ IF part = "card" THEN CardInit ELSE CardUnmounted
  /\ part # "pictures" => oneByOne
  /\ part # "documents" => which = "house"
  /\ part # "sheet" => \A r \in SheetRooms : roomRows[r] = IdleRow.price
  /\ part # "profile" => \A f \in UserFields : userRow[f] = CHOOSE x \in Looks : TRUE

Rests(p, v) == part # p => UNCHANGED v

Next ==
  /\ UNCHANGED part
  /\ Rests("optimizer", pageVars) /\ Rests("upload", formVars) /\ Rests("encoding", encodingVars)
  /\ part \notin {"optimizer", "upload"} => UNCHANGED service
  /\ Rests("viewer", viewerVars)
  /\ Rests("documents", docVars) /\ Rests("setup", setupVars) /\ Rests("sheet", sheetVars)
  /\ Rests("loads", loadVars) /\ Rests("navigation", navVars) /\ Rests("session", sessionVars)
  /\ Rests("card", cardVars) /\ Rests("profile", profileVars)
  /\ Rests("pictures", pictureVars)
  /\ \/ part = "optimizer" /\ OptimizerNext
     \/ part = "upload" /\ UploadNext
     \/ part = "encoding" /\ EncodingNext
     \/ part = "viewer" /\ ViewerNext
     \/ part = "documents" /\ DocNext
     \/ part = "setup" /\ SetupNext
     \/ part = "sheet" /\ SheetNext
     \/ part = "loads" /\ LoadNext
     \/ part = "navigation" /\ NavNext
     \/ part = "session" /\ SessionNext
     \/ part = "card" /\ CardNext
     \/ part = "profile" /\ ProfileNext
     \/ part = "pictures" /\ PictureNext

Spec == Init /\ [][Next]_vars
FairSpec ==
  Spec /\ OptimizerFairness /\ UploadFairness /\ ViewerFairness /\ DocFairness /\ SetupFairness
  /\ LoadFairness /\ SessionFairness /\ CardFairness /\ PictureFairness

-----------------------------------------------------------------------------
\* What the user is made to wait for: the images not compressed yet, a selection
\* under way, the lightbox's spinner, a save, a trend or a page that loads.
UserWaits ==
  \/ \E n \in DOMAIN items : items[n].status \in {"pending", "processing"}
  \/ optimizing
  \/ viewer.loading
  \/ opening.open /\ dialog.busy # {}
  \/ awaited # 0
  \/ trendLoading
  \/ \E p \in BrowserTabs : pages[p].shows = "loading"
  \/ CardWaits
  \/ downloadingAll

\* Every spinner ends: whatever fails, is lost or is superseded by a newer request,
\* a page is at rest again and again, and nothing is waited for that will not come.
SpinnersEnd == []<>~UserWaits /\ \A what \in Drawings : []<>(what \notin detail.drawing)

\* Whatever is on screen, the stores, forms and requests hold values of their types.
TypeOK ==
  /\ part \in Parts
  /\ OptimizerTypeOK /\ UploadTypeOK /\ ViewerTypeOK
  /\ DocTypeOK /\ SetupTypeOK /\ SheetTypeOK /\ LoadTypeOK /\ NavTypeOK
  /\ SessionTypeOK /\ CardTypeOK /\ ProfileTypeOK /\ PictureTypeOK

\* What is shown of images and files is there, and what is waited for is on its way.
ImagesHold == ShownUrlsAreLive /\ UnfinishedIsQueued /\ ViewerHolds /\ PicturesHold
=============================================================================
