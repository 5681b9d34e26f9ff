----------------------------- MODULE FileViewer -----------------------------
(* Viewing protected documents: the cache of downloads in api/files, the      *)
(* thumbnails (ProtectedFileImage) and the lightbox, which shows one item of  *)
(* a gallery and loads its neighbours ahead.  Every viewer makes its own      *)
(* object URL from a download and must revoke it.  What is resolved already   *)
(* reaches its viewer in the same turn of the event loop; a download in       *)
(* flight ends in a later one, whoever is still there to use it.              *)
EXTENDS OrderedLists, SequencesExt

CONSTANTS
  Paths,       \* protected files on the server
  Local,       \* files picked on this device and not uploaded yet
  Slots,       \* places of the page that show a thumbnail
  MaxShown,    \* bound on the items of a gallery
  MaxCached,   \* MAX_CACHED_BLOBS, 40 in the code
  MaxRequests, \* bound on the downloads
  None

Items == Paths \cup Local
Galleries == UNION {{g \in [1..n -> Items] : IsInjective(g)} : n \in 1..MaxShown}
Requests == 1..MaxRequests

ASSUME ViewerAssumption ==
  /\ MaxShown \in Nat \ {0} /\ MaxCached \in Nat \ {0} /\ MaxRequests \in Nat
  /\ None \notin Items /\ Paths \cap Local = {} /\ "lightbox" \notin Slots

VARIABLES
  requests,   \* every download so far: its path and how it stands
  cache,      \* blobCache: the cached downloads, the least recently used first
  viewer,     \* the lightbox
  late,       \* downloads that a lightbox, closed meanwhile, still awaits
  thumbs,     \* by slot
  blobs       \* object URLs not revoked: who made them, of what

viewerVars == <<requests, cache, viewer, late, thumbs, blobs>>

Closed == [shown |-> <<>>, index |-> 1, resolved |-> {}, fetching |-> [k \in Paths |-> 0],
           waiting |-> None, loading |-> FALSE, failed |-> FALSE]
NoThumb == [path |-> None, request |-> 0, state |-> "off"]

ViewerTypeOK ==
  /\ requests \in Seq([path : Paths, state : {"loading", "ready", "failed"}])
  /\ cache \in Seq(Requests) /\ Len(cache) <= MaxCached
  /\ viewer \in [shown : {<<>>} \cup Galleries, index : 1..MaxShown, resolved : SUBSET Items,
                 fetching : [Paths -> {0} \cup Requests], waiting : Paths \cup {None},
                 loading : BOOLEAN, failed : BOOLEAN]
  /\ late \subseteq Requests
  /\ thumbs \in [Slots -> [path : Paths \cup {None}, request : {0} \cup Requests,
                           state : {"off", "loading", "shown", "error"}]]
  /\ blobs \subseteq (Slots \cup {"lightbox"}) \X Items

ViewerInit ==
  /\ requests = <<>> /\ cache = <<>> /\ viewer = Closed /\ late = {}
  /\ thumbs = [s \in Slots |-> NoThumb] /\ blobs = {}

-----------------------------------------------------------------------------
(* fetchProtectedBlob, on the pair of the downloads and the cache.            *)
Holding(net, p) == {n \in DOMAIN net.cache : net.requests[net.cache[n]].path = p}
Held(net, p) == net.cache[CHOOSE n \in Holding(net, p) : TRUE]
Other(list, p) == Filtered(list, {n \in DOMAIN list : requests[list[n]].path # p})
NextRequest(net) == Len(net.requests) + 1
Evict(list) == IF Len(list) > MaxCached THEN Tail(list) ELSE list

Ask(net, p) ==
  IF Holding(net, p) # {}
  THEN [net EXCEPT !.cache = Append(Filtered(@, DOMAIN @ \ Holding(net, p)), Held(net, p))]
  ELSE [requests |-> Append(net.requests, [path |-> p, state |-> "loading"]),
        cache |-> Evict(Append(net.cache, NextRequest(net)))]

\* The download that a caller of fetchProtectedBlob(p) awaits.
Asked(net, p) == IF Holding(net, p) # {} THEN Held(net, p) ELSE NextRequest(net)

Net == [requests |-> requests, cache |-> cache]
Within(net) == Len(net.requests) <= MaxRequests

-----------------------------------------------------------------------------
(* The lightbox's effect: resolveItem for the current item and its two        *)
(* neighbours, on the triple of the network, the viewer and the object URLs.  *)
Obtained(st, k) == [st EXCEPT !.v.resolved = @ \cup {k}, !.blobs = @ \cup {<<"lightbox", k>>}]

Fetch(st, k) ==
  LET r == Asked(st.net, k)
      net == Ask(st.net, k)
  IN CASE k \in st.v.resolved -> st
       [] k \in Local \ st.v.resolved -> Obtained(st, k)
       [] k \in Paths \ st.v.resolved /\ st.v.fetching[k] # 0 -> st
       [] OTHER -> IF net.requests[r].state = "ready" THEN Obtained([st EXCEPT !.net = net], k)
                   ELSE [st EXCEPT !.net = net, !.v.fetching[k] = r]

ShowItem(st, k) ==
  LET fetched == Fetch(st, k)
      there == k \in fetched.v.resolved
  IN [fetched EXCEPT !.v.loading = ~there, !.v.failed = FALSE,
                     !.v.waiting = IF there THEN None ELSE k]

\* currentIndex may be past the end of a list that became shorter.
Load(st) ==
  LET v == st.v
      n == Len(v.shown)
      next == v.shown[(v.index % n) + 1]
      prev == v.shown[((v.index + n - 2) % n) + 1]
      current == IF v.index <= n THEN ShowItem(st, v.shown[v.index])
                 ELSE [st EXCEPT !.v.loading = FALSE, !.v.failed = TRUE, !.v.waiting = None]
  IN IF n > 1 THEN Fetch(Fetch(current, next), prev) ELSE current

Render(v) ==
  LET st == Load([net |-> Net, v |-> v, blobs |-> blobs]) IN
  /\ Within(st.net)
  /\ requests' = st.net.requests /\ cache' = st.net.cache
  /\ viewer' = st.v /\ blobs' = st.blobs
  /\ UNCHANGED <<late, thumbs>>

IsOpen == viewer.shown # <<>>

Open(gallery, i) ==
  /\ ~IsOpen
  /\ Render([Closed EXCEPT !.shown = gallery, !.index = i])

Turn(step) ==
  LET n == Len(viewer.shown) IN
  /\ n > 1
  /\ Render([viewer EXCEPT !.index = IF step = 1 THEN IF @ < n THEN @ + 1 ELSE 1
                                     ELSE IF @ > 1 THEN @ - 1 ELSE n])

\* An upload or a deletion under way behind the lightbox ends, and the page
\* renders it with the longer or shorter list.
ReplaceItems(gallery) ==
  /\ IsOpen
  /\ \/ Len(gallery) > Len(viewer.shown) /\ IsPrefix(viewer.shown, gallery)
     \/ \E n \in DOMAIN viewer.shown : gallery = RemoveAt(viewer.shown, n)
  /\ Render([viewer EXCEPT !.shown = gallery])

CloseKeepingUrls ==
  /\ IsOpen
  /\ viewer' = Closed
  /\ late' = late \cup {viewer.fetching[k] : k \in {p \in Paths : viewer.fetching[p] # 0}}
  /\ UNCHANGED <<requests, cache, thumbs, blobs>>

\* The cleanups on unmount; what is in flight ends without a viewer.
Close ==
  /\ IsOpen
  /\ viewer' = Closed
  /\ late' = late \cup {viewer.fetching[k] : k \in {p \in Paths : viewer.fetching[p] # 0}}
  /\ blobs' = {b \in blobs : b[1] # "lightbox"}
  /\ UNCHANGED <<requests, cache, thumbs>>

-----------------------------------------------------------------------------
(* A thumbnail that comes into view, or is given another path: the cleanup of *)
(* the path before revokes its object URL.                                    *)
ShowThumb(s, p) ==
  LET net == Ask(Net, p)
      r == Asked(Net, p)
      ready == net.requests[r].state = "ready"
      others == {b \in blobs : b[1] # s}
  IN /\ thumbs[s].path # p /\ Within(net)
     /\ requests' = net.requests /\ cache' = net.cache
     /\ thumbs' = [thumbs EXCEPT ![s] = [path |-> p, request |-> IF ready THEN 0 ELSE r,
                                         state |-> IF ready THEN "shown" ELSE "loading"]]
     /\ blobs' = IF ready THEN others \cup {<<s, p>>} ELSE others
     /\ UNCHANGED <<viewer, late>>

HideThumb(s) ==
  /\ thumbs[s] # NoThumb
  /\ thumbs' = [thumbs EXCEPT ![s] = NoThumb]
  /\ blobs' = {b \in blobs : b[1] # s}
  /\ UNCHANGED <<requests, cache, viewer, late>>

\* clearProtectedFileCache, after a file was deleted.
ForgetFile(p) ==
  /\ Holding(Net, p) # {}
  /\ cache' = Other(cache, p)
  /\ UNCHANGED <<requests, viewer, late, thumbs, blobs>>

-----------------------------------------------------------------------------
(* A download ends.  Every continuation runs: the lightbox's, if it is still  *)
(* open and whichever item it shows by now, and the thumbnails'.              *)
Underway(r) == r \in DOMAIN requests /\ requests[r].state = "loading"
Awaited(r) == {k \in Paths : viewer.fetching[k] = r}
Waiting(r) == {s \in Slots : thumbs[s].request = r}

\* ToViewer that reports only what the effect itself had asked for
ToViewerUnlessPrefetched(r, ok) ==
  [viewer EXCEPT !.resolved = IF ok THEN @ \cup Awaited(r) ELSE @,
                 !.fetching = [k \in Paths |-> IF viewer.fetching[k] = r THEN 0 ELSE viewer.fetching[k]]]

ToViewer(r, ok) ==
  [viewer EXCEPT !.resolved = IF ok THEN @ \cup Awaited(r) ELSE @,
                 !.fetching = [k \in Paths |-> IF viewer.fetching[k] = r THEN 0 ELSE viewer.fetching[k]],
                 !.loading = @ /\ viewer.waiting \notin Awaited(r),
                 !.failed = @ \/ (~ok /\ viewer.waiting \in Awaited(r)),
                 !.waiting = IF @ \in Awaited(r) THEN None ELSE @]

ToThumbs(r, outcome) ==
  [s \in Slots |-> IF s \in Waiting(r) THEN [thumbs[s] EXCEPT !.request = 0, !.state = outcome]
                   ELSE thumbs[s]]

Downloaded(r) ==
  LET p == requests[r].path IN
  /\ Underway(r)
  /\ requests' = [requests EXCEPT ![r].state = "ready"]
  /\ viewer' = ToViewer(r, TRUE)
  /\ thumbs' = ToThumbs(r, "shown")
  /\ blobs' = blobs \cup {<<"lightbox", k>> : k \in Awaited(r)} \cup {<<s, p>> : s \in Waiting(r)}
  /\ late' = late \ {r}      \* made and revoked at once
  /\ UNCHANGED cache

\* blobCache.delete(path): also the entry of a newer download of that path.
DownloadFailed(r) ==
  /\ Underway(r)
  /\ requests' = [requests EXCEPT ![r].state = "failed"]
  /\ viewer' = ToViewer(r, FALSE)
  /\ thumbs' = ToThumbs(r, "error")
  /\ cache' = Other(cache, requests[r].path)
  /\ late' = late \ {r}
  /\ UNCHANGED blobs

DownloadEnds(r) == Downloaded(r) \/ DownloadFailed(r)

ViewerNext ==
  \/ \E gallery \in Galleries : \/ \E i \in DOMAIN gallery : Open(gallery, i)
                                \/ ReplaceItems(gallery)
  \/ \E step \in {1, -1} : Turn(step)
  \/ Close
  \/ \E s \in Slots : (\E p \in Paths : ShowThumb(s, p)) \/ HideThumb(s)
  \/ \E p \in Paths : ForgetFile(p)
  \/ \E r \in Requests : DownloadEnds(r)

\* apiClient's requests end, with a file or with an error.
ViewerFairness == WF_viewerVars(\E r \in Requests : DownloadEnds(r))

-----------------------------------------------------------------------------
Current == viewer.shown[IF viewer.index <= Len(viewer.shown) THEN viewer.index ELSE 1]

(* The open lightbox always has something to say of the item it shows: the    *)
(* item itself, a spinner while a download of it is under way and its         *)
(* outcome will be reported, or an error.  Turning pages faster than the      *)
(* downloads answer, prefetching and a list replaced under it do not strand   *)
(* the spinner or leave the frame blank.                                      *)
SpinnerHasDownload ==
  IsOpen =>
    /\ Current \in viewer.resolved \/ viewer.loading \/ viewer.failed
    /\ viewer.loading =>
         /\ viewer.waiting = Current
         /\ viewer.fetching[Current] # 0 /\ Underway(viewer.fetching[Current])

(* What a viewer shows is backed by an object URL that is not revoked, and    *)
(* an object URL is kept only while its viewer is there: downloads that end   *)
(* after the lightbox or the thumbnail has gone leave nothing behind.         *)
UrlsLiveWhileShown ==
  /\ {b[2] : b \in {c \in blobs : c[1] = "lightbox"}} = viewer.resolved
  /\ \A s \in Slots : {b[2] : b \in {c \in blobs : c[1] = s}} =
                        IF thumbs[s].state = "shown" THEN {thumbs[s].path} ELSE {}

(* A failed download is not remembered: opening the file again asks again.    *)
FailureNotCached == \A n \in DOMAIN cache : requests[cache[n]].state # "failed"

(* The viewer neither waits for nothing nor shows what is gone.               *)
ViewerHolds == SpinnerHasDownload /\ UrlsLiveWhileShown /\ FailureNotCached
=============================================================================
