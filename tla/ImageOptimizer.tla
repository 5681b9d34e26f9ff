--------------------------- MODULE ImageOptimizer ---------------------------
(* The image optimisation page: images are added by file picker, drop or      *)
(* paste, each addition and each change of preset starts a queue of its own   *)
(* (runQueue), and a queue compresses its images one after the other.  A      *)
(* queue is awaiting at most one answer, so the queue's number names its job. *)
EXTENDS ImageCompression, FiniteSetsExt

CONSTANTS
  Presets,     \* 'auto' and 'quality'
  FirstPreset, \* the preset of a fresh page
  MaxFiles,    \* images listed at once (20 in the code)
  MaxImages,   \* bound on the images ever added
  MaxQueues,   \* bound on the queues ever started
  NoUrl

Images == 1..MaxImages
Queues == 1..MaxQueues

ASSUME OptimizerAssumption ==
  /\ MaxFiles \in Nat /\ MaxImages \in Nat /\ MaxQueues \in Nat
  /\ FirstPreset \in Presets
  /\ Queues \X {0} \subseteq Jobs /\ NoUrl \notin Images \X (0..MaxQueues)

VARIABLES
  items,       \* the listed images
  preset,
  processing,  \* isProcessing
  queues,      \* by queue: the images still to compress, the first one under way
  urls,        \* objectUrlsRef: the object URLs not yet revoked
  seqs,        \* itemSeq and the number of queues started
  bubbling,    \* files of a drop whose event has not yet reached the window
  mounted

pageVars == <<items, preset, processing, queues, urls, seqs, bubbling, mounted>>
optimizerVars == <<service, pageVars>>

Statuses == {"pending", "processing", "done", "error"}
Urls == Images \X (0..MaxQueues)   \* <<image, 0>> previews, <<image, q>> is made by queue q
Preview(i) == <<i, 0>>
Job(q) == <<q, 0>>
Records == [id : Images, status : Statuses, url : Urls \cup {NoUrl}, made : Presets]

OptimizerTypeOK ==
  /\ service \in Services
  /\ items \in Seq(Records) /\ Len(items) <= MaxFiles
  /\ preset \in Presets /\ processing \in BOOLEAN /\ mounted \in BOOLEAN
  /\ queues \in [Queues -> [todo : Seq(Images), preset : Presets]]
  /\ urls \subseteq Urls /\ bubbling \in 0..MaxFiles
  /\ seqs \in [image : Images \cup {0}, queue : Queues \cup {0}]

OptimizerInit ==
  /\ ServiceInit
  /\ items = <<>> /\ preset = FirstPreset /\ processing = FALSE /\ mounted = TRUE
  /\ queues = [q \in Queues |-> [todo |-> <<>>, preset |-> FirstPreset]]
  /\ urls = {} /\ bubbling = 0
  /\ seqs = [image |-> 0, queue |-> 0]

Fresh(i) == [id |-> i, status |-> "pending", url |-> NoUrl, made |-> preset]
Listed(i) == \E n \in DOMAIN items : items[n].id = i
\* No handler is in the middle of its turn.
Idle == Quiet /\ bubbling = 0
Running == {q \in Queues : queues[q].todo # <<>>}

\* setItems(prev => prev.map(it => it.id === id ? update(it) : it))
MapItem(list, id, Update(_)) ==
  [n \in DOMAIN list |-> IF list[n].id = id THEN Update(list[n]) ELSE list[n]]
Processing(list, id) == MapItem(list, id, LAMBDA it : [it EXCEPT !.status = "processing"])

\* runQueue: up to its first await it runs in the caller's turn.
RunQueue(list, ids, p) ==
  LET q == seqs.queue + 1 IN
  /\ q \in Queues
  /\ items' = Processing(list, Head(ids))
  /\ queues' = [queues EXCEPT ![q] = [todo |-> ids, preset |-> p]]
  /\ processing' = TRUE
  /\ service' = Posted(service, Job(q))

\* addFiles without the check of the room left
AddFilesUnbounded(n) ==
  LET ids == [k \in 1..n |-> seqs.image + k] IN
  /\ mounted /\ Quiet /\ n > 0
  /\ seqs.image + n <= MaxImages
  /\ RunQueue(items \o [k \in 1..n |-> Fresh(ids[k])], ids, preset)
  /\ urls' = urls \cup {Preview(ids[k]) : k \in 1..n}
  /\ seqs' = [image |-> seqs.image + n, queue |-> seqs.queue + 1]
  /\ UNCHANGED <<preset, mounted>>

\* addFiles
AddFiles(n) ==
  LET room == MaxFiles - Len(items)
      taken == IF n < room THEN n ELSE room
      ids == [k \in 1..taken |-> seqs.image + k]
  IN /\ mounted /\ Quiet /\ taken > 0
     /\ seqs.image + taken <= MaxImages
     /\ RunQueue(items \o [k \in 1..taken |-> Fresh(ids[k])], ids, preset)
     /\ urls' = urls \cup {Preview(ids[k]) : k \in 1..taken}
     /\ seqs' = [image |-> seqs.image + taken, queue |-> seqs.queue + 1]
     /\ UNCHANGED <<preset, mounted>>

\* The file picker, a paste, and a drop beside the drop zone.
ChooseFiles(n) == Idle /\ AddFiles(n) /\ UNCHANGED bubbling

\* A drop on the zone, which an empty page shows: the zone takes the files,
\* and the event bubbles on to the window's listener.
DropOnZone(n) ==
  /\ Idle /\ items = <<>>
  /\ seqs.image + 2 * n <= MaxImages /\ seqs.queue + 2 <= MaxQueues
  /\ AddFiles(n) /\ bubbling' = n

DropBubbles ==
  /\ bubbling > 0 /\ bubbling' = 0
  /\ \/ Len(items) < MaxFiles /\ AddFiles(bubbling)
     \/ Len(items) = MaxFiles /\ UNCHANGED <<items, preset, processing, queues, urls, seqs, mounted, service>>

\* The rest of a queue after the image it awaited: the next image of the
\* queue is posted, whether it is still listed or not.
Continue(q, list, s) ==
  LET rest == Tail(queues[q].todo) IN
  /\ queues' = [queues EXCEPT ![q].todo = rest]
  /\ IF rest = <<>>
     THEN items' = list /\ service' = s /\ processing' = FALSE
     ELSE items' = Processing(list, Head(rest)) /\ service' = Posted(s, Job(q)) /\ UNCHANGED processing

\* The worker's answer: the result replaces what the image showed before.
Optimized(q) ==
  LET id == Head(queues[q].todo)
      url == <<id, q>>
      Done(it) == [it EXCEPT !.status = "done", !.url = url, !.made = queues[q].preset]
  IN /\ CanAnswer(Job(q))
     /\ urls' = (urls \ {items[n].url : n \in {m \in DOMAIN items : items[m].id = id}}) \cup {url}
     /\ Continue(q, MapItem(items, id, Done), Answered(service, Job(q)))
     /\ UNCHANGED <<preset, seqs, bubbling, mounted>>

\* An image that cannot be decoded, or a worker that failed.
NotOptimized(q) ==
  LET id == Head(queues[q].todo)
      Broken(it) == [it EXCEPT !.status = "error"]
  IN /\ \/ CanAnswer(Job(q)) /\ Continue(q, MapItem(items, id, Broken), Answered(service, Job(q)))
        \/ CanReject(Job(q)) /\ Continue(q, MapItem(items, id, Broken), Rejected(service))
     /\ UNCHANGED <<preset, urls, seqs, bubbling, mounted>>

\* The preset cards and "clear all" are disabled while isProcessing.
ChangePreset(p) ==
  /\ mounted /\ Idle /\ ~processing /\ p # preset
  /\ preset' = p
  /\ UNCHANGED <<bubbling, mounted>>
  /\ IF items = <<>> THEN UNCHANGED <<items, processing, queues, urls, seqs, service>>
     ELSE /\ RunQueue([n \in DOMAIN items |-> [Fresh(items[n].id) EXCEPT !.made = items[n].made]],
                      [n \in DOMAIN items |-> items[n].id], p)
          /\ urls' = urls \ {items[n].url : n \in DOMAIN items}
          /\ seqs' = [seqs EXCEPT !.queue = @ + 1]

RemoveItem(n) ==
  /\ mounted /\ Idle
  /\ items' = Filtered(items, {m \in DOMAIN items : items[m].id # items[n].id})
  /\ urls' = urls \ {Preview(items[n].id), items[n].url}
  /\ UNCHANGED <<preset, processing, queues, seqs, bubbling, mounted, service>>

ClearAll ==
  /\ mounted /\ Idle /\ ~processing /\ items # <<>>
  /\ items' = <<>>
  /\ urls' = urls \ UNION {{Preview(items[n].id), items[n].url} : n \in DOMAIN items}
  /\ UNCHANGED <<preset, processing, queues, seqs, bubbling, mounted, service>>

\* The user leaves the page.  Its state is gone; a queue under way runs on.
Unmount ==
  /\ mounted /\ Idle
  /\ mounted' = FALSE /\ items' = <<>> /\ processing' = FALSE /\ urls' = {}
  /\ UNCHANGED <<preset, queues, seqs, bubbling, service>>

QueueContinues(q) == bubbling = 0 /\ q \in Running /\ (Optimized(q) \/ NotOptimized(q))

OptimizerNext ==
  \/ \E n \in 1..MaxFiles : ChooseFiles(n) \/ DropOnZone(n)
  \/ DropBubbles
  \/ \E q \in Queues : QueueContinues(q)
  \/ \E p \in Presets : ChangePreset(p)
  \/ \E n \in DOMAIN items : RemoveItem(n)
  \/ ClearAll
  \/ Unmount
  \/ bubbling = 0 /\ (WorkerFails \/ IdleTimeout) /\ UNCHANGED pageVars

\* A browser delivers its events, and answers every job or reports the
\* worker's failure.
OptimizerFairness == WF_optimizerVars(DropBubbles) /\ \A q \in Queues : WF_optimizerVars(QueueContinues(q))

-----------------------------------------------------------------------------
(* A listed image is always displayable: its preview, and its result once it  *)
(* is done, have not been revoked, whatever queues, presets and removals did  *)
(* in between.                                                                *)
ShownUrlsAreLive ==
  \A n \in DOMAIN items :
    /\ Preview(items[n].id) \in urls
    /\ items[n].url # NoUrl => items[n].url \in urls
    /\ items[n].status = "done" => items[n].url # NoUrl

(* An image shown as waiting or under way is in some running queue and that   *)
(* queue has a job in the service: the page never spins for nothing.          *)
UnfinishedIsQueued ==
  /\ \A n \in DOMAIN items : items[n].status \in {"pending", "processing"} =>
       \E q \in Running : items[n].id \in ToSet(queues[q].todo)
  /\ {Job(q) : q \in Running} \subseteq ToSet(service.pending) \cup ToSet(service.rejected)
=============================================================================
