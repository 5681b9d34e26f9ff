--------------------------- MODULE WebImages_proof ---------------------------
(* What the parts of WebClient with images and files guarantee for any number *)
(* of images, selections, downloads, runs and failures: the compression       *)
(* service loses no job, a form is sent with all its files in their order,    *)
(* the optimiser, the viewer of documents and the list of invoices show       *)
(* nothing that is gone and wait for nothing that will not come.              *)
EXTENDS WebClient_proof, OrderedLists_proof

\* What the client as a whole does to a part with images is a step of it or none.
LEMMA ImagePartsStep ==
  ASSUME [Next]_vars
  PROVE  /\ part' = part
         /\ IF part = "optimizer" THEN [OptimizerNext]_optimizerVars ELSE UNCHANGED pageVars
         /\ IF part = "upload" THEN [UploadNext]_uploadVars ELSE UNCHANGED formVars
         /\ part \notin {"optimizer", "upload"} => UNCHANGED service
         /\ [ViewerNext]_viewerVars /\ [PictureNext]_pictureVars
<1>1. CASE Next
  BY <1>1 DEF Next, Rests
<1>2. CASE UNCHANGED vars
  BY <1>2 DEF vars, optimizerVars, uploadVars, formVars, pageVars, viewerVars, pictureVars
<1> QED BY <1>1, <1>2

-----------------------------------------------------------------------------
(* The compression service.                                                   *)

ServiceOK(s) ==
  /\ s \in Services
  /\ ToSet(s.pending) \subseteq s.posted
  /\ s.posted # {} => s.alive

\* What the optimiser's queues await: each running queue, its one job.
Awaits(s, j) == j \in ToSet(s.pending) \cup ToSet(s.rejected)

\* The parts of a list as a set.
LEMMA ToSetAppend ==
  ASSUME NEW V, NEW l \in Seq(V), NEW e \in V
  PROVE  Append(l, e) \in Seq(V) /\ ToSet(Append(l, e)) = ToSet(l) \cup {e}
<1> DEFINE a == Append(l, e)
<1>1. /\ a \in Seq(V) /\ Len(l) \in Nat /\ DOMAIN l = 1..Len(l) /\ DOMAIN a = 1..(Len(l) + 1)
      /\ \A n \in DOMAIN l : n \in DOMAIN a /\ a[n] = l[n]
      /\ a[Len(l) + 1] = e
  OBVIOUS
<1>2. \A n \in DOMAIN a : n \in DOMAIN l \/ n = Len(l) + 1
  BY <1>1
<1>3. Len(l) + 1 \in DOMAIN a
  BY <1>1
<1> HIDE DEF a
<1> QED BY <1>1, <1>2, <1>3 DEF ToSet, a

\* The entries of a list with another one after it.
LEMMA ToSetJoined ==
  ASSUME NEW V, NEW l \in Seq(V), NEW m \in Seq(V)
  PROVE  l \o m \in Seq(V) /\ ToSet(l \o m) = ToSet(l) \cup ToSet(m)
<1> DEFINE c == l \o m
<1>1. /\ c \in Seq(V) /\ Len(l) \in Nat /\ Len(m) \in Nat
      /\ DOMAIN l = 1..Len(l) /\ DOMAIN m = 1..Len(m) /\ DOMAIN c = 1..(Len(l) + Len(m))
      /\ \A n \in DOMAIN l : c[n] = l[n]
      /\ \A n \in DOMAIN m : c[n + Len(l)] = m[n]
  OBVIOUS
<1>2. \A n \in DOMAIN c : n \in DOMAIN l \/ (n - Len(l) \in DOMAIN m /\ (n - Len(l)) + Len(l) = n)
  BY <1>1
<1>3. \A n \in DOMAIN l : n \in DOMAIN c
  BY <1>1
<1>4. \A n \in DOMAIN m : n + Len(l) \in DOMAIN c
  BY <1>1
<1> HIDE DEF c
<1>5. \A x \in ToSet(c) : x \in ToSet(l) \/ x \in ToSet(m)
  <2> SUFFICES ASSUME NEW n \in DOMAIN c PROVE c[n] \in ToSet(l) \/ c[n] \in ToSet(m)
    BY DEF ToSet
  <2>1. CASE n \in DOMAIN l
    BY <1>1, <2>1 DEF ToSet
  <2>2. CASE n - Len(l) \in DOMAIN m /\ (n - Len(l)) + Len(l) = n
    <3>1. c[n] = m[n - Len(l)]
      BY <1>1, <2>2
    <3> QED BY <2>2, <3>1 DEF ToSet
  <2> QED BY <1>2, <2>1, <2>2
<1>6. \A x \in ToSet(l) : x \in ToSet(c)
  BY <1>1, <1>3 DEF ToSet
<1>7. \A x \in ToSet(m) : x \in ToSet(c)
  BY <1>1, <1>4 DEF ToSet
<1> QED BY <1>1, <1>5, <1>6, <1>7 DEF c

\* The entries of a list without its first one.
LEMMA ToSetTail ==
  ASSUME NEW V, NEW l \in Seq(V), l # <<>>
  PROVE  Tail(l) \in Seq(V) /\ Head(l) \in V /\ ToSet(l) = {Head(l)} \cup ToSet(Tail(l))
<1> DEFINE t == Tail(l)
<1>1. /\ t \in Seq(V) /\ Len(l) \in Nat /\ Len(l) >= 1
      /\ DOMAIN l = 1..Len(l) /\ DOMAIN t = 1..(Len(l) - 1)
      /\ \A n \in DOMAIN t : t[n] = l[n + 1]
      /\ Head(l) = l[1] /\ 1 \in DOMAIN l
  OBVIOUS
<1>2. \A n \in DOMAIN l : n = 1 \/ (n - 1 \in DOMAIN t /\ (n - 1) + 1 = n)
  BY <1>1
<1>3. \A n \in DOMAIN t : n + 1 \in DOMAIN l
  BY <1>1
<1>4. Head(l) \in V
  OBVIOUS
<1> HIDE DEF t
<1>5. \A x \in ToSet(l) : x = Head(l) \/ x \in ToSet(t)
  <2> SUFFICES ASSUME NEW n \in DOMAIN l PROVE l[n] = Head(l) \/ l[n] \in ToSet(t)
    BY DEF ToSet
  <2>1. CASE n = 1
    BY <1>1, <2>1
  <2>2. CASE n - 1 \in DOMAIN t /\ (n - 1) + 1 = n
    <3>1. t[n - 1] = l[n]
      BY <1>1, <2>2
    <3> QED BY <2>2, <3>1 DEF ToSet
  <2> QED BY <1>2, <2>1, <2>2
<1>6. Head(l) \in ToSet(l)
  BY <1>1 DEF ToSet
<1>7. \A x \in ToSet(t) : x \in ToSet(l)
  BY <1>1, <1>3 DEF ToSet
<1> QED BY <1>1, <1>4, <1>5, <1>6, <1>7 DEF t

\* The entries of a filtered list.
LEMMA ToSetFiltered ==
  ASSUME NEW V, NEW l \in Seq(V), NEW P \in SUBSET DOMAIN l
  PROVE  Filtered(l, P) \in Seq(V) /\ ToSet(Filtered(l, P)) = {l[n] : n \in P}
<1>1. /\ Filtered(l, P) \in Seq(V)
      /\ \A k \in DOMAIN Filtered(l, P) : \E n \in P : Filtered(l, P)[k] = l[n]
      /\ \A n \in P : \E k \in DOMAIN Filtered(l, P) : Filtered(l, P)[k] = l[n]
  BY FilteredEntries
<1> QED BY <1>1 DEF ToSet

\* A list of jobs without one of them.
LEMMA WithoutIs ==
  ASSUME NEW l \in Seq(Jobs), NEW j
  PROVE  Without(l, j) \in Seq(Jobs) /\ ToSet(Without(l, j)) = ToSet(l) \ {j}
<1> DEFINE P == {n \in DOMAIN l : l[n] # j}
<1>1. P \in SUBSET DOMAIN l
  OBVIOUS
<1>2. Without(l, j) = Filtered(l, P)
  BY DEF Without
<1>3. {l[n] : n \in P} = ToSet(l) \ {j}
  BY DEF ToSet
<1> HIDE DEF P
<1> QED BY <1>1, <1>2, <1>3, ToSetFiltered

\* A job that is posted is awaited, and no other one is forgotten.
LEMMA PostedKeeps ==
  ASSUME NEW s, ServiceOK(s), NEW j \in Jobs
  PROVE  ServiceOK(Posted(s, j)) /\ \A k \in Jobs : Awaits(s, k) \/ k = j => Awaits(Posted(s, j), k)
<1>1. s.pending \in Seq(Jobs) /\ s.rejected \in Seq(Jobs) /\ s.posted \in SUBSET Jobs
  BY DEF ServiceOK, Services
<1>2. Append(s.pending, j) \in Seq(Jobs) /\ ToSet(Append(s.pending, j)) = ToSet(s.pending) \cup {j}
  BY <1>1, ToSetAppend
<1>3. /\ Posted(s, j).pending = Append(s.pending, j) /\ Posted(s, j).posted = s.posted \cup {j}
      /\ Posted(s, j).alive /\ Posted(s, j).rejected = s.rejected /\ Posted(s, j) \in Services
  BY <1>1, <1>2 DEF Posted, Services, ServiceOK
<1>4. ServiceOK(Posted(s, j))
  BY <1>2, <1>3 DEF ServiceOK
<1> QED BY <1>2, <1>3, <1>4 DEF Awaits

\* An answer ends the wait for its job alone.
LEMMA AnsweredKeeps ==
  ASSUME NEW s, ServiceOK(s), NEW j
  PROVE  ServiceOK(Answered(s, j)) /\ \A k \in Jobs : Awaits(s, k) /\ k # j => Awaits(Answered(s, j), k)
<1>1. s.pending \in Seq(Jobs) /\ s.rejected \in Seq(Jobs) /\ s.posted \in SUBSET Jobs /\ s.alive \in BOOLEAN /\ s.timer \in BOOLEAN
  BY DEF ServiceOK, Services
<1>2. Without(s.pending, j) \in Seq(Jobs) /\ ToSet(Without(s.pending, j)) = ToSet(s.pending) \ {j}
  BY <1>1, WithoutIs
<1>3. /\ Answered(s, j).pending = Without(s.pending, j) /\ Answered(s, j).posted = s.posted \ {j}
      /\ Answered(s, j).alive = s.alive /\ Answered(s, j).rejected = s.rejected
      /\ Answered(s, j) \in Services
  BY <1>1, <1>2 DEF Answered, Services, ServiceOK
<1>4. ServiceOK(Answered(s, j))
  BY <1>2, <1>3 DEF ServiceOK
<1> QED BY <1>2, <1>3, <1>4 DEF Awaits

\* A worker that fails turns every wait into a rejection.
LEMMA FailedKeeps ==
  ASSUME NEW s, ServiceOK(s), s.rejected = <<>>
  PROVE  ServiceOK(Failed(s)) /\ \A k \in Jobs : Awaits(s, k) => Awaits(Failed(s), k)
<1>1. ToSet(<<>>) = {}
  BY DEF ToSet
<1>2. <<>> \in Seq(Jobs)
  OBVIOUS
<1>3. /\ Failed(s).pending = <<>> /\ Failed(s).posted = {} /\ Failed(s).rejected = s.pending
      /\ Failed(s) \in Services
  BY <1>2 DEF Failed, Services, ServiceOK
<1> QED BY <1>1, <1>3 DEF Awaits, ServiceOK

\* The idle timer ends no wait.
LEMMA TimedOutKeeps ==
  ASSUME NEW s, ServiceOK(s)
  PROVE  ServiceOK(TimedOut(s)) /\ \A k \in Jobs : Awaits(s, k) => Awaits(TimedOut(s), k)
<1>1. ToSet(<<>>) = {}
  BY DEF ToSet
<1>2. CASE s.pending = <<>>
  <2>1. /\ TimedOut(s).pending = <<>> /\ TimedOut(s).posted = {} /\ TimedOut(s).rejected = s.rejected
        /\ TimedOut(s) \in Services
    BY <1>2 DEF TimedOut, Services, ServiceOK
  <2> QED BY <1>1, <1>2, <2>1 DEF Awaits, ServiceOK
<1>3. CASE s.pending # <<>>
  <2>1. /\ TimedOut(s).pending = s.pending /\ TimedOut(s).posted = s.posted /\ TimedOut(s).rejected = s.rejected
        /\ TimedOut(s) \in Services /\ TimedOut(s).alive = s.alive
    BY <1>3 DEF TimedOut, Services, ServiceOK
  <2> QED BY <2>1 DEF Awaits, ServiceOK
<1> QED BY <1>2, <1>3

\* A rejection ends the wait for its job alone.
LEMMA RejectedKeeps ==
  ASSUME NEW s, ServiceOK(s), s.rejected # <<>>
  PROVE  ServiceOK(Rejected(s)) /\ \A k \in Jobs : Awaits(s, k) /\ k # Head(s.rejected) => Awaits(Rejected(s), k)
<1>1. /\ Tail(s.rejected) \in Seq(Jobs)
      /\ ToSet(s.rejected) = {Head(s.rejected)} \cup ToSet(Tail(s.rejected))
  <2>1. s.rejected \in Seq(Jobs)
    BY DEF ServiceOK, Services
  <2> QED BY <2>1, ToSetTail
<1>2. /\ Rejected(s).pending = s.pending /\ Rejected(s).posted = s.posted /\ Rejected(s).rejected = Tail(s.rejected)
      /\ Rejected(s) \in Services /\ Rejected(s).alive = s.alive
  BY <1>1 DEF Rejected, Services, ServiceOK
<1> QED BY <1>1, <1>2 DEF Awaits, ServiceOK

\* Neither failure nor idleness of the worker loses a job.
LEMMA WorkerKeeps ==
  ASSUME ServiceOK(service), WorkerFails \/ IdleTimeout
  PROVE  ServiceOK(service') /\ \A k \in Jobs : Awaits(service, k) => Awaits(service', k)
BY FailedKeeps, TimedOutKeeps DEF WorkerFails, IdleTimeout, Quiet

-----------------------------------------------------------------------------
(* The page that optimises images.                                            *)

Waits(it) == it.status \in {"pending", "processing"}

\* The listed images: each once, with the URLs it shows.
ItemOK(it, us, top) ==
  /\ it \in Records /\ it.id <= top
  /\ it.url = NoUrl \/ \E q \in Queues : it.url = <<it.id, q>>
  /\ Preview(it.id) \in us /\ (it.url # NoUrl => it.url \in us)
  /\ it.status = "done" => it.url # NoUrl
ListOK(list, us, top) ==
  /\ DOMAIN list = 1..Len(list) /\ list \in Seq(Records)
  /\ \A n \in DOMAIN list : ItemOK(list[n], us, top)
  /\ \A n, m \in DOMAIN list : list[n].id = list[m].id => n = m

\* The queues: none beyond those that were started.
QueuesOK(qs, top) ==
  /\ qs \in [Queues -> [todo : Seq(Images), preset : Presets]]
  /\ \A q \in Queues : q > top => qs[q].todo = <<>>

\* What waits is in a queue.
Queued(list, qs) ==
  \A n \in DOMAIN list : Waits(list[n]) => \E q \in Queues : list[n].id \in ToSet(qs[q].todo)

\* A queue that is not done awaits its job.
JobsThere(qs, s) == \A q \in Queues : qs[q].todo # <<>> => Awaits(s, Job(q))

OptimizerPage ==
  /\ ListOK(items, urls, seqs.image) /\ Len(items) <= MaxFiles
  /\ QueuesOK(queues, seqs.queue) /\ Queued(items, queues)
  /\ preset \in Presets /\ processing \in BOOLEAN /\ mounted \in BOOLEAN
  /\ urls \subseteq Urls /\ bubbling \in 0..MaxFiles
  /\ seqs \in [image : Images \cup {0}, queue : Queues \cup {0}]

OptimizerInv ==
  /\ ServiceOK(service) /\ OptimizerPage /\ JobsThere(queues, service)

\* The names of jobs, images and URLs do not collide.
LEMMA OptimizerSets ==
  /\ MaxFiles \in Nat /\ MaxImages \in Nat /\ MaxQueues \in Nat /\ FirstPreset \in Presets
  /\ \A q \in Queues : q \in Nat /\ q >= 1 /\ q <= MaxQueues /\ Job(q) \in Jobs
  /\ \A i \in Images : i \in Nat /\ i >= 1 /\ i <= MaxImages /\ Preview(i) \in Urls /\ Preview(i) # NoUrl
  /\ \A i \in Images, q \in Queues : <<i, q>> \in Urls /\ <<i, q>> # NoUrl
  /\ \A i, j \in Images, q \in Queues : Preview(i) # <<j, q>>
  /\ \A i, j \in Images : Preview(i) = Preview(j) => i = j
  /\ \A q, r \in Queues : Job(q) = Job(r) => q = r
<1>1. /\ MaxFiles \in Nat /\ MaxImages \in Nat /\ MaxQueues \in Nat /\ FirstPreset \in Presets
      /\ Queues \X {0} \subseteq Jobs /\ NoUrl \notin Urls
  BY OptimizerAssumption DEF Urls
<1>2. \A q \in Queues : q \in Nat /\ q >= 1 /\ q <= MaxQueues /\ Job(q) \in Jobs
  BY <1>1 DEF Queues, Job
<1>3. \A i \in Images : i \in Nat /\ i >= 1 /\ i <= MaxImages /\ Preview(i) \in Urls
  BY <1>1 DEF Images, Urls, Preview
<1>4. \A i \in Images, q \in Queues : <<i, q>> \in Urls
  BY <1>1, <1>2 DEF Urls
<1>5. \A i, j \in Images, q \in Queues : Preview(i) # <<j, q>>
  BY <1>2 DEF Preview
<1>6. \A i, j \in Images : Preview(i) = Preview(j) => i = j
  BY DEF Preview
<1>7. \A q, r \in Queues : Job(q) = Job(r) => q = r
  BY DEF Job
<1> QED BY <1>1, <1>2, <1>3, <1>4, <1>5, <1>6, <1>7

\* What a change of the listed images that keeps their ids and URLs keeps.
LEMMA SameUrlsKeep ==
  ASSUME NEW list, NEW us, NEW top, ListOK(list, us, top), NEW new \in Seq(Records), Len(new) = Len(list),
         \A n \in DOMAIN list : new[n].id = list[n].id /\ new[n].url = list[n].url
                                /\ (new[n].status = "done" => list[n].status = "done")
  PROVE  ListOK(new, us, top)
<1>1. DOMAIN list = 1..Len(list) /\ DOMAIN new = DOMAIN list /\ DOMAIN new = 1..Len(new)
  BY DEF ListOK
<1>2. \A n \in DOMAIN new : new[n] \in Records /\ ItemOK(list[n], us, top)
  BY <1>1 DEF ListOK
<1>3. \A n \in DOMAIN new : ItemOK(new[n], us, top)
  BY <1>1, <1>2 DEF ItemOK
<1> QED BY <1>1, <1>3 DEF ListOK

\* An image that is being processed.
LEMMA ProcessingKeeps ==
  ASSUME NEW list, NEW us, NEW top, ListOK(list, us, top), NEW id
  PROVE  /\ ListOK(Processing(list, id), us, top) /\ Len(Processing(list, id)) = Len(list)
         /\ DOMAIN Processing(list, id) = DOMAIN list
         /\ \A n \in DOMAIN list : /\ Processing(list, id)[n].id = list[n].id
                                   /\ Waits(Processing(list, id)[n]) => Waits(list[n]) \/ list[n].id = id
<1> DEFINE new == Processing(list, id)
<1>1. new = [n \in 1..Len(list) |-> IF list[n].id = id THEN [list[n] EXCEPT !.status = "processing"] ELSE list[n]]
  BY DEF Processing, MapItem, ListOK
<1>2. list \in Seq(Records) /\ DOMAIN list = 1..Len(list) /\ Len(list) \in Nat
  BY DEF ListOK
<1> HIDE DEF new
<1>3. \A n \in 1..Len(list) : list[n] \in Records /\ [list[n] EXCEPT !.status = "processing"] \in Records
  <2>1. "processing" \in Statuses
    BY DEF Statuses
  <2>2. \A n \in 1..Len(list) : list[n] \in Records
    BY <1>2
  <2> QED BY <2>1, <2>2 DEF Records
<1>4. new \in Seq(Records) /\ Len(new) = Len(list) /\ DOMAIN new = DOMAIN list
  BY <1>1, <1>2, <1>3
<1>5. \A n \in DOMAIN list : /\ new[n].id = list[n].id /\ new[n].url = list[n].url
                             /\ (new[n].status = "done" => list[n].status = "done")
                             /\ (Waits(new[n]) => Waits(list[n]) \/ list[n].id = id)
  BY <1>1, <1>2, <1>3 DEF Waits, Records
<1>6. ListOK(new, us, top)
  BY <1>4, <1>5, SameUrlsKeep
<1> QED BY <1>4, <1>5, <1>6 DEF new

\* A queue starts: its images wait in it, and it awaits its first job.
LEMMA RunQueueKeeps ==
  ASSUME ServiceOK(service), JobsThere(queues, service), QueuesOK(queues, seqs.queue),
         NEW list, NEW us, NEW top, ListOK(list, us, top), NEW ids \in Seq(Images), ids # <<>>, NEW p \in Presets,
         seqs.queue \in Nat, RunQueue(list, ids, p),
         \A n \in DOMAIN list : Waits(list[n]) =>
            list[n].id \in ToSet(ids) \/ \E q \in Queues : list[n].id \in ToSet(queues[q].todo)
  PROVE  /\ ServiceOK(service') /\ JobsThere(queues', service') /\ QueuesOK(queues', seqs.queue + 1)
         /\ Queued(items', queues') /\ ListOK(items', us, top) /\ Len(items') = Len(list) /\ processing' = TRUE
<1> DEFINE q == seqs.queue + 1
<1>1. /\ q \in Queues /\ items' = Processing(list, Head(ids)) /\ service' = Posted(service, Job(q))
      /\ queues' = [queues EXCEPT ![q] = [todo |-> ids, preset |-> p]] /\ processing' = TRUE
  BY DEF RunQueue
<1>2. q > seqs.queue
  OBVIOUS
<1> HIDE DEF q
<1>3. /\ queues[q].todo = <<>> /\ queues'[q].todo = ids
      /\ \A r \in Queues : r # q => queues'[r] = queues[r]
  BY <1>1, <1>2 DEF QueuesOK
<1>4. Head(ids) \in ToSet(ids)
  BY ToSetTail
<1>5. ListOK(items', us, top) /\ Len(items') = Len(list)
  BY <1>1, ProcessingKeeps
<1>6. Queued(items', queues')
  <2> SUFFICES ASSUME NEW n \in DOMAIN items', Waits(items'[n])
               PROVE  \E r \in Queues : items'[n].id \in ToSet(queues'[r].todo)
    BY DEF Queued
  <2>1. n \in DOMAIN list /\ items'[n].id = list[n].id /\ (Waits(list[n]) \/ list[n].id = Head(ids))
    BY <1>1, ProcessingKeeps
  <2>2. CASE list[n].id \in ToSet(ids)
    BY <1>1, <1>3, <2>1, <2>2
  <2>3. ASSUME NEW r \in Queues, list[n].id \in ToSet(queues[r].todo)
        PROVE  \E r_1 \in Queues : items'[n].id \in ToSet(queues'[r_1].todo)
    <3>1. r # q
      BY <1>3, <2>3 DEF ToSet
    <3> QED BY <1>3, <2>1, <2>3, <3>1
  <2> QED BY <1>4, <2>1, <2>2, <2>3
<1>7. Job(q) \in Jobs /\ \A r \in Queues : Job(r) \in Jobs
  BY <1>1, OptimizerSets
<1>8. ServiceOK(service') /\ JobsThere(queues', service')
  <2>1. ServiceOK(service') /\ \A k \in Jobs : Awaits(service, k) \/ k = Job(q) => Awaits(service', k)
    BY <1>1, <1>7, PostedKeeps
  <2>2. \A r \in Queues : queues'[r].todo # <<>> => r = q \/ Awaits(service, Job(r))
    BY <1>3 DEF JobsThere
  <2> QED BY <1>7, <2>1, <2>2 DEF JobsThere
<1>9. QueuesOK(queues', q)
  <2>1. [todo |-> ids, preset |-> p] \in [todo : Seq(Images), preset : Presets]
    OBVIOUS
  <2>2. queues' \in [Queues -> [todo : Seq(Images), preset : Presets]]
    BY <1>1, <2>1 DEF QueuesOK
  <2>3. \A r \in Queues : r > q => r # q /\ r > seqs.queue
    <3>1. q \in Nat /\ q = seqs.queue + 1
      BY DEF q
    <3>2. \A r \in Queues : r \in Nat
      BY OptimizerSets
    <3> QED BY <3>1, <3>2
  <2> QED BY <1>3, <2>2, <2>3 DEF QueuesOK
<1> QED BY <1>1, <1>5, <1>6, <1>8, <1>9 DEF q
\* A queue goes on after an image that no longer waits in it.
LEMMA ContinueKeeps ==
  ASSUME NEW q \in Running, QueuesOK(queues, seqs.queue), JobsThere(queues, service), processing \in BOOLEAN,
         NEW list, NEW us, NEW top, ListOK(list, us, top), NEW s, ServiceOK(s), Continue(q, list, s),
         \A k \in Jobs : Awaits(service, k) /\ k # Job(q) => Awaits(s, k),
         \A n \in DOMAIN list : Waits(list[n]) =>
            list[n].id # Head(queues[q].todo) /\ \E r \in Queues : list[n].id \in ToSet(queues[r].todo)
  PROVE  /\ ServiceOK(service') /\ JobsThere(queues', service') /\ QueuesOK(queues', seqs.queue)
         /\ Queued(items', queues') /\ ListOK(items', us, top) /\ Len(items') = Len(list) /\ processing' \in BOOLEAN
<1> DEFINE todo == queues[q].todo
           rest == Tail(todo)
<1>1. q \in Queues /\ todo \in Seq(Images) /\ todo # <<>>
  BY DEF Running, QueuesOK
<1>2. rest \in Seq(Images) /\ ToSet(todo) = {Head(todo)} \cup ToSet(rest)
  BY <1>1, ToSetTail
<1>3. /\ queues' = [queues EXCEPT ![q].todo = rest]
      /\ rest = <<>> => items' = list /\ service' = s /\ processing' = FALSE
      /\ rest # <<>> => items' = Processing(list, Head(rest)) /\ service' = Posted(s, Job(q)) /\ processing' = processing
  BY DEF Continue
<1>4. /\ queues' \in [Queues -> [todo : Seq(Images), preset : Presets]] /\ queues'[q].todo = rest
      /\ \A r \in Queues : r # q => queues'[r] = queues[r]
  BY <1>1, <1>2, <1>3 DEF QueuesOK
<1> HIDE DEF rest, todo
<1>5. QueuesOK(queues', seqs.queue)
  <2>1. ~(q > seqs.queue)
    BY <1>1 DEF QueuesOK, todo
  <2> QED BY <1>4, <2>1 DEF QueuesOK
<1>6. ListOK(items', us, top) /\ Len(items') = Len(list) /\ processing' \in BOOLEAN
  <2>1. CASE rest = <<>>
    BY <1>3, <2>1
  <2>2. CASE rest # <<>>
    <3>1. items' = Processing(list, Head(rest)) /\ processing' = processing
      BY <1>3, <2>2
    <3> QED BY <3>1, ProcessingKeeps
  <2> QED BY <2>1, <2>2
<1>7. Queued(items', queues')
  <2> SUFFICES ASSUME NEW n \in DOMAIN items', Waits(items'[n])
               PROVE  \E r \in Queues : items'[n].id \in ToSet(queues'[r].todo)
    BY DEF Queued
  <2>1. /\ n \in DOMAIN list /\ items'[n].id = list[n].id
        /\ Waits(list[n]) \/ (rest # <<>> /\ list[n].id = Head(rest))
    BY <1>3, ProcessingKeeps
  <2>2. CASE rest # <<>> /\ list[n].id = Head(rest)
    <3>1. Head(rest) \in ToSet(rest)
      BY <1>2, <2>2, ToSetTail
    <3> QED BY <1>1, <1>4, <2>1, <2>2, <3>1
  <2>3. CASE Waits(list[n])
    <3>1. PICK r \in Queues : list[n].id \in ToSet(queues[r].todo)
      BY <2>1, <2>3
    <3>2. CASE r = q
      <4>1. list[n].id \in ToSet(rest)
        BY <1>2, <2>1, <2>3, <3>1, <3>2 DEF todo
      <4> QED BY <1>1, <1>4, <2>1, <4>1
    <3>3. CASE r # q
      BY <1>4, <2>1, <3>1, <3>3
    <3> QED BY <3>2, <3>3
  <2> QED BY <2>1, <2>2, <2>3
<1>8. \A r \in Queues : Job(r) \in Jobs /\ (r # q => Job(r) # Job(q))
  BY <1>1, OptimizerSets
<1>9. ServiceOK(service') /\ JobsThere(queues', service')
  <2>1. \A r \in Queues : r # q /\ queues'[r].todo # <<>> => Awaits(s, Job(r))
    BY <1>4, <1>8 DEF JobsThere
  <2>2. CASE rest = <<>>
    BY <1>3, <1>4, <2>1, <2>2 DEF JobsThere
  <2>3. CASE rest # <<>>
    <3>1. ServiceOK(service') /\ \A k \in Jobs : Awaits(s, k) \/ k = Job(q) => Awaits(service', k)
      BY <1>1, <1>3, <1>8, <2>3, PostedKeeps
    <3> QED BY <1>8, <2>1, <3>1 DEF JobsThere
  <2> QED BY <2>2, <2>3
<1> QED BY <1>5, <1>6, <1>7, <1>9

\* Lists one after the other, the ids of the second all newer.
LEMMA JoinedLists ==
  ASSUME NEW l, NEW us, NEW top \in Nat, ListOK(l, us, top), NEW m, NEW vs, NEW next \in Nat, ListOK(m, vs, next),
         us \subseteq vs, top <= next, \A n \in DOMAIN m : m[n].id > top
  PROVE  /\ ListOK(l \o m, vs, next) /\ Len(l \o m) = Len(l) + Len(m)
         /\ \A n \in DOMAIN (l \o m) : (n \in DOMAIN l /\ (l \o m)[n] = l[n]) \/ \E k \in DOMAIN m : (l \o m)[n] = m[k]
<1> DEFINE c == l \o m
<1>1. /\ l \in Seq(Records) /\ m \in Seq(Records) /\ Len(l) \in Nat /\ Len(m) \in Nat
      /\ DOMAIN l = 1..Len(l) /\ DOMAIN m = 1..Len(m)
  BY DEF ListOK
<1>2. /\ c \in Seq(Records) /\ Len(c) = Len(l) + Len(m) /\ DOMAIN c = 1..(Len(l) + Len(m))
      /\ \A n \in DOMAIN l : c[n] = l[n]
      /\ \A n \in DOMAIN m : c[n + Len(l)] = m[n]
  BY <1>1
<1>3. \A n \in DOMAIN c : n \in Int /\ (n \in DOMAIN l \/ (n - Len(l) \in DOMAIN m /\ (n - Len(l)) + Len(l) = n))
  BY <1>1, <1>2
<1> HIDE DEF c
<1>4. \A n \in DOMAIN c : (n \in DOMAIN l /\ c[n] = l[n]) \/ (n - Len(l) \in DOMAIN m /\ c[n] = m[n - Len(l)])
  <2> SUFFICES ASSUME NEW n \in DOMAIN c
               PROVE  (n \in DOMAIN l /\ c[n] = l[n]) \/ (n - Len(l) \in DOMAIN m /\ c[n] = m[n - Len(l)])
    OBVIOUS
  <2>1. CASE n \in DOMAIN l
    BY <1>2, <2>1
  <2>2. CASE n - Len(l) \in DOMAIN m /\ (n - Len(l)) + Len(l) = n
    <3> DEFINE k == n - Len(l)
    <3>1. k \in DOMAIN m /\ k + Len(l) = n
      BY <2>2
    <3> HIDE DEF k
    <3>2. c[n] = m[k]
      BY <1>2, <3>1
    <3> QED BY <3>1, <3>2 DEF k
  <2> QED BY <1>3, <2>1, <2>2
<1>5. \A n \in DOMAIN l : ItemOK(l[n], vs, next) /\ l[n].id <= top /\ l[n].id \in Nat
  <2> SUFFICES ASSUME NEW n \in DOMAIN l PROVE ItemOK(l[n], vs, next) /\ l[n].id <= top /\ l[n].id \in Nat
    OBVIOUS
  <2>1. ItemOK(l[n], us, top)
    BY DEF ListOK
  <2>2. l[n].id \in Nat /\ l[n].id <= top
    BY <2>1, OptimizerSets DEF ItemOK, Records
  <2>3. l[n].id <= next
    BY <2>2
  <2> QED BY <2>1, <2>2, <2>3 DEF ItemOK
<1>6. \A n \in DOMAIN m : ItemOK(m[n], vs, next) /\ m[n].id \in Nat
  <2> SUFFICES ASSUME NEW n \in DOMAIN m PROVE ItemOK(m[n], vs, next) /\ m[n].id \in Nat
    OBVIOUS
  <2>1. ItemOK(m[n], vs, next)
    BY DEF ListOK
  <2> QED BY <2>1, OptimizerSets DEF ItemOK, Records
<1>7. \A n \in DOMAIN c : ItemOK(c[n], vs, next)
  BY <1>4, <1>5, <1>6
<1>8. \A n, k \in DOMAIN c : c[n].id = c[k].id => n = k
  <2> SUFFICES ASSUME NEW n \in DOMAIN c, NEW k \in DOMAIN c, c[n].id = c[k].id PROVE n = k
    OBVIOUS
  <2>1. CASE n \in DOMAIN l /\ c[n] = l[n] /\ k \in DOMAIN l /\ c[k] = l[k]
    BY <2>1 DEF ListOK
  <2>2. ASSUME NEW i \in DOMAIN l, NEW j \in DOMAIN m, l[i].id = m[j].id PROVE FALSE
    <3>1. l[i].id <= top /\ m[j].id > top /\ l[i].id \in Nat /\ m[j].id \in Nat
      BY <1>5, <1>6
    <3> QED BY <2>2, <3>1
  <2>3. CASE n - Len(l) \in DOMAIN m /\ c[n] = m[n - Len(l)] /\ k - Len(l) \in DOMAIN m /\ c[k] = m[k - Len(l)]
    <3>1. n - Len(l) = k - Len(l)
      BY <2>3 DEF ListOK
    <3> QED BY <1>1, <1>3, <3>1
  <2> QED BY <1>4, <2>1, <2>2, <2>3
<1>9. DOMAIN c = 1..Len(c)
  BY <1>2
<1>10. \A n \in DOMAIN c : (n \in DOMAIN l /\ c[n] = l[n]) \/ \E k \in DOMAIN m : c[n] = m[k]
  BY <1>4
<1> QED BY <1>2, <1>7, <1>8, <1>9, <1>10 DEF ListOK, c

\* Files are added to the list, and a queue of their own is started.
LEMMA AddFilesKeeps ==
  ASSUME OptimizerInv, NEW n \in Nat, AddFiles(n), bubbling' \in 0..MaxFiles
  PROVE  OptimizerInv'
<1> DEFINE room == MaxFiles - Len(items)
           taken == IF n < room THEN n ELSE room
           ids == [k \in 1..taken |-> seqs.image + k]
           fresh == [k \in 1..taken |-> Fresh(ids[k])]
           next == seqs.image + taken
<1>1. /\ taken > 0 /\ next <= MaxImages /\ RunQueue(items \o fresh, ids, preset)
      /\ urls' = urls \cup {Preview(ids[k]) : k \in 1..taken}
      /\ seqs' = [image |-> next, queue |-> seqs.queue + 1] /\ UNCHANGED <<preset, mounted>>
  BY DEF AddFiles
<1>2. /\ ListOK(items, urls, seqs.image) /\ Len(items) <= MaxFiles /\ Len(items) \in Nat /\ items \in Seq(Records)
      /\ QueuesOK(queues, seqs.queue) /\ Queued(items, queues) /\ preset \in Presets /\ mounted \in BOOLEAN
      /\ urls \subseteq Urls /\ seqs.image \in Nat /\ seqs.queue \in Nat
      /\ JobsThere(queues, service) /\ ServiceOK(service)
  BY OptimizerSets DEF OptimizerInv, OptimizerPage, ListOK, Images, Queues
<1>3. taken \in Nat /\ taken <= MaxFiles - Len(items)
  BY <1>1, <1>2, OptimizerSets
<1> HIDE DEF taken
<1>4. /\ ids \in Seq(Images) /\ ids # <<>> /\ Len(ids) = taken /\ DOMAIN ids = 1..taken
      /\ \A k \in 1..taken : ids[k] = seqs.image + k /\ ids[k] \in Images
  <2>1. \A k \in 1..taken : seqs.image + k \in Images
    BY <1>1, <1>2, <1>3, OptimizerSets DEF Images
  <2> QED BY <1>1, <1>3, <2>1
<1> HIDE DEF ids
<1>5. ListOK(fresh, urls', next) /\ Len(fresh) = taken /\ DOMAIN fresh = 1..taken
  <2>1. \A k \in 1..taken : /\ Fresh(ids[k]).id = ids[k] /\ Fresh(ids[k]).url = NoUrl
                            /\ Fresh(ids[k]).status = "pending" /\ Fresh(ids[k]) \in Records
    BY <1>2, <1>4 DEF Fresh, Records, Statuses
  <2>2. fresh \in Seq(Records) /\ DOMAIN fresh = 1..taken /\ Len(fresh) = taken
    BY <1>3, <2>1
  <2>3. \A k \in 1..taken : fresh[k] = Fresh(ids[k])
    OBVIOUS
  <2> HIDE DEF fresh
  <2>4. \A k \in 1..taken : ids[k] <= next /\ Preview(ids[k]) \in urls'
    BY <1>1, <1>2, <1>3, <1>4
  <2>5. \A k \in 1..taken : ItemOK(fresh[k], urls', next)
    BY <2>1, <2>3, <2>4 DEF ItemOK
  <2>6. \A j, k \in 1..taken : fresh[j].id = fresh[k].id => j = k
    <3>1. \A j, k \in 1..taken : ids[j] = ids[k] => j = k
      BY <1>2, <1>4
    <3> QED BY <2>1, <2>3, <3>1
  <2> QED BY <2>2, <2>5, <2>6 DEF ListOK
<1>6. \A k \in 1..taken : fresh[k].id = ids[k] /\ fresh[k].id > seqs.image /\ fresh[k].id \in ToSet(ids)
  <2>1. \A k \in 1..taken : ids[k] > seqs.image /\ ids[k] \in ToSet(ids)
    BY <1>2, <1>4 DEF ToSet
  <2> QED BY <2>1 DEF Fresh
<1> HIDE DEF fresh
<1>7. next \in Nat /\ seqs.image <= next /\ urls \subseteq urls'
  BY <1>1, <1>2, <1>3
<1> HIDE DEF next
<1>8. /\ ListOK(items \o fresh, urls', next) /\ Len(items \o fresh) = Len(items) + taken
      /\ \A k \in DOMAIN (items \o fresh) : \/ k \in DOMAIN items /\ (items \o fresh)[k] = items[k]
                                            \/ \E j \in DOMAIN fresh : (items \o fresh)[k] = fresh[j]
  BY <1>2, <1>5, <1>6, <1>7, JoinedLists
<1>9. \A k \in DOMAIN (items \o fresh) : Waits((items \o fresh)[k]) =>
         (items \o fresh)[k].id \in ToSet(ids) \/ \E q \in Queues : (items \o fresh)[k].id \in ToSet(queues[q].todo)
  BY <1>2, <1>5, <1>6, <1>8 DEF Queued
<1>10. /\ ServiceOK(service') /\ JobsThere(queues', service') /\ QueuesOK(queues', seqs.queue + 1)
       /\ Queued(items', queues') /\ ListOK(items', urls', next) /\ Len(items') = Len(items) + taken /\ processing' = TRUE
  <2> DEFINE list == items \o fresh
  <2>1. /\ RunQueue(list, ids, preset) /\ ListOK(list, urls', next) /\ Len(list) = Len(items) + taken
        /\ \A k \in DOMAIN list : Waits(list[k]) =>
             list[k].id \in ToSet(ids) \/ \E q \in Queues : list[k].id \in ToSet(queues[q].todo)
    BY <1>1, <1>8, <1>9
  <2> HIDE DEF list
  <2>2. /\ ServiceOK(service) /\ JobsThere(queues, service) /\ QueuesOK(queues, seqs.queue)
        /\ ids \in Seq(Images) /\ ids # <<>> /\ preset \in Presets /\ seqs.queue \in Nat
    BY <1>2, <1>4
  <2>3. /\ ServiceOK(service') /\ JobsThere(queues', service') /\ QueuesOK(queues', seqs.queue + 1)
        /\ Queued(items', queues') /\ ListOK(items', urls', next) /\ Len(items') = Len(list) /\ processing' = TRUE
    BY <2>1, <2>2, RunQueueKeeps
  <2> QED BY <2>1, <2>3
<1>11. urls' \subseteq Urls
  BY <1>1, <1>2, <1>4, OptimizerSets
<1>12. /\ seqs' \in [image : Images \cup {0}, queue : Queues \cup {0}]
       /\ seqs'.image = next /\ seqs'.queue = seqs.queue + 1
  <2>1. seqs.queue + 1 \in Queues
    BY <1>1 DEF RunQueue
  <2>2. next \in Images \cup {0}
    BY <1>1, <1>7, OptimizerSets DEF Images
  <2> QED BY <1>1, <2>1, <2>2
<1>13. Len(items') <= MaxFiles
  BY <1>2, <1>3, <1>10, OptimizerSets
<1> QED BY <1>1, <1>2, <1>10, <1>11, <1>12, <1>13 DEF OptimizerInv, OptimizerPage
\* What the invariant says of the page, to cite.
LEMMA OptimizerFacts ==
  ASSUME OptimizerInv
  PROVE  /\ ListOK(items, urls, seqs.image) /\ Len(items) <= MaxFiles /\ Len(items) \in Nat /\ items \in Seq(Records)
         /\ DOMAIN items = 1..Len(items)
         /\ \A n \in DOMAIN items : ItemOK(items[n], urls, seqs.image) /\ items[n] \in Records /\ items[n].id \in Images
         /\ QueuesOK(queues, seqs.queue) /\ Queued(items, queues) /\ preset \in Presets /\ mounted \in BOOLEAN
         /\ processing \in BOOLEAN /\ urls \subseteq Urls /\ bubbling \in 0..MaxFiles
         /\ seqs \in [image : Images \cup {0}, queue : Queues \cup {0}] /\ seqs.image \in Nat /\ seqs.queue \in Nat
         /\ JobsThere(queues, service) /\ ServiceOK(service)
<1>1. \A n \in DOMAIN items : items[n] \in Records
  BY DEF OptimizerInv, OptimizerPage, ListOK
<1>2. \A r \in Records : r.id \in Images
  BY DEF Records
<1>3. \A n \in DOMAIN items : items[n].id \in Images
  BY <1>1, <1>2
<1>4. seqs.image \in Nat /\ seqs.queue \in Nat
  BY OptimizerSets DEF OptimizerInv, OptimizerPage, Images, Queues
<1>5. items \in Seq(Records) /\ Len(items) \in Nat
  BY DEF OptimizerInv, OptimizerPage, ListOK
<1> QED BY <1>1, <1>3, <1>4, <1>5 DEF OptimizerInv, OptimizerPage, ListOK

\* The URLs of two listed images differ.
LEMMA UrlsApart ==
  ASSUME OptimizerInv, NEW n \in DOMAIN items, NEW m \in DOMAIN items
  PROVE  /\ Preview(items[n].id) # items[m].url
         /\ items[n].id # items[m].id => /\ Preview(items[n].id) # Preview(items[m].id)
                                         /\ items[n].url # NoUrl => items[n].url # items[m].url
<1>1. items[n].id \in Images /\ items[m].id \in Images /\ ItemOK(items[n], urls, seqs.image) /\ ItemOK(items[m], urls, seqs.image)
  BY OptimizerFacts
<1>2. Preview(items[n].id) # items[m].url
  <2>1. CASE items[m].url = NoUrl
    BY <1>1, <2>1, OptimizerSets
  <2>2. ASSUME NEW q \in Queues, items[m].url = <<items[m].id, q>> PROVE Preview(items[n].id) # items[m].url
    BY <1>1, <2>2, OptimizerSets
  <2> QED BY <1>1, <2>1, <2>2 DEF ItemOK
<1>3. ASSUME items[n].id # items[m].id
      PROVE  Preview(items[n].id) # Preview(items[m].id) /\ (items[n].url # NoUrl => items[n].url # items[m].url)
  <2>1. Preview(items[n].id) # Preview(items[m].id)
    BY <1>1, <1>3, OptimizerSets
  <2>2. ASSUME items[n].url # NoUrl, items[n].url = items[m].url PROVE FALSE
    <3>1. PICK q \in Queues : items[n].url = <<items[n].id, q>>
      BY <1>1, <2>2 DEF ItemOK
    <3>2. PICK r \in Queues : items[m].url = <<items[m].id, r>>
      BY <1>1, <2>2 DEF ItemOK
    <3>3. items[n].url[1] = items[n].id /\ items[m].url[1] = items[m].id
      BY <3>1, <3>2
    <3> QED BY <1>3, <2>2, <3>3
  <2> QED BY <2>1, <2>2
<1> QED BY <1>2, <1>3

\* An image is answered, and its queue goes on.
LEMMA OptimizedKeeps ==
  ASSUME OptimizerInv, NEW q \in Running, Optimized(q)
  PROVE  OptimizerInv'
<1> DEFINE id == Head(queues[q].todo)
           url == <<id, q>>
           list == [n \in 1..Len(items) |->
                      IF items[n].id = id THEN [items[n] EXCEPT !.status = "done", !.url = url, !.made = queues[q].preset]
                      ELSE items[n]]
           gone == {items[n].url : n \in {m \in DOMAIN items : items[m].id = id}}
<1>1. q \in Queues /\ id \in Images /\ queues[q].preset \in Presets
  <2>1. q \in Queues /\ queues[q].todo # <<>> /\ queues[q] \in [todo : Seq(Images), preset : Presets]
    BY OptimizerFacts DEF Running, QueuesOK
  <2>2. queues[q].todo \in Seq(Images) /\ queues[q].preset \in Presets
    BY <2>1
  <2> QED BY <2>1, <2>2, ToSetTail
<1>2. /\ urls' = (urls \ gone) \cup {url} /\ Continue(q, list, Answered(service, Job(q)))
      /\ UNCHANGED <<preset, seqs, bubbling, mounted>>
  <2>1. DOMAIN items = 1..Len(items)
    BY OptimizerFacts
  <2>2. list = MapItem(items, id, LAMBDA it : [it EXCEPT !.status = "done", !.url = url, !.made = queues[q].preset])
    BY <2>1 DEF MapItem
  <2> QED BY <2>2 DEF Optimized
<1>3. url \in Urls /\ url # NoUrl
  BY <1>1, OptimizerSets
<1> HIDE DEF id
<1>4. \A n \in 1..Len(items) : [items[n] EXCEPT !.status = "done", !.url = url, !.made = queues[q].preset] \in Records
  <2>1. \A n \in 1..Len(items) : items[n] \in Records
    BY OptimizerFacts
  <2>2. "done" \in Statuses
    BY DEF Statuses
  <2> HIDE DEF url
  <2> QED BY <1>1, <1>3, <2>1, <2>2 DEF Records
<1>5. list \in Seq(Records) /\ DOMAIN list = 1..Len(items) /\ Len(list) = Len(items)
  <2>1. Len(items) \in Nat /\ \A n \in 1..Len(items) : items[n] \in Records
    BY OptimizerFacts
  <2> HIDE DEF url
  <2>2. \A n \in 1..Len(items) : list[n] \in Records
    BY <1>4, <2>1
  <2>3. list = [n \in 1..Len(items) |-> list[n]]
    OBVIOUS
  <2> HIDE DEF list
  <2> QED BY <2>1, <2>2, <2>3
<1>6. \A n \in 1..Len(items) : /\ list[n].id = items[n].id
                               /\ items[n].id = id => list[n].url = url /\ list[n].status = "done"
                               /\ items[n].id # id => list[n] = items[n]
  <2>1. \A n \in 1..Len(items) : items[n] \in Records
    BY OptimizerFacts
  <2> HIDE DEF url
  <2> QED BY <2>1 DEF Records
<1>7. \A n \in 1..Len(items) : ItemOK(list[n], urls', seqs.image)
  <2> SUFFICES ASSUME NEW n \in 1..Len(items) PROVE ItemOK(list[n], urls', seqs.image)
    OBVIOUS
  <2> HIDE DEF list
  <2>0. list[n] \in Records
    BY <1>5
  <2>1. n \in DOMAIN items /\ ItemOK(items[n], urls, seqs.image)
    BY OptimizerFacts
  <2>2. \A u \in gone : \E m \in DOMAIN items : items[m].id = id /\ u = items[m].url
    OBVIOUS
  <2>3. Preview(items[n].id) \in urls'
    BY <1>2, <2>1, <2>2, UrlsApart DEF ItemOK
  <2>4. CASE items[n].id = id
    <3>1. list[n].id = id /\ items[n].id = id /\ list[n].url = <<id, q>> /\ list[n].status = "done" /\ <<id, q>> \in urls' /\ q \in Queues
      BY <1>1, <1>2, <1>6, <2>4
    <3>2. id <= seqs.image
      BY <2>1, <2>4 DEF ItemOK
    <3>3. list[n].url # NoUrl
      BY <1>3, <3>1
    <3> QED BY <2>0, <2>3, <3>1, <3>2, <3>3 DEF ItemOK
  <2>5. CASE items[n].id # id
    <3>1. items[n].url # NoUrl => items[n].url \in urls'
      BY <1>2, <2>1, <2>2, <2>5, UrlsApart DEF ItemOK
    <3>2. list[n] = items[n]
      BY <1>6, <2>5
    <3> QED BY <2>0, <2>1, <2>3, <3>1, <3>2 DEF ItemOK
  <2> QED BY <2>4, <2>5
<1>8. ListOK(list, urls', seqs.image)
  <2>1. \A n, m \in 1..Len(items) : items[n].id = items[m].id => n = m
    BY OptimizerFacts DEF ListOK
  <2> HIDE DEF list
  <2> QED BY <1>5, <1>6, <1>7, <2>1 DEF ListOK
<1>9. \A n \in DOMAIN list : Waits(list[n]) => list[n].id # id /\ \E r \in Queues : list[n].id \in ToSet(queues[r].todo)
  <2> SUFFICES ASSUME NEW n \in 1..Len(items), Waits(list[n])
               PROVE  list[n].id # id /\ \E r \in Queues : list[n].id \in ToSet(queues[r].todo)
    BY <1>5
  <2>1. items[n].id # id
    BY <1>6 DEF Waits
  <2>2. list[n] = items[n] /\ n \in DOMAIN items
    BY <1>6, <2>1, OptimizerFacts
  <2> HIDE DEF list
  <2> QED BY <2>1, <2>2, OptimizerFacts DEF Queued
<1>10. /\ ServiceOK(Answered(service, Job(q)))
       /\ \A k \in Jobs : Awaits(service, k) /\ k # Job(q) => Awaits(Answered(service, Job(q)), k)
  BY AnsweredKeeps, OptimizerFacts
<1> DEFINE s == Answered(service, Job(q))
<1> HIDE DEF list, gone, url, s
<1>11. /\ ServiceOK(service') /\ JobsThere(queues', service') /\ QueuesOK(queues', seqs.queue)
       /\ Queued(items', queues') /\ ListOK(items', urls', seqs.image) /\ Len(items') = Len(list) /\ processing' \in BOOLEAN
  BY <1>2, <1>8, <1>9, <1>10, OptimizerFacts, ContinueKeeps DEF id, s
<1>12. urls' \subseteq Urls
  BY <1>2, <1>3, OptimizerFacts
<1> QED BY <1>2, <1>5, <1>11, <1>12, OptimizerFacts DEF OptimizerInv, OptimizerPage

\* An image fails, and its queue goes on.
LEMMA NotOptimizedKeeps ==
  ASSUME OptimizerInv, NEW q \in Running, NotOptimized(q)
  PROVE  OptimizerInv'
<1> DEFINE id == Head(queues[q].todo)
           list == [n \in 1..Len(items) |-> IF items[n].id = id THEN [items[n] EXCEPT !.status = "error"] ELSE items[n]]
<1>1. q \in Queues /\ Job(q) \in Jobs
  BY OptimizerSets DEF Running
<1>2. /\ \/ CanAnswer(Job(q)) /\ Continue(q, list, Answered(service, Job(q)))
         \/ CanReject(Job(q)) /\ Continue(q, list, Rejected(service))
      /\ UNCHANGED <<preset, urls, seqs, bubbling, mounted>>
  <2>1. DOMAIN items = 1..Len(items)
    BY OptimizerFacts
  <2>2. list = MapItem(items, id, LAMBDA it : [it EXCEPT !.status = "error"])
    BY <2>1 DEF MapItem
  <2> QED BY <2>2 DEF NotOptimized
<1> HIDE DEF id
<1>3. \A n \in 1..Len(items) : items[n] \in Records /\ [items[n] EXCEPT !.status = "error"] \in Records
  <2>1. \A n \in 1..Len(items) : items[n] \in Records
    BY OptimizerFacts
  <2>2. "error" \in Statuses
    BY DEF Statuses
  <2> QED BY <2>1, <2>2 DEF Records
<1>4. list \in Seq(Records) /\ DOMAIN list = 1..Len(items) /\ Len(list) = Len(items)
  BY <1>3, OptimizerFacts
<1>5. \A n \in 1..Len(items) : /\ list[n].id = items[n].id /\ list[n].url = items[n].url
                               /\ list[n].status = "done" => items[n].status = "done"
                               /\ Waits(list[n]) => Waits(items[n]) /\ items[n].id # id
  BY <1>3 DEF Records, Waits
<1>6. DOMAIN items = 1..Len(items) /\ ListOK(items, urls, seqs.image)
  BY OptimizerFacts
<1> HIDE DEF list
<1>7. ListOK(list, urls, seqs.image)
  BY <1>4, <1>5, <1>6, SameUrlsKeep
<1>8. \A n \in DOMAIN list : Waits(list[n]) => list[n].id # id /\ \E r \in Queues : list[n].id \in ToSet(queues[r].todo)
  BY <1>4, <1>5, <1>6, OptimizerFacts DEF Queued
<1>9. PICK s : /\ Continue(q, list, s) /\ ServiceOK(s)
               /\ \A k \in Jobs : Awaits(service, k) /\ k # Job(q) => Awaits(s, k)
  <2>1. CASE CanAnswer(Job(q)) /\ Continue(q, list, Answered(service, Job(q)))
    BY <2>1, AnsweredKeeps, OptimizerFacts
  <2>2. CASE CanReject(Job(q)) /\ Continue(q, list, Rejected(service))
    BY <2>2, RejectedKeeps, OptimizerFacts DEF CanReject, Quiet
  <2> QED BY <1>2, <2>1, <2>2
<1>10. /\ ServiceOK(service') /\ JobsThere(queues', service') /\ QueuesOK(queues', seqs.queue)
       /\ Queued(items', queues') /\ ListOK(items', urls, seqs.image) /\ Len(items') = Len(list) /\ processing' \in BOOLEAN
  BY <1>7, <1>8, <1>9, OptimizerFacts, ContinueKeeps DEF id
<1> QED BY <1>2, <1>4, <1>10, OptimizerFacts DEF OptimizerInv, OptimizerPage

\* Another preset: the images are done once more, in a queue of their own.
LEMMA ChangePresetKeeps ==
  ASSUME OptimizerInv, NEW p \in Presets, ChangePreset(p)
  PROVE  OptimizerInv'
<1>1. preset' = p /\ UNCHANGED <<bubbling, mounted>>
  BY DEF ChangePreset
<1>2. CASE items = <<>>
  <2>1. UNCHANGED <<items, processing, queues, urls, seqs, service>>
    BY <1>2 DEF ChangePreset
  <2> QED BY <1>1, <2>1 DEF OptimizerInv, OptimizerPage
<1>3. CASE items # <<>>
  <2> DEFINE list == [n \in 1..Len(items) |-> [Fresh(items[n].id) EXCEPT !.made = items[n].made]]
             ids == [n \in 1..Len(items) |-> items[n].id]
  <2>1. DOMAIN items = 1..Len(items) /\ Len(items) \in Nat /\ Len(items) # 0
    BY <1>3, OptimizerFacts
  <2>2. RunQueue(list, ids, p) /\ urls' = urls \ {items[n].url : n \in DOMAIN items} /\ seqs' = [seqs EXCEPT !.queue = @ + 1]
    BY <1>3, <2>1 DEF ChangePreset
  <2>3. /\ ids \in Seq(Images) /\ ids # <<>> /\ \A n \in 1..Len(items) : items[n].id \in ToSet(ids)
    <3>1. \A n \in 1..Len(items) : items[n].id \in Images
      BY OptimizerFacts
    <3>2. ids \in Seq(Images) /\ DOMAIN ids = 1..Len(items) /\ Len(ids) = Len(items)
      BY <2>1, <3>1
    <3> QED BY <2>1, <3>2 DEF ToSet
  <2>4. \A n \in 1..Len(items) : /\ list[n].id = items[n].id /\ list[n].url = NoUrl /\ list[n].status = "pending"
                                 /\ list[n] \in Records
    <3>1. \A n \in 1..Len(items) : items[n] \in Records
      BY OptimizerFacts
    <3> QED BY <3>1, OptimizerFacts DEF Fresh, Records, Statuses
  <2>5. list \in Seq(Records) /\ DOMAIN list = 1..Len(items) /\ Len(list) = Len(items)
    BY <2>1, <2>4
  <2> HIDE DEF list, ids
  <2>6. \A n \in 1..Len(items) : ItemOK(list[n], urls', seqs.image)
    <3> SUFFICES ASSUME NEW n \in 1..Len(items) PROVE ItemOK(list[n], urls', seqs.image)
      OBVIOUS
    <3>1. n \in DOMAIN items /\ ItemOK(items[n], urls, seqs.image)
      BY <2>1, OptimizerFacts
    <3>2. Preview(items[n].id) \in urls'
      BY <2>2, <3>1, UrlsApart DEF ItemOK
    <3> QED BY <2>4, <3>1, <3>2 DEF ItemOK
  <2>7. ListOK(list, urls', seqs.image)
    <3>1. \A n, m \in 1..Len(items) : items[n].id = items[m].id => n = m
      BY <2>1, OptimizerFacts DEF ListOK
    <3> QED BY <2>4, <2>5, <2>6, <3>1 DEF ListOK
  <2>8. \A n \in DOMAIN list : Waits(list[n]) =>
            list[n].id \in ToSet(ids) \/ \E q \in Queues : list[n].id \in ToSet(queues[q].todo)
    BY <2>3, <2>4, <2>5
  <2>9. /\ ServiceOK(service') /\ JobsThere(queues', service') /\ QueuesOK(queues', seqs.queue + 1)
        /\ Queued(items', queues') /\ ListOK(items', urls', seqs.image) /\ Len(items') = Len(list) /\ processing' = TRUE
    <3>1. RunQueue(list, ids, p) /\ ids \in Seq(Images) /\ ids # <<>>
      BY <2>2, <2>3
    <3>2. ServiceOK(service) /\ JobsThere(queues, service) /\ QueuesOK(queues, seqs.queue) /\ seqs.queue \in Nat
      BY OptimizerFacts
    <3> QED BY <2>7, <2>8, <3>1, <3>2, RunQueueKeeps
  <2>10. seqs' \in [image : Images \cup {0}, queue : Queues \cup {0}] /\ seqs'.image = seqs.image /\ seqs'.queue = seqs.queue + 1
    <3>1. seqs.queue + 1 \in Queues
      BY <2>2 DEF RunQueue
    <3> QED BY <2>2, <3>1, OptimizerFacts
  <2>11. urls' \subseteq Urls
    BY <2>2, OptimizerFacts
  <2> QED BY <1>1, <2>5, <2>9, <2>10, <2>11, OptimizerFacts DEF OptimizerInv, OptimizerPage
<1> QED BY <1>2, <1>3

\* An empty list.
LEMMA NoListOK == ASSUME NEW us, NEW top PROVE ListOK(<<>>, us, top) /\ Len(<<>>) = 0 /\ \A qs : Queued(<<>>, qs)
<1>1. <<>> \in Seq(Records) /\ DOMAIN <<>> = {} /\ Len(<<>>) = 0 /\ DOMAIN <<>> = 1..0
  OBVIOUS
<1> QED BY <1>1 DEF ListOK, Queued

\* An image is removed from the list.
LEMMA RemoveItemKeeps ==
  ASSUME OptimizerInv, NEW n \in DOMAIN items, RemoveItem(n)
  PROVE  OptimizerInv'
<1> DEFINE P == {m \in DOMAIN items : items[m].id # items[n].id}
<1>1. /\ items' = Filtered(items, P) /\ urls' = urls \ {Preview(items[n].id), items[n].url}
      /\ UNCHANGED <<preset, processing, queues, seqs, bubbling, mounted, service>>
  BY DEF RemoveItem
<1>2. P \in SUBSET DOMAIN items /\ \A m \in P : m \in DOMAIN items /\ m \in Int /\ items[m].id # items[n].id
  BY OptimizerFacts
<1> HIDE DEF P
<1>3. /\ items' \in Seq(Records)
      /\ \E at \in [DOMAIN items' -> P] :
           /\ \A k \in DOMAIN items' : items'[k] = items[at[k]]
           /\ \A j, k \in DOMAIN items' : j < k => at[j] < at[k]
  <2>1. items \in Seq(Records)
    BY OptimizerFacts
  <2> QED BY <1>1, <1>2, <2>1, FilteredIs
<1>4. Len(items') <= Len(items) /\ Len(items') \in Nat /\ DOMAIN items' = 1..Len(items')
  <2>1. items \in Seq(Records)
    BY OptimizerFacts
  <2> QED BY <1>1, <1>2, <1>3, <2>1, FilteredEntries
<1>5. PICK at \in [DOMAIN items' -> P] :
           /\ \A k \in DOMAIN items' : items'[k] = items[at[k]]
           /\ \A j, k \in DOMAIN items' : j < k => at[j] < at[k]
  BY <1>3
<1>6. \A k \in DOMAIN items' : at[k] \in P
  OBVIOUS
<1>7. \A k \in DOMAIN items' : ItemOK(items'[k], urls', seqs.image)
  <2> SUFFICES ASSUME NEW k \in DOMAIN items' PROVE ItemOK(items'[k], urls', seqs.image)
    OBVIOUS
  <2>1. PICK m \in DOMAIN items : items'[k] = items[m] /\ items[m].id # items[n].id
    BY <1>2, <1>5, <1>6
  <2>2. ItemOK(items[m], urls, seqs.image)
    BY OptimizerFacts
  <2>3. Preview(items[m].id) \in urls' /\ (items[m].url # NoUrl => items[m].url \in urls')
    BY <1>1, <2>1, <2>2, UrlsApart DEF ItemOK
  <2> QED BY <2>1, <2>2, <2>3 DEF ItemOK
<1>8. \A j, k \in DOMAIN items' : items'[j].id = items'[k].id => j = k
  <2> SUFFICES ASSUME NEW j \in DOMAIN items', NEW k \in DOMAIN items', items'[j].id = items'[k].id PROVE j = k
    OBVIOUS
  <2>1. at[j] = at[k]
    <3>1. \A a, b \in DOMAIN items : items[a].id = items[b].id => a = b
      BY OptimizerFacts DEF ListOK
    <3> QED BY <1>2, <1>5, <1>6, <3>1
  <2>2. at[j] \in Int /\ at[k] \in Int /\ j \in Int /\ k \in Int
    BY <1>2, <1>4, <1>6
  <2> QED BY <1>5, <2>1, <2>2
<1>9. ListOK(items', urls', seqs.image)
  BY <1>3, <1>4, <1>7, <1>8 DEF ListOK
<1>10. Queued(items', queues)
  <2> SUFFICES ASSUME NEW k \in DOMAIN items', Waits(items'[k])
               PROVE  \E q \in Queues : items'[k].id \in ToSet(queues[q].todo)
    BY DEF Queued
  <2>1. PICK m \in DOMAIN items : items'[k] = items[m]
    BY <1>2, <1>5, <1>6
  <2> QED BY <2>1, OptimizerFacts DEF Queued
<1>11. urls' \subseteq Urls /\ Len(items') <= MaxFiles
  BY <1>1, <1>4, OptimizerFacts, OptimizerSets
<1> QED BY <1>1, <1>9, <1>10, <1>11, OptimizerFacts DEF OptimizerInv, OptimizerPage

\* The list is cleared, or the page is left.
LEMMA EmptiedKeeps ==
  ASSUME OptimizerInv, items' = <<>>, urls' \subseteq urls, mounted' \in BOOLEAN, processing' \in BOOLEAN,
         UNCHANGED <<preset, queues, seqs, bubbling, service>>
  PROVE  OptimizerInv'
<1>1. ListOK(items', urls', seqs.image) /\ Len(items') = 0 /\ Queued(items', queues)
  BY NoListOK
<1>2. Len(items') <= MaxFiles /\ urls' \subseteq Urls
  BY <1>1, OptimizerSets, OptimizerFacts
<1> QED BY <1>1, <1>2, OptimizerFacts DEF OptimizerInv, OptimizerPage

\* The invariant of the page that optimises.
LEMMA OptimizerInvStep == OptimizerInv /\ [OptimizerNext]_optimizerVars => OptimizerInv'
<1> SUFFICES ASSUME OptimizerInv, [OptimizerNext]_optimizerVars PROVE OptimizerInv'
  OBVIOUS
<1>1. ASSUME NEW n \in 1..MaxFiles, ChooseFiles(n) \/ DropOnZone(n) PROVE OptimizerInv'
  <2>1. n \in Nat /\ n \in 0..MaxFiles
    BY OptimizerSets
  <2>2. AddFiles(n) /\ bubbling' \in {bubbling, n}
    BY <1>1 DEF ChooseFiles, DropOnZone
  <2>3. bubbling' \in 0..MaxFiles
    BY <2>1, <2>2, OptimizerFacts
  <2> QED BY <2>1, <2>2, <2>3, AddFilesKeeps
<1>2. CASE DropBubbles
  <2>1. bubbling \in Nat /\ bubbling' = 0 /\ 0 \in 0..MaxFiles
    <3>1. MaxFiles \in Nat /\ bubbling \in 0..MaxFiles
      BY OptimizerFacts, OptimizerSets
    <3> QED BY <1>2, <3>1 DEF DropBubbles
  <2>2. CASE AddFiles(bubbling)
    BY <2>1, <2>2, AddFilesKeeps
  <2>3. CASE UNCHANGED <<items, preset, processing, queues, urls, seqs, mounted, service>>
    BY <2>1, <2>3 DEF OptimizerInv, OptimizerPage
  <2> QED BY <1>2, <2>2, <2>3 DEF DropBubbles
<1>3. ASSUME NEW q \in Queues, QueueContinues(q) PROVE OptimizerInv'
  BY <1>3, OptimizedKeeps, NotOptimizedKeeps DEF QueueContinues
<1>4. ASSUME NEW p \in Presets, ChangePreset(p) PROVE OptimizerInv'
  BY <1>4, ChangePresetKeeps
<1>5. ASSUME NEW n \in DOMAIN items, RemoveItem(n) PROVE OptimizerInv'
  BY <1>5, RemoveItemKeeps
<1>6. CASE ClearAll
  BY <1>6, EmptiedKeeps, OptimizerFacts DEF ClearAll
<1>7. CASE Unmount
  BY <1>7, EmptiedKeeps DEF Unmount
<1>8. CASE (WorkerFails \/ IdleTimeout) /\ UNCHANGED pageVars
  <2>1. ServiceOK(service') /\ \A k \in Jobs : Awaits(service, k) => Awaits(service', k)
    BY <1>8, WorkerKeeps, OptimizerFacts
  <2>2. JobsThere(queues, service')
    BY <2>1, OptimizerSets, OptimizerFacts DEF JobsThere
  <2> QED BY <1>8, <2>1, <2>2 DEF OptimizerInv, OptimizerPage, pageVars
<1>9. CASE UNCHANGED optimizerVars
  BY <1>9 DEF optimizerVars, pageVars, OptimizerInv, OptimizerPage
<1> QED BY <1>1, <1>2, <1>3, <1>4, <1>5, <1>6, <1>7, <1>8, <1>9 DEF OptimizerNext

\* It holds at first.
LEMMA OptimizerInvInit == OptimizerInit => OptimizerInv
<1> SUFFICES ASSUME OptimizerInit PROVE OptimizerInv
  OBVIOUS
<1>1. ServiceOK(service)
  <2>1. <<>> \in Seq(Jobs) /\ ToSet(<<>>) = {}
    BY DEF ToSet
  <2> QED BY <2>1 DEF OptimizerInit, ServiceInit, ServiceOK, Services
<1>2. queues = [q \in Queues |-> [todo |-> <<>>, preset |-> FirstPreset]]
  BY DEF OptimizerInit
<1>3. \A q \in Queues : queues[q].todo = <<>>
  BY <1>2
<1>4. QueuesOK(queues, 0) /\ JobsThere(queues, service)
  <2>1. [todo |-> <<>>, preset |-> FirstPreset] \in [todo : Seq(Images), preset : Presets]
    BY OptimizerSets
  <2>2. queues \in [Queues -> [todo : Seq(Images), preset : Presets]]
    BY <1>2, <2>1
  <2> QED BY <1>3, <2>2 DEF QueuesOK, JobsThere
<1>5. items = <<>> /\ Len(items) = 0 /\ ListOK(items, urls, 0) /\ Queued(items, queues) /\ Len(items) <= MaxFiles
  BY NoListOK, OptimizerSets DEF OptimizerInit
<1>6. seqs = [image |-> 0, queue |-> 0] /\ seqs \in [image : Images \cup {0}, queue : Queues \cup {0}]
  BY DEF OptimizerInit
<1>7. bubbling \in 0..MaxFiles /\ urls \subseteq Urls /\ preset \in Presets /\ processing \in BOOLEAN /\ mounted \in BOOLEAN
  <2>1. bubbling = 0 /\ urls = {} /\ preset = FirstPreset /\ processing = FALSE /\ mounted = TRUE
    BY DEF OptimizerInit
  <2>2. MaxFiles \in Nat /\ FirstPreset \in Presets
    BY OptimizerSets
  <2>3. 0 \in 0..MaxFiles
    BY <2>2
  <2>4. processing \in BOOLEAN /\ mounted \in BOOLEAN
    BY <2>1
  <2> QED BY <2>1, <2>2, <2>3, <2>4
<1>8. seqs.image = 0 /\ seqs.queue = 0
  BY <1>6
<1> QED BY <1>1, <1>4, <1>5, <1>6, <1>7, <1>8 DEF OptimizerInv, OptimizerPage
\* What the invariant promises of the service and of the list of images.
LEMMA OptimizerPromises ==
  ASSUME OptimizerInv
  PROVE  OptimizerTypeOK /\ NoJobLost /\ ShownUrlsAreLive /\ UnfinishedIsQueued
<1>1. OptimizerTypeOK
  <2>1. service \in Services
    BY DEF OptimizerInv, ServiceOK
  <2>2. queues \in [Queues -> [todo : Seq(Images), preset : Presets]]
    BY DEF OptimizerInv, OptimizerPage, QueuesOK
  <2> QED BY <2>1, <2>2, OptimizerFacts DEF OptimizerTypeOK
<1>2. NoJobLost
  <2>1. service.pending \in Seq(Jobs)
    BY DEF OptimizerInv, ServiceOK, Services
  <2>2. \A i \in 1..Len(service.pending) : service.pending[i] \in ToSet(service.pending)
    BY <2>1 DEF ToSet
  <2> QED BY <2>2 DEF OptimizerInv, ServiceOK, NoJobLost
<1>3. ShownUrlsAreLive
  <2>1. \A n \in DOMAIN items : ItemOK(items[n], urls, seqs.image)
    BY OptimizerFacts
  <2> QED BY <2>1 DEF ShownUrlsAreLive, ItemOK
<1>4. UnfinishedIsQueued
  <2>1. \A n \in DOMAIN items : items[n].status \in {"pending", "processing"} =>
          \E q \in Running : items[n].id \in ToSet(queues[q].todo)
    <3> SUFFICES ASSUME NEW n \in DOMAIN items, Waits(items[n])
                 PROVE  \E q \in Running : items[n].id \in ToSet(queues[q].todo)
      BY DEF Waits
    <3>1. PICK q \in Queues : items[n].id \in ToSet(queues[q].todo)
      BY OptimizerFacts DEF Queued
    <3>2. queues[q].todo # <<>>
      BY <3>1 DEF ToSet
    <3> QED BY <3>1, <3>2 DEF Running
  <2>2. {Job(q) : q \in Running} \subseteq ToSet(service.pending) \cup ToSet(service.rejected)
    BY OptimizerFacts DEF Running, JobsThere, Awaits
  <2> QED BY <2>1, <2>2 DEF UnfinishedIsQueued
<1> QED BY <1>1, <1>2, <1>3, <1>4

-----------------------------------------------------------------------------
(* The files of a tenant form.                                                *)

\* A selection: the files below the cursor are awaited or stored at their places.
Selected ==
  [kinds : Seq(Kinds), cursor : Nat \ {0}, awaited : SUBSET Positions, slots : Seq(0..MaxSelected), open : BOOLEAN]
SelOK(sel) ==
  /\ sel \in Selected
  /\ Len(sel.kinds) <= MaxSelected /\ sel.cursor <= Len(sel.kinds) + 1
  /\ \A i \in sel.awaited : i < sel.cursor
  /\ Len(sel.slots) = Len(sel.kinds)
  /\ \A i \in DOMAIN sel.slots : sel.slots[i] = IF i < sel.cursor /\ i \notin sel.awaited THEN i ELSE 0
  /\ Cardinality(sel.awaited) <= MaxParallel

\* Selections are used in their order; one that is open keeps the form waiting.
SelectionsOK(sels, busy) ==
  /\ sels \in [Selections -> Selected]
  /\ \A b \in Selections : SelOK(sels[b]) /\ (sels[b].kinds # <<>> \/ sels[b] = Unused)
  /\ \E k \in 0..MaxSelections : \A b \in Selections : sels[b].kinds # <<>> <=> b <= k
  /\ \A b \in Selections : sels[b].open => busy /\ ~Complete(sels[b])

\* The form has the files of the selections that are complete, each selection's
\* in the order of choice.
Gathered(sels) == {x \in Selections \X Positions : ~sels[x[1]].open /\ x[2] <= Len(sels[x[1]].kinds)}
Entries(b, n) == {<<b, i>> : i \in 1..n}
InTurn(fs) ==
  /\ \A m, n \in DOMAIN fs : fs[m] = fs[n] => m = n
  /\ \A m, n \in DOMAIN fs : fs[m][1] = fs[n][1] /\ m < n => fs[m][2] < fs[n][2]
FilesOK(sels, fs, out) ==
  /\ fs \in Seq(Selections \X Positions) /\ InTurn(fs)
  /\ ToSet(fs) = Gathered(sels) \ out /\ out \subseteq Gathered(sels)

Replaced(sels, b, sel) == [sels EXCEPT ![b] = sel]
Block(b, n) == [i \in 1..n |-> <<b, i>>]
Joined(fs, b, n) == fs \o Block(b, n)

UploadInv ==
  /\ SelectionsOK(selections, optimizing) /\ FilesOK(selections, files, removed)
  /\ optimizing \in BOOLEAN /\ form \in {"open", "sending", "closed"}

\* The bounds and the jobs of the form that uploads.
LEMMA UploadSets ==
  /\ MaxSelections \in Nat /\ MaxSelected \in Nat /\ MaxChosen \in Nat /\ MaxParallel \in Nat /\ MaxParallel >= 1
  /\ \A b \in Selections : b \in Nat /\ b >= 1 /\ b <= MaxSelections
  /\ \A i \in Positions : i \in Nat /\ i >= 1 /\ i <= MaxSelected
  /\ \A b \in Selections, i \in Positions : <<b, i>> \in Jobs
BY UploadAssumption DEF Selections, Positions

\* A selection that was not made yet.
LEMMA UnusedOK == SelOK(Unused) /\ Unused \in Selected /\ Unused.kinds = <<>> /\ Unused.open = FALSE
<1>1. Cardinality({}) = 0
  BY FS_EmptySet
<1>2. <<>> \in Seq(Kinds) /\ <<>> \in Seq(0..MaxSelected) /\ Len(<<>>) = 0 /\ DOMAIN <<>> = {}
  OBVIOUS
<1>3. /\ Unused.kinds = <<>> /\ Unused.cursor = 1 /\ Unused.awaited = {} /\ Unused.slots = <<>> /\ Unused.open = FALSE
      /\ Unused \in Selected
  BY <1>2 DEF Unused, Selected
<1> QED BY <1>1, <1>2, <1>3, UploadSets DEF SelOK

\* What the runners take, of the large files from the cursor on: all of them if
\* there are few, or as many as runners are free.
LEMMA TakenIs ==
  ASSUME NEW sel, SelOK(sel), Cardinality(sel.awaited) < MaxParallel
  PROVE  /\ Large(sel) \subseteq sel.cursor..Len(sel.kinds) /\ IsFiniteSet(Large(sel)) /\ Cardinality(Large(sel)) \in Nat
         /\ Taken(sel) \subseteq Large(sel) /\ IsFiniteSet(Taken(sel)) /\ Cardinality(Taken(sel)) <= Free(sel)
         /\ Cardinality(Taken(sel)) \in Nat
         /\ Cardinality(Large(sel)) < Free(sel) => Taken(sel) = Large(sel)
         /\ Cardinality(Large(sel)) >= Free(sel) => Taken(sel) # {}
         /\ \A i \in Taken(sel), k \in Large(sel) : k <= i => k \in Taken(sel)
         /\ Cardinality(sel.awaited) \in Nat /\ IsFiniteSet(sel.awaited) /\ Free(sel) \in Nat /\ Free(sel) >= 1
<1> DEFINE L == Large(sel)
           Below(i) == {k \in L : k < i}
<1>1. /\ sel.cursor \in Nat /\ sel.cursor >= 1 /\ sel.kinds \in Seq(Kinds) /\ Len(sel.kinds) \in Nat
      /\ sel.awaited \subseteq Positions
  BY DEF SelOK, Selected
<1>2. IsFiniteSet(sel.awaited) /\ Cardinality(sel.awaited) \in Nat
  <2>1. IsFiniteSet(Positions)
    BY UpToN, UploadSets DEF Positions
  <2> QED BY <1>1, <2>1, FS_Subset, FS_CardinalityType
<1>3. Free(sel) \in Nat /\ Free(sel) >= 1
  BY <1>2, UploadSets DEF Free
<1>4. L \subseteq sel.cursor..Len(sel.kinds) /\ L \subseteq 1..Len(sel.kinds) /\ \A i \in L : i \in Nat
  BY <1>1 DEF Large, Length
<1>5. IsFiniteSet(L) /\ Cardinality(L) \in Nat
  <2>1. IsFiniteSet(1..Len(sel.kinds))
    BY <1>1, UpToN
  <2> QED BY <1>4, <2>1, FS_Subset, FS_CardinalityType
<1>6. Taken(sel) = {i \in L : Cardinality(Below(i)) < Free(sel)}
  BY DEF Taken
<1> HIDE DEF L
<1>7. \A i : IsFiniteSet(Below(i)) /\ Cardinality(Below(i)) \in Nat /\ Cardinality(Below(i)) <= Cardinality(L)
  <2> SUFFICES ASSUME NEW i PROVE IsFiniteSet(Below(i)) /\ Cardinality(Below(i)) \in Nat /\ Cardinality(Below(i)) <= Cardinality(L)
    OBVIOUS
  <2>1. Below(i) \in SUBSET L
    OBVIOUS
  <2> HIDE DEF Below
  <2> QED BY <1>5, <2>1, FS_Subset, FS_CardinalityType
<1>8. \A i, j \in L : i < j => Cardinality(Below(i)) < Cardinality(Below(j))
  <2> SUFFICES ASSUME NEW i \in L, NEW j \in L, i < j PROVE Cardinality(Below(i)) < Cardinality(Below(j))
    OBVIOUS
  <2>1. Below(i) \in SUBSET Below(j) /\ i \in Below(j) /\ i \notin Below(i)
    <3>1. i \in Nat /\ j \in Nat /\ \A k \in L : k \in Nat
      BY <1>4
    <3>2. \A k \in L : k < i => k < j
      BY <3>1
    <3>3. ~(i < i)
      BY <3>1
    <3> QED BY <3>2, <3>3
  <2> HIDE DEF Below
  <2>2. Cardinality(Below(i)) <= Cardinality(Below(j)) /\ (Cardinality(Below(i)) = Cardinality(Below(j)) => FALSE)
    BY <1>7, <2>1, FS_Subset
  <2> QED BY <1>7, <2>2
<1>9. \A i \in Taken(sel), k \in L : k <= i => k \in Taken(sel)
  <2> SUFFICES ASSUME NEW i \in Taken(sel), NEW k \in L, k <= i PROVE k \in Taken(sel)
    OBVIOUS
  <2> HIDE DEF Below
  <2>1. i \in L /\ Cardinality(Below(i)) < Free(sel) /\ i \in Nat /\ k \in Nat
    BY <1>4, <1>6
  <2>2. Cardinality(Below(k)) <= Cardinality(Below(i))
    BY <1>7, <1>8, <2>1
  <2> QED BY <1>3, <1>6, <1>7, <2>1, <2>2
<1>10. Cardinality(L) < Free(sel) => Taken(sel) = L
  <2> HIDE DEF Below
  <2> QED BY <1>3, <1>5, <1>6, <1>7
<1>11. Cardinality(L) >= Free(sel) => Taken(sel) # {}
  <2> SUFFICES ASSUME Cardinality(L) >= Free(sel) PROVE Taken(sel) # {}
    OBVIOUS
  <2>1. L # {}
    BY <1>3, FS_EmptySet
  <2>2. PICK i \in L : \A k \in L : i <= k
    BY <1>4, <2>1, LeastNumber
  <2>3. Below(i) = {}
    <3>1. \A k \in L : k \in Nat /\ i \in Nat
      BY <1>4
    <3>2. \A k \in L : ~(k < i)
      BY <2>2, <3>1
    <3> QED BY <3>2
  <2> HIDE DEF Below
  <2>4. Cardinality(Below(i)) = 0
    BY <2>3, FS_EmptySet
  <2> QED BY <1>3, <1>6, <2>4
<1>12. Taken(sel) \subseteq L
  BY <1>6
<1>13. IsFiniteSet(Taken(sel)) /\ Cardinality(Taken(sel)) \in Nat
  BY <1>5, <1>12, FS_Subset, FS_CardinalityType
<1>14. Cardinality(Taken(sel)) <= Free(sel)
  <2> DEFINE rank == [i \in Taken(sel) |-> Cardinality(Below(i)) + 1]
  <2>1. \A i \in Taken(sel) : i \in L /\ i \in Nat /\ Cardinality(Below(i)) \in Nat /\ Cardinality(Below(i)) < Free(sel)
    <3> HIDE DEF Below
    <3> QED BY <1>4, <1>6, <1>7
  <2> HIDE DEF Below
  <2>2. rank \in [Taken(sel) -> 1..Free(sel)]
    BY <1>3, <2>1
  <2>3. \A i, j \in Taken(sel) : rank[i] = rank[j] => i = j
    <3> SUFFICES ASSUME NEW i \in Taken(sel), NEW j \in Taken(sel), i # j PROVE rank[i] # rank[j]
      OBVIOUS
    <3>1. CASE i < j
      BY <1>8, <2>1, <3>1
    <3>2. CASE j < i
      BY <1>8, <2>1, <3>2
    <3> QED BY <2>1, <3>1, <3>2
  <2>4. rank \in Injection(Taken(sel), 1..Free(sel))
    BY <2>2, <2>3 DEF Injection, IsInjective
  <2>5. IsFiniteSet(1..Free(sel)) /\ Cardinality(1..Free(sel)) = Free(sel)
    BY <1>3, UpToN
  <2> HIDE DEF rank
  <2> QED BY <2>4, <2>5, FS_Injection
<1> QED BY <1>2, <1>3, <1>4, <1>5, <1>9, <1>10, <1>11, <1>12, <1>13, <1>14 DEF L
\* The runners go on to the next files, and leave none behind.
LEMMA AdvanceKeeps ==
  ASSUME NEW sel, SelOK(sel), Cardinality(sel.awaited) < MaxParallel
  PROVE  /\ SelOK(Advance(sel)) /\ Advance(sel).kinds = sel.kinds /\ Advance(sel).open = sel.open
         /\ Advance(sel).awaited \subseteq Positions /\ sel.awaited \subseteq Advance(sel).awaited
<1> DEFINE next == IF Cardinality(Large(sel)) < Free(sel) THEN Length(sel) + 1 ELSE Max(Taken(sel)) + 1
           slots == [i \in DOMAIN sel.slots |->
                       IF i \in sel.cursor..(next - 1) /\ sel.kinds[i] = "small" THEN i ELSE sel.slots[i]]
           new == Advance(sel)
<1>1. /\ sel \in Selected /\ sel.cursor \in Nat /\ sel.cursor >= 1 /\ sel.kinds \in Seq(Kinds) /\ Len(sel.kinds) \in Nat
      /\ sel.awaited \subseteq Positions /\ sel.slots \in Seq(0..MaxSelected) /\ sel.open \in BOOLEAN
      /\ Len(sel.slots) = Len(sel.kinds) /\ DOMAIN sel.slots = 1..Len(sel.kinds) /\ DOMAIN sel.kinds = 1..Len(sel.kinds)
      /\ Len(sel.kinds) <= MaxSelected /\ sel.cursor <= Len(sel.kinds) + 1
  BY DEF SelOK, Selected
<1>2. /\ \A i \in sel.awaited : i < sel.cursor /\ i \in Nat
      /\ \A i \in 1..Len(sel.kinds) : sel.slots[i] = IF i < sel.cursor /\ i \notin sel.awaited THEN i ELSE 0
  BY <1>1, UploadSets DEF SelOK
<1>3. /\ Large(sel) \subseteq sel.cursor..Len(sel.kinds)
      /\ Taken(sel) \subseteq Large(sel) /\ IsFiniteSet(Taken(sel)) /\ Cardinality(Taken(sel)) <= Free(sel)
      /\ Cardinality(Taken(sel)) \in Nat /\ Cardinality(Large(sel)) \in Nat /\ Free(sel) \in Nat
      /\ Cardinality(Large(sel)) < Free(sel) => Taken(sel) = Large(sel)
      /\ Cardinality(Large(sel)) >= Free(sel) => Taken(sel) # {}
      /\ \A i \in Taken(sel), k \in Large(sel) : k <= i => k \in Taken(sel)
      /\ Cardinality(sel.awaited) \in Nat /\ IsFiniteSet(sel.awaited)
  BY TakenIs
<1>4. /\ new.kinds = sel.kinds /\ new.open = sel.open /\ new.cursor = next /\ new.awaited = sel.awaited \cup Taken(sel)
      /\ new.slots = slots /\ new = [sel EXCEPT !.cursor = next, !.awaited = sel.awaited \cup Taken(sel), !.slots = slots]
  BY <1>1 DEF Advance, Selected
<1>5. /\ next \in Nat /\ next >= sel.cursor /\ next <= Len(sel.kinds) + 1
      /\ \A i \in Taken(sel) : i < next /\ i >= sel.cursor /\ i \in 1..Len(sel.kinds) /\ i \in Positions
      /\ \A i \in Large(sel) : i < next => i \in Taken(sel)
  <2>1. \A i \in Large(sel) : i \in Nat /\ i >= sel.cursor /\ i <= Len(sel.kinds) /\ i \in 1..Len(sel.kinds) /\ i \in Positions
    BY <1>1, <1>3, UploadSets DEF Positions
  <2>2. CASE Cardinality(Large(sel)) < Free(sel)
    <3>1. next = Len(sel.kinds) + 1 /\ Taken(sel) = Large(sel)
      BY <1>3, <2>2 DEF Length
    <3> HIDE DEF next
    <3> QED BY <1>1, <2>1, <3>1
  <2>3. CASE ~(Cardinality(Large(sel)) < Free(sel))
    <3>1. Taken(sel) # {}
      BY <1>3, <2>3
    <3>2. \E m \in Taken(sel) : \A j \in Taken(sel) : j <= m
      <4>1. Taken(sel) \subseteq 1..Len(sel.kinds)
        BY <1>3, <2>1
      <4> QED BY <1>1, <3>1, <4>1, GreatestNumber
    <3>3. \E m \in Taken(sel) : \A j \in Taken(sel) : m >= j
      BY <1>3, <2>1, <3>2
    <3>4. Max(Taken(sel)) \in Taken(sel) /\ \A j \in Taken(sel) : Max(Taken(sel)) >= j
      BY <3>3 DEF Max
    <3>5. next = Max(Taken(sel)) + 1
      BY <2>3
    <3> DEFINE m == Max(Taken(sel))
    <3> HIDE DEF m, next
    <3>6. m \in Taken(sel) /\ m \in Large(sel) /\ m \in Nat /\ next = m + 1 /\ \A j \in Taken(sel) : m >= j
      BY <1>3, <2>1, <3>4, <3>5 DEF m
    <3>7. next \in Nat /\ next >= sel.cursor /\ next <= Len(sel.kinds) + 1
      BY <1>1, <2>1, <3>6
    <3>8. \A i \in Taken(sel) : i < next /\ i >= sel.cursor /\ i \in 1..Len(sel.kinds) /\ i \in Positions
      BY <1>3, <2>1, <3>6
    <3>9. \A i \in Large(sel) : i < next => i \in Taken(sel)
      <4>1. \A i \in Large(sel) : i < next => i <= m
        BY <2>1, <3>6
      <4> QED BY <1>3, <3>6, <4>1
    <3> QED BY <3>7, <3>8, <3>9
  <2> QED BY <2>2, <2>3
<1> HIDE DEF next
<1>6. \A i \in 1..Len(sel.kinds) : i >= sel.cursor => (sel.kinds[i] = "small" <=> i \notin Large(sel))
  <2> SUFFICES ASSUME NEW i \in 1..Len(sel.kinds), i >= sel.cursor PROVE sel.kinds[i] = "small" <=> i \notin Large(sel)
    OBVIOUS
  <2>1. sel.kinds[i] \in Kinds /\ i \in sel.cursor..Len(sel.kinds)
    BY <1>1
  <2> QED BY <2>1 DEF Large, Length, Kinds
<1>7. \A i \in 1..Len(sel.kinds) : slots[i] = IF i < next /\ i \notin new.awaited THEN i ELSE 0
  <2> SUFFICES ASSUME NEW i \in 1..Len(sel.kinds) PROVE slots[i] = IF i < next /\ i \notin new.awaited THEN i ELSE 0
    OBVIOUS
  <2>1. slots[i] = IF i \in sel.cursor..(next - 1) /\ sel.kinds[i] = "small" THEN i ELSE sel.slots[i]
    BY <1>1
  <2> HIDE DEF slots
  <2>2. CASE i < sel.cursor
    <3>1. i \notin sel.cursor..(next - 1) /\ i < next
      BY <1>1, <1>5, <2>2
    <3>2. i \in new.awaited <=> i \in sel.awaited
      BY <1>1, <1>4, <1>5, <2>2
    <3> QED BY <1>2, <2>1, <2>2, <3>1, <3>2
  <2>3. CASE i >= sel.cursor /\ i < next
    <3>1. i \in sel.cursor..(next - 1) /\ ~(i < sel.cursor) /\ i \notin sel.awaited
      BY <1>1, <1>2, <1>5, <2>3
    <3>2. i \in Taken(sel) <=> i \in Large(sel)
      BY <1>3, <1>5, <2>3
    <3>3. i \in new.awaited <=> sel.kinds[i] # "small"
      BY <1>4, <1>6, <2>3, <3>1, <3>2
    <3> QED BY <1>2, <2>1, <2>3, <3>1, <3>3
  <2>4. CASE i >= sel.cursor /\ ~(i < next)
    <3>1. i \notin sel.cursor..(next - 1) /\ ~(i < sel.cursor)
      BY <1>1, <1>5, <2>4
    <3> QED BY <1>2, <2>1, <2>4, <3>1
  <2> QED BY <1>1, <2>2, <2>3, <2>4
<1>8. slots \in Seq(0..MaxSelected) /\ DOMAIN slots = 1..Len(sel.kinds) /\ Len(slots) = Len(sel.kinds)
  <2>1. \A i \in 1..Len(sel.kinds) : slots[i] \in 0..MaxSelected
    <3>1. \A i \in 1..Len(sel.kinds) : i \in 0..MaxSelected /\ 0 \in 0..MaxSelected
      BY <1>1, UploadSets
    <3> HIDE DEF slots
    <3> QED BY <1>7, <3>1
  <2>2. slots = [i \in 1..Len(sel.kinds) |-> slots[i]]
    BY <1>1
  <2>3. Len(sel.kinds) \in Nat
    BY <1>1
  <2> HIDE DEF slots
  <2> QED BY <2>1, <2>2, <2>3, ListByIndex
<1> HIDE DEF slots
<1>9. new.awaited \subseteq Positions /\ sel.awaited \subseteq new.awaited /\ \A i \in new.awaited : i < next
  BY <1>1, <1>2, <1>4, <1>5
<1>10. Cardinality(new.awaited) <= MaxParallel
  <2>1. Cardinality(sel.awaited \cup Taken(sel)) <= Cardinality(sel.awaited) + Cardinality(Taken(sel))
    <3>1. sel.awaited \cap Taken(sel) = {}
      BY <1>1, <1>2, <1>5
    <3>2. Cardinality(sel.awaited \cup Taken(sel)) =
            Cardinality(sel.awaited) + Cardinality(Taken(sel)) - Cardinality(sel.awaited \cap Taken(sel))
      BY <1>3, FS_Union
    <3>3. Cardinality(sel.awaited \cap Taken(sel)) = 0
      BY <3>1, FS_EmptySet
    <3> QED BY <1>3, <3>2, <3>3
  <2>2. IsFiniteSet(sel.awaited \cup Taken(sel)) /\ Cardinality(sel.awaited \cup Taken(sel)) \in Nat
    BY <1>3, FS_Union, FS_CardinalityType
  <2>3. Cardinality(Taken(sel)) <= MaxParallel - Cardinality(sel.awaited)
    BY <1>3 DEF Free
  <2> QED BY <1>3, <1>4, <2>1, <2>2, <2>3, UploadSets
<1>11. new \in Selected
  <2>1. next \in Nat \ {0}
    BY <1>1, <1>5
  <2> QED BY <1>1, <1>4, <1>8, <1>9, <2>1 DEF Selected
<1> HIDE DEF new
<1> QED BY <1>1, <1>4, <1>5, <1>7, <1>8, <1>9, <1>10, <1>11 DEF SelOK, new

\* A file that is ready is stored at its place.
LEMMA StoreKeeps ==
  ASSUME NEW sel, SelOK(sel), NEW i \in sel.awaited
  PROVE  /\ SelOK(Store(sel, i)) /\ Cardinality(Store(sel, i).awaited) < MaxParallel
         /\ Store(sel, i).kinds = sel.kinds /\ Store(sel, i).open = sel.open
         /\ Store(sel, i).awaited = sel.awaited \ {i}
<1> DEFINE new == Store(sel, i)
           slots == [sel.slots EXCEPT ![i] = i]
<1>1. /\ sel \in Selected /\ sel.cursor \in Nat /\ sel.kinds \in Seq(Kinds) /\ Len(sel.kinds) \in Nat
      /\ sel.awaited \subseteq Positions /\ sel.slots \in Seq(0..MaxSelected) /\ sel.open \in BOOLEAN
      /\ Len(sel.slots) = Len(sel.kinds) /\ DOMAIN sel.slots = 1..Len(sel.kinds)
      /\ Len(sel.kinds) <= MaxSelected /\ sel.cursor <= Len(sel.kinds) + 1
  BY DEF SelOK, Selected
<1>2. /\ \A k \in sel.awaited : k < sel.cursor
      /\ \A k \in 1..Len(sel.kinds) : sel.slots[k] = IF k < sel.cursor /\ k \notin sel.awaited THEN k ELSE 0
      /\ Cardinality(sel.awaited) <= MaxParallel
  BY <1>1 DEF SelOK
<1>3. i \in Nat /\ i < sel.cursor /\ i \in 1..Len(sel.kinds) /\ i \in 0..MaxSelected
  BY <1>1, <1>2, UploadSets
<1>4. /\ new.kinds = sel.kinds /\ new.open = sel.open /\ new.cursor = sel.cursor /\ new.awaited = sel.awaited \ {i}
      /\ new.slots = slots
      /\ new = [sel EXCEPT !.slots = slots, !.awaited = sel.awaited \ {i}]
  BY <1>1 DEF Store, Selected
<1>5. slots \in Seq(0..MaxSelected) /\ Len(slots) = Len(sel.kinds) /\ DOMAIN slots = 1..Len(sel.kinds)
  BY <1>1, <1>3
<1>6. \A k \in 1..Len(sel.kinds) : slots[k] = IF k < sel.cursor /\ k \notin sel.awaited \ {i} THEN k ELSE 0
  <2> SUFFICES ASSUME NEW k \in 1..Len(sel.kinds)
               PROVE  slots[k] = IF k < sel.cursor /\ k \notin sel.awaited \ {i} THEN k ELSE 0
    OBVIOUS
  <2>1. slots[k] = IF k = i THEN i ELSE sel.slots[k]
    BY <1>1
  <2> HIDE DEF slots
  <2> QED BY <1>2, <1>3, <2>1
<1> HIDE DEF slots
<1>7. Cardinality(sel.awaited \ {i}) < MaxParallel
  <2>1. IsFiniteSet(Positions)
    BY UpToN, UploadSets DEF Positions
  <2>2. IsFiniteSet(sel.awaited)
    BY <1>1, <2>1, FS_Subset
  <2>3. Cardinality(sel.awaited) \in Nat /\ Cardinality(sel.awaited \ {i}) = Cardinality(sel.awaited) - 1
    BY <2>2, FS_RemoveElement, FS_CardinalityType
  <2> QED BY <1>2, <2>3, UploadSets
<1>8. Cardinality(sel.awaited \ {i}) <= MaxParallel
  <2>1. IsFiniteSet(Positions)
    BY UpToN, UploadSets DEF Positions
  <2>2. IsFiniteSet(sel.awaited \ {i}) 
    BY <1>1, <2>1, FS_Subset
  <2>3. Cardinality(sel.awaited \ {i}) \in Nat
    BY <2>2, FS_CardinalityType
  <2> QED BY <1>7, <2>3, UploadSets
<1>9. new \in Selected
  BY <1>1, <1>4, <1>5 DEF Selected
<1> HIDE DEF new
<1> QED BY <1>1, <1>2, <1>4, <1>5, <1>6, <1>7, <1>8, <1>9 DEF SelOK, new

\* A selection at first.
LEMMA FreshSelection ==
  ASSUME NEW n \in Positions, NEW kinds \in [1..n -> Kinds],
         NEW sel, sel = [Unused EXCEPT !.kinds = kinds, !.open = TRUE, !.slots = [i \in DOMAIN kinds |-> 0]]
  PROVE  /\ SelOK(sel) /\ sel.kinds = kinds /\ sel.open = TRUE /\ sel.awaited = {} /\ Cardinality(sel.awaited) < MaxParallel
         /\ kinds # <<>>
<1> DEFINE slots == [i \in DOMAIN kinds |-> 0]
<1>1. n \in Nat /\ n >= 1 /\ n <= MaxSelected /\ 0 \in 0..MaxSelected
  BY UploadSets
<1>2. kinds \in Seq(Kinds) /\ Len(kinds) = n /\ DOMAIN kinds = 1..n
  BY <1>1
<1>3. slots \in Seq(0..MaxSelected) /\ Len(slots) = n /\ DOMAIN slots = 1..n /\ \A i \in 1..n : slots[i] = 0
  <2>1. \A i \in 1..n : slots[i] = 0 /\ slots[i] \in 0..MaxSelected
    BY <1>1, <1>2
  <2>2. slots = [i \in 1..n |-> slots[i]]
    BY <1>2
  <2> HIDE DEF slots
  <2> QED BY <1>1, <2>1, <2>2, ListByIndex
<1>4. /\ sel.kinds = kinds /\ sel.cursor = 1 /\ sel.awaited = {} /\ sel.slots = slots /\ sel.open = TRUE
      /\ sel = [kinds |-> kinds, cursor |-> 1, awaited |-> {}, slots |-> slots, open |-> TRUE]
  BY DEF Unused
<1> HIDE DEF slots
<1>5. sel \in Selected
  <2>1. 1 \in Nat \ {0} /\ {} \in SUBSET Positions /\ TRUE \in BOOLEAN
    OBVIOUS
  <2>2. kinds \in Seq(Kinds) /\ slots \in Seq(0..MaxSelected)
    BY <1>2, <1>3
  <2> QED BY <1>4, <2>1, <2>2 DEF Selected
<1>6. Cardinality(sel.awaited) = 0 /\ 0 < MaxParallel /\ 0 <= MaxParallel
  <2>1. Cardinality({}) = 0
    BY FS_EmptySet
  <2>2. MaxParallel \in Nat /\ MaxParallel >= 1
    BY UploadSets
  <2>3. Cardinality(sel.awaited) = 0
    BY <1>4, <2>1
  <2> QED BY <2>2, <2>3
<1>7. kinds # <<>>
  BY <1>1, <1>2
<1>8. \A i \in 1..n : ~(i < 1)
  BY <1>1
<1>9. SelOK(sel)
  <2>1. /\ Len(sel.kinds) = n /\ sel.cursor = 1 /\ sel.awaited = {} /\ Len(sel.slots) = n /\ DOMAIN sel.slots = 1..n
        /\ \A i \in 1..n : sel.slots[i] = 0 /\ ~(i < 1)
    BY <1>2, <1>3, <1>4, <1>8
  <2>2. Len(sel.kinds) <= MaxSelected /\ sel.cursor <= Len(sel.kinds) + 1
    BY <1>1, <2>1
  <2>3. Cardinality(sel.awaited) <= MaxParallel
    BY <1>6
  <2> QED BY <1>5, <2>1, <2>2, <2>3 DEF SelOK
<1>10. Cardinality(sel.awaited) < MaxParallel
  BY <1>6
<1> QED BY <1>4, <1>7, <1>9, <1>10

\* One list after the other.
LEMMA JoinedEntries ==
  ASSUME NEW V, NEW l \in Seq(V), NEW m \in Seq(V)
  PROVE  /\ Len(l) \in Nat /\ DOMAIN l = 1..Len(l) /\ DOMAIN (l \o m) = 1..(Len(l) + Len(m))
         /\ \A n \in DOMAIN l : (l \o m)[n] = l[n]
         /\ \A n \in 1..Len(m) : (l \o m)[n + Len(l)] = m[n]
OBVIOUS

\* The files of a selection after those of the form, each selection's in order.
LEMMA FilesAppended ==
  ASSUME NEW fs \in Seq(Selections \X Positions), NEW b \in Selections, NEW n \in Nat,
         n <= MaxSelected, InTurn(fs), ~\E x \in ToSet(fs) : x[1] = b
  PROVE  /\ Joined(fs, b, n) \in Seq(Selections \X Positions) /\ InTurn(Joined(fs, b, n))
         /\ ToSet(Joined(fs, b, n)) = ToSet(fs) \cup Entries(b, n)
<1> DEFINE block == Block(b, n)
           new == Joined(fs, b, n)
<1>0. /\ \A m \in DOMAIN fs : fs[m][1] # b
      /\ \A m, k \in DOMAIN fs : fs[m] = fs[k] => m = k
      /\ \A m, k \in DOMAIN fs : fs[m][1] = fs[k][1] /\ m < k => fs[m][2] < fs[k][2]
  BY DEF InTurn, ToSet
<1>1. /\ block \in Seq(Selections \X Positions) /\ Len(block) = n /\ DOMAIN block = 1..n
      /\ \A i \in 1..n : block[i] = <<b, i>> /\ block[i][1] = b /\ block[i][2] = i /\ i \in Nat
  <2>1. \A i \in 1..n : <<b, i>> \in Selections \X Positions
    BY UploadSets DEF Positions
  <2>2. \A i \in 1..n : block[i] = <<b, i>> /\ block[i] \in Selections \X Positions
    BY <2>1 DEF Block
  <2>3. block = [i \in 1..n |-> block[i]]
    BY DEF Block
  <2>4. block \in Seq(Selections \X Positions) /\ Len(block) = n /\ DOMAIN block = 1..n
    BY <2>2, <2>3, ListByIndex
  <2> QED BY <2>2, <2>4
<1> HIDE DEF block, new
<1>2. new \in Seq(Selections \X Positions) /\ ToSet(new) = ToSet(fs) \cup ToSet(block)
  <2>1. block \in Seq(Selections \X Positions)
    BY <1>1
  <2>2. fs \o block \in Seq(Selections \X Positions) /\ ToSet(fs \o block) = ToSet(fs) \cup ToSet(block)
    BY <2>1, ToSetJoined
  <2> QED BY <2>2 DEF block, new, Joined
<1>3. ToSet(block) = Entries(b, n)
  <2>1. DOMAIN block = 1..n /\ \A i \in 1..n : block[i] = <<b, i>>
    BY <1>1
  <2> QED BY <2>1 DEF ToSet, Entries
<1>4. /\ Len(fs) \in Nat /\ DOMAIN fs = 1..Len(fs) /\ DOMAIN new = 1..(Len(fs) + n)
      /\ \A m \in DOMAIN fs : new[m] = fs[m]
      /\ \A i \in 1..n : new[i + Len(fs)] = block[i]
  <2>1. new = fs \o block /\ Len(block) = n /\ block \in Seq(Selections \X Positions)
    BY <1>1 DEF block, new, Joined
  <2> QED BY <2>1, JoinedEntries
<1>5. \A m \in DOMAIN new : m \in Int /\ (m \in DOMAIN fs \/ (m - Len(fs) \in 1..n /\ (m - Len(fs)) + Len(fs) = m /\ m > Len(fs)))
  BY <1>4
<1>6. \A m \in DOMAIN new \ DOMAIN fs : new[m] = <<b, m - Len(fs)>> /\ new[m][1] = b /\ new[m][2] = m - Len(fs)
  <2> SUFFICES ASSUME NEW m \in DOMAIN new, m \notin DOMAIN fs
               PROVE  new[m] = <<b, m - Len(fs)>> /\ new[m][1] = b /\ new[m][2] = m - Len(fs)
    OBVIOUS
  <2> DEFINE i == m - Len(fs)
  <2>1. i \in 1..n /\ i + Len(fs) = m
    BY <1>5
  <2> HIDE DEF i
  <2>2. new[m] = block[i]
    BY <1>0, <1>4, <2>1
  <2>3. new[m] = <<b, i>> /\ new[m][1] = b /\ new[m][2] = i
    BY <1>1, <2>1, <2>2
  <2> QED BY <2>3 DEF i
<1>7. \A m \in DOMAIN fs, k \in DOMAIN new : k \notin DOMAIN fs => new[m][1] # new[k][1]
  BY <1>0, <1>4, <1>6
<1>8. \A m, k \in DOMAIN new : new[m] = new[k] => m = k
  <2> SUFFICES ASSUME NEW m \in DOMAIN new, NEW k \in DOMAIN new, new[m] = new[k] PROVE m = k
    OBVIOUS
  <2>1. CASE m \in DOMAIN fs /\ k \in DOMAIN fs
    BY <1>0, <1>4, <2>1
  <2>2. CASE m \notin DOMAIN fs /\ k \notin DOMAIN fs
    <3>1. m - Len(fs) = k - Len(fs)
      BY <1>6, <2>2
    <3> QED BY <1>4, <1>5, <3>1
  <2> QED BY <1>7, <2>1, <2>2
<1>9. \A m, k \in DOMAIN new : new[m][1] = new[k][1] /\ m < k => new[m][2] < new[k][2]
  <2> SUFFICES ASSUME NEW m \in DOMAIN new, NEW k \in DOMAIN new, new[m][1] = new[k][1], m < k PROVE new[m][2] < new[k][2]
    OBVIOUS
  <2>1. CASE m \in DOMAIN fs /\ k \in DOMAIN fs
    BY <1>0, <1>4, <2>1
  <2>2. CASE m \notin DOMAIN fs /\ k \notin DOMAIN fs
    <3>1. new[m][2] = m - Len(fs) /\ new[k][2] = k - Len(fs)
      BY <1>6, <2>2
    <3> QED BY <1>4, <1>5, <3>1
  <2> QED BY <1>7, <2>1, <2>2
<1> QED BY <1>2, <1>3, <1>8, <1>9 DEF InTurn, new

\* What another selection, or a selection that ends, adds to the files.
LEMMA GatheredIs ==
  ASSUME NEW sels \in [Selections -> Selected], NEW b \in Selections, NEW new \in Selected, NEW ss,
         ~\E x \in Gathered(sels) : x[1] = b, Len(new.kinds) <= MaxSelected, ss = Replaced(sels, b, new)
  PROVE  /\ new.open => Gathered(ss) = Gathered(sels)
         /\ ~new.open => Gathered(ss) = Gathered(sels) \cup Entries(b, Len(new.kinds))
<1>1. \A c \in Selections : ss[c] = IF c = b THEN new ELSE sels[c]
  BY DEF Replaced
<1>2. new.kinds \in Seq(Kinds) /\ Len(new.kinds) \in Nat
  BY DEF Selected
<1>3. \A i \in Positions : i \in Nat /\ i >= 1
  BY UploadSets
<1>4. \A x \in Selections \X Positions : x[1] # b => (x \in Gathered(ss) <=> x \in Gathered(sels))
  BY <1>1 DEF Gathered
<1>5. \A x \in Selections \X Positions : x[1] = b => x \notin Gathered(sels)
  OBVIOUS
<1>6. \A x \in Selections \X Positions : x[1] = b => (x \in Gathered(ss) <=> (~new.open /\ x[2] <= Len(new.kinds)))
  BY <1>1 DEF Gathered
<1>7. \A x \in Selections \X Positions :
        x \in {<<b, i>> : i \in 1..Len(new.kinds)} <=> (x[1] = b /\ x[2] <= Len(new.kinds))
  <2> SUFFICES ASSUME NEW c \in Selections, NEW p \in Positions
               PROVE  <<c, p>> \in {<<b, i>> : i \in 1..Len(new.kinds)} <=> (c = b /\ p <= Len(new.kinds))
    OBVIOUS
  <2>1. p \in 1..Len(new.kinds) <=> p <= Len(new.kinds)
    BY <1>2, <1>3
  <2> QED BY <2>1
<1>8. {<<b, i>> : i \in 1..Len(new.kinds)} \subseteq Selections \X Positions
  <2>1. \A i \in 1..Len(new.kinds) : i \in Positions
    BY <1>2, UploadSets DEF Positions
  <2> QED BY <2>1
<1>9. Gathered(ss) \subseteq Selections \X Positions /\ Gathered(sels) \subseteq Selections \X Positions
  BY DEF Gathered
<1>10. CASE new.open
  <2>1. \A x \in Selections \X Positions : x \in Gathered(ss) <=> x \in Gathered(sels)
    BY <1>4, <1>5, <1>6, <1>10
  <2> QED BY <1>9, <1>10, <2>1
<1>11. CASE ~new.open
  <2> DEFINE more == {<<b, i>> : i \in 1..Len(new.kinds)}
  <2>1. \A x \in Selections \X Positions : x \in more <=> (x[1] = b /\ x[2] <= Len(new.kinds))
    BY <1>7
  <2>2. more \subseteq Selections \X Positions
    BY <1>8
  <2> HIDE DEF more
  <2>3. \A x \in Selections \X Positions : x \in Gathered(ss) <=> (x \in Gathered(sels) \/ x \in more)
    BY <1>4, <1>5, <1>6, <1>11, <2>1
  <2>4. Gathered(ss) = Gathered(sels) \cup more
    BY <1>9, <2>2, <2>3
  <2> QED BY <1>11, <2>4 DEF more, Entries
<1> QED BY <1>10, <1>11

\* A selection that begins or goes on.
Growing(b, sel) ==
  /\ SelOK(sel) /\ sel.open /\ sel.kinds # <<>>
  /\ \/ selections[b].open /\ sel.kinds = selections[b].kinds
     \/ ~optimizing /\ \A c \in Selections : selections[c].kinds # <<>> <=> c < b

\* What the invariant says of the selections and the files, by name.
LEMMA UploadFacts ==
  ASSUME UploadInv
  PROVE  /\ selections \in [Selections -> Selected]
         /\ \A c \in Selections : SelOK(selections[c]) /\ (selections[c].kinds # <<>> \/ selections[c] = Unused)
         /\ \E k \in 0..MaxSelections : \A c \in Selections : selections[c].kinds # <<>> <=> c <= k
         /\ \A c \in Selections : selections[c].open => optimizing /\ ~Complete(selections[c])
         /\ files \in Seq(Selections \X Positions) /\ InTurn(files)
         /\ ToSet(files) = Gathered(selections) \ removed /\ removed \subseteq Gathered(selections)
         /\ optimizing \in BOOLEAN /\ form \in {"open", "sending", "closed"}
BY DEF UploadInv, SelectionsOK, FilesOK

\* A selection that is complete hands its files over, and is closed.
LEMMA SettleKeeps ==
  ASSUME UploadInv, NEW b \in Selections, NEW sel, Growing(b, sel), Settle(b, sel),
         UNCHANGED <<form, removed>>
  PROVE  UploadInv'
<1>1. /\ selections \in [Selections -> Selected]
      /\ \A c \in Selections : SelOK(selections[c]) /\ (selections[c].kinds # <<>> \/ selections[c] = Unused)
      /\ \A c \in Selections : selections[c].open => optimizing /\ ~Complete(selections[c])
      /\ files \in Seq(Selections \X Positions) /\ InTurn(files)
      /\ ToSet(files) = Gathered(selections) \ removed /\ removed \subseteq Gathered(selections)
      /\ form \in {"open", "sending", "closed"}
  BY UploadFacts
<1>2. /\ SelOK(sel) /\ sel \in Selected /\ sel.open /\ sel.kinds # <<>> /\ sel.kinds \in Seq(Kinds)
      /\ Len(sel.kinds) \in Nat /\ Len(sel.kinds) <= MaxSelected
      /\ sel.cursor \in Nat /\ sel.cursor <= Len(sel.kinds) + 1 /\ DOMAIN sel.slots = 1..Len(sel.kinds)
      /\ \A i \in 1..Len(sel.kinds) : sel.slots[i] = IF i < sel.cursor /\ i \notin sel.awaited THEN i ELSE 0
  <2>1. SelOK(sel) /\ sel.open /\ sel.kinds # <<>>
    BY DEF Growing
  <2>2. sel \in Selected /\ sel.slots \in Seq(0..MaxSelected) /\ Len(sel.slots) = Len(sel.kinds)
    BY <2>1 DEF SelOK, Selected
  <2> QED BY <2>1, <2>2 DEF SelOK, Selected
<1>3. ~\E x \in Gathered(selections) : x[1] = b
  <2>1. CASE selections[b].open
    BY <2>1 DEF Gathered
  <2>2. CASE \A c \in Selections : selections[c].kinds # <<>> <=> c < b
    <3>1. selections[b].kinds = <<>>
      <4>1. ~(b < b)
        BY UploadSets
      <4> QED BY <2>2, <4>1
    <3>2. Len(selections[b].kinds) = 0
      BY <3>1
    <3> QED BY <3>2, UploadSets DEF Gathered
  <2> QED BY <2>1, <2>2 DEF Growing
<1>4. \E k \in 0..MaxSelections : \A c \in Selections : (c = b \/ selections[c].kinds # <<>>) <=> c <= k
  <2>1. CASE sel.kinds = selections[b].kinds
    BY <1>2, <2>1, UploadFacts
  <2>2. CASE \A c \in Selections : selections[c].kinds # <<>> <=> c < b
    <3>1. b \in 0..MaxSelections /\ \A c \in Selections : (c = b \/ c < b) <=> c <= b
      BY UploadSets
    <3> QED BY <2>2, <3>1
  <2> QED BY <2>1, <2>2 DEF Growing
<1>5. ASSUME NEW new, SelOK(new), new.kinds = sel.kinds, selections' = [selections EXCEPT ![b] = new],
             new.open => optimizing' /\ ~Complete(new), optimizing' \in BOOLEAN,
             \A c \in Selections \ {b} : selections[c].open => optimizing'
      PROVE  SelectionsOK(selections', optimizing')
  <2>1. new \in Selected
    BY <1>5 DEF SelOK
  <2>2. selections' \in [Selections -> Selected] /\ \A c \in Selections : selections'[c] = IF c = b THEN new ELSE selections[c]
    BY <1>1, <1>5, <2>1
  <2>3. \A c \in Selections : selections'[c].kinds # <<>> <=> (c = b \/ selections[c].kinds # <<>>)
    BY <1>2, <1>5, <2>2
  <2>4. \E k \in 0..MaxSelections : \A c \in Selections : selections'[c].kinds # <<>> <=> c <= k
    BY <1>4, <2>3
  <2>5. \A c \in Selections : SelOK(selections'[c]) /\ (selections'[c].kinds # <<>> \/ selections'[c] = Unused)
    BY <1>1, <1>2, <1>5, <2>2
  <2>6. \A c \in Selections : selections'[c].open => optimizing' /\ ~Complete(selections'[c])
    BY <1>1, <1>5, <2>2
  <2> QED BY <2>2, <2>4, <2>5, <2>6 DEF SelectionsOK
<1>6. CASE Complete(sel)
  <2> DEFINE new == [sel EXCEPT !.open = FALSE]
             block == [i \in DOMAIN sel.slots |-> <<b, sel.slots[i]>>]
  <2>1. /\ files' = files \o block /\ selections' = [selections EXCEPT ![b] = new]
        /\ optimizing' = (OpenSelections \ {b} # {})
    BY <1>6 DEF Settle
  <2>2. /\ new \in Selected /\ new.kinds = sel.kinds /\ new.open = FALSE /\ new.cursor = sel.cursor
        /\ new.awaited = sel.awaited /\ new.slots = sel.slots
    BY <1>2 DEF Selected
  <2>3. \A i \in 1..Len(sel.kinds) : sel.slots[i] = i
    <3>1. sel.awaited = {} /\ sel.cursor > Len(sel.kinds)
      BY <1>6 DEF Complete, Length
    <3> QED BY <1>2, <3>1
  <2>4. block = Block(b, Len(sel.kinds))
    BY <1>2, <2>3 DEF Block
  <2> HIDE DEF new, block
  <2>5. SelOK(new)
    BY <1>2, <2>2 DEF SelOK
  <2>6. SelectionsOK(selections', optimizing') /\ optimizing' \in BOOLEAN
    <3>1. \A c \in Selections \ {b} : selections[c].open => optimizing'
      BY <2>1 DEF OpenSelections
    <3>2. optimizing' \in BOOLEAN
      BY <2>1
    <3> QED BY <1>5, <2>1, <2>2, <2>5, <3>1, <3>2
  <2>7. Gathered(selections') = Gathered(selections) \cup Entries(b, Len(sel.kinds))
    <3>1. Len(new.kinds) <= MaxSelected
      BY <1>2, <2>2
    <3>2. ~new.open => Gathered(selections') = Gathered(selections) \cup Entries(b, Len(new.kinds))
      <4>1. selections \in [Selections -> Selected]
        BY <1>1
      <4>2. new \in Selected /\ selections' = Replaced(selections, b, new)
        BY <2>1, <2>2 DEF Replaced
      <4> QED BY <1>3, <3>1, <4>1, <4>2, GatheredIs
    <3> QED BY <2>2, <3>2
  <2>8. /\ files' \in Seq(Selections \X Positions) /\ InTurn(files')
        /\ ToSet(files') = ToSet(files) \cup Entries(b, Len(sel.kinds))
    <3>1. ~\E x \in ToSet(files) : x[1] = b
      BY <1>1, <1>3
    <3>2. files \in Seq(Selections \X Positions) /\ InTurn(files)
      BY <1>1
    <3>3. Len(sel.kinds) \in Nat /\ Len(sel.kinds) <= MaxSelected
      BY <1>2
    <3>4. files' = Joined(files, b, Len(sel.kinds))
      BY <2>1, <2>4 DEF Joined
    <3> QED BY <3>1, <3>2, <3>3, <3>4, FilesAppended
  <2>9. \A i \in 1..Len(sel.kinds) : <<b, i>> \notin removed
    BY <1>1, <1>3
  <2>10. removed' = removed /\ form' = form
    OBVIOUS
  <2>11. FilesOK(selections', files', removed')
    <3> DEFINE more == Entries(b, Len(sel.kinds))
    <3>1. more \cap removed = {}
      BY <2>9 DEF Entries
    <3>2. Gathered(selections') = Gathered(selections) \cup more /\ ToSet(files') = ToSet(files) \cup more
      BY <2>7, <2>8
    <3> HIDE DEF more
    <3>3. ToSet(files') = Gathered(selections') \ removed /\ removed \subseteq Gathered(selections')
      BY <1>1, <3>1, <3>2
    <3> QED BY <2>8, <2>10, <3>3 DEF FilesOK
  <2> QED BY <1>1, <2>6, <2>10, <2>11 DEF UploadInv
<1>7. CASE ~Complete(sel)
  <2>1. selections' = [selections EXCEPT ![b] = sel] /\ optimizing' = TRUE /\ files' = files
    BY <1>7 DEF Settle
  <2>2. SelectionsOK(selections', optimizing')
    BY <1>2, <1>5, <1>7, <2>1
  <2>3. Gathered(selections') = Gathered(selections)
    <3>1. selections \in [Selections -> Selected] /\ selections' = Replaced(selections, b, sel)
      BY <1>1, <2>1 DEF Replaced
    <3>2. sel \in Selected /\ Len(sel.kinds) <= MaxSelected /\ sel.open
      BY <1>2
    <3> QED BY <1>3, <3>1, <3>2, GatheredIs
  <2>4. FilesOK(selections', files', removed')
    BY <1>1, <2>1, <2>3 DEF FilesOK
  <2> QED BY <1>1, <2>1, <2>2, <2>4 DEF UploadInv
<1> QED BY <1>6, <1>7

\* Posting the jobs of a selection leaves the service in order.
LEMMA PostAllKeeps ==
  ASSUME NEW s, ServiceOK(s), NEW b \in Selections, NEW taken \in SUBSET Positions
  PROVE  ServiceOK(PostAll(s, b, taken))
<1> DEFINE order == InOrder(taken)
           more == [k \in DOMAIN order |-> <<b, order[k]>>]
           new == PostAll(s, b, taken)
<1>1. CASE taken = {}
  BY <1>1 DEF PostAll
<1>2. CASE taken # {}
  <2>1. Cardinality(taken) \in Nat /\ DOMAIN order = 1..Cardinality(taken) /\ \A k \in 1..Cardinality(taken) : order[k] \in taken
    BY UploadSets, InOrderEnumerates DEF Positions
  <2>2. /\ new = [s EXCEPT !.alive = TRUE, !.timer = FALSE, !.posted = @ \cup {<<b, i>> : i \in taken},
                           !.pending = @ \o more]
    BY <1>2 DEF PostAll
  <2> HIDE DEF order
  <2>3. \A k \in 1..Cardinality(taken) : more[k] = <<b, order[k]>> /\ more[k] \in Jobs /\ more[k] \in {<<b, i>> : i \in taken}
    BY <2>1, UploadSets
  <2>4. more = [k \in 1..Cardinality(taken) |-> more[k]]
    BY <2>1
  <2> HIDE DEF more, new
  <2>5. more \in Seq(Jobs) /\ DOMAIN more = 1..Cardinality(taken)
    BY <2>1, <2>3, <2>4, ListByIndex
  <2>6. ToSet(more) \subseteq {<<b, i>> : i \in taken}
    BY <2>3, <2>5 DEF ToSet
  <2>7. {<<b, i>> : i \in taken} \subseteq Jobs
    BY UploadSets
  <2>8. s \in Services /\ s.pending \in Seq(Jobs) /\ s.posted \subseteq Jobs /\ ToSet(s.pending) \subseteq s.posted
    BY DEF ServiceOK, Services
  <2>9. s.pending \o more \in Seq(Jobs) /\ ToSet(s.pending \o more) = ToSet(s.pending) \cup ToSet(more)
    BY <2>5, <2>8, ToSetJoined
  <2> DEFINE posted == s.posted \cup {<<b, i>> : i \in taken}
             pending == s.pending \o more
  <2>10. new = [s EXCEPT !.alive = TRUE, !.timer = FALSE, !.posted = posted, !.pending = pending]
    BY <2>2, <2>8 DEF Services
  <2>11. posted \subseteq Jobs /\ pending \in Seq(Jobs) /\ ToSet(pending) \subseteq posted
    BY <2>6, <2>7, <2>8, <2>9
  <2> HIDE DEF posted, pending
  <2>12. new.pending = pending /\ new.posted = posted /\ new.alive = TRUE /\ new \in Services
    <3>1. TRUE \in BOOLEAN /\ FALSE \in BOOLEAN
      OBVIOUS
    <3> QED BY <2>8, <2>10, <2>11, <3>1 DEF Services
  <2> QED BY <2>11, <2>12 DEF ServiceOK, new
<1> QED BY <1>1, <1>2

\* A list without one of its entries.
LEMMA RemovedAt ==
  ASSUME NEW V, NEW l \in Seq(V), NEW n \in DOMAIN l
  PROVE  /\ RemoveAt(l, n) \in Seq(V) /\ n \in Nat /\ Len(l) \in Nat
         /\ DOMAIN l = 1..Len(l) /\ DOMAIN RemoveAt(l, n) = 1..(Len(l) - 1)
         /\ \A k \in 1..(Len(l) - 1) : RemoveAt(l, n)[k] = l[IF k < n THEN k ELSE k + 1]
<1>1. n \in Nat /\ n >= 1 /\ n <= Len(l) /\ Len(l) \in Nat /\ DOMAIN l = 1..Len(l)
  OBVIOUS
<1> DEFINE a == SubSeq(l, 1, n - 1)
           c == SubSeq(l, n + 1, Len(l))
<1>2. a \in Seq(V) /\ Len(a) = n - 1 /\ \A k \in 1..(n - 1) : a[k] = l[k]
  BY <1>1
<1>3. c \in Seq(V) /\ Len(c) = Len(l) - n /\ \A k \in 1..(Len(l) - n) : c[k] = l[k + n]
  BY <1>1
<1>4. RemoveAt(l, n) = a \o c
  BY DEF RemoveAt
<1> HIDE DEF a, c
<1>5. /\ a \o c \in Seq(V) /\ DOMAIN (a \o c) = 1..(Len(a) + Len(c))
      /\ \A k \in DOMAIN a : (a \o c)[k] = a[k]
      /\ \A k \in 1..Len(c) : (a \o c)[k + Len(a)] = c[k]
      /\ DOMAIN a = 1..Len(a)
  <2>1. a \in Seq(V) /\ c \in Seq(V)
    BY <1>2, <1>3
  <2>2. a \o c \in Seq(V)
    BY <2>1
  <2>3. /\ DOMAIN a = 1..Len(a) /\ DOMAIN (a \o c) = 1..(Len(a) + Len(c))
        /\ \A k \in DOMAIN a : (a \o c)[k] = a[k]
        /\ \A k \in 1..Len(c) : (a \o c)[k + Len(a)] = c[k]
    BY <2>1, JoinedEntries
  <2> QED BY <2>2, <2>3
<1>6. ASSUME NEW k \in 1..(Len(l) - 1) PROVE (a \o c)[k] = l[IF k < n THEN k ELSE k + 1]
  <2>1. CASE k < n
    <3>1. k \in 1..(n - 1) /\ k \in DOMAIN a
      BY <1>1, <1>2, <1>5, <2>1
    <3> QED BY <1>2, <1>5, <2>1, <3>1
  <2>2. CASE ~(k < n)
    <3> DEFINE i == k - (n - 1)
    <3>1. i \in 1..(Len(l) - n) /\ i + Len(a) = k /\ i + n = k + 1
      BY <1>1, <1>2, <2>2
    <3> HIDE DEF i
    <3>2. (a \o c)[k] = c[i] /\ c[i] = l[k + 1]
      BY <1>3, <1>5, <3>1
    <3> QED BY <2>2, <3>2
  <2> QED BY <2>1, <2>2
<1>7. Len(a) + Len(c) = Len(l) - 1
  BY <1>1, <1>2, <1>3
<1> QED BY <1>1, <1>4, <1>5, <1>6, <1>7

\* A file that is taken out.
LEMMA RemoveFileKeeps ==
  ASSUME UploadInv, NEW n \in DOMAIN files, RemoveFile(n)
  PROVE  UploadInv' /\ service' = service
<1>1. files \in Seq(Selections \X Positions) /\ InTurn(files)
  BY UploadFacts
<1> DEFINE new == RemoveAt(files, n)
           at(k) == IF k < n THEN k ELSE k + 1
<1>2. /\ new \in Seq(Selections \X Positions) /\ n \in Nat /\ Len(files) \in Nat
      /\ DOMAIN files = 1..Len(files) /\ DOMAIN new = 1..(Len(files) - 1)
      /\ \A k \in 1..(Len(files) - 1) : new[k] = files[at(k)]
  BY <1>1, RemovedAt
<1>3. files' = new /\ removed' = removed \cup {files[n]} /\ UNCHANGED <<service, selections, optimizing, form>>
  BY DEF RemoveFile
<1> HIDE DEF new
<1>4. /\ \A k \in DOMAIN new : at(k) \in DOMAIN files /\ at(k) # n
      /\ \A j, k \in DOMAIN new : (j < k <=> at(j) < at(k)) /\ (at(j) = at(k) => j = k)
      /\ \A m \in DOMAIN files : m # n => \E k \in DOMAIN new : at(k) = m
  <2>1. \A k \in DOMAIN new : at(k) \in DOMAIN files /\ at(k) # n
    BY <1>2
  <2>2. \A j, k \in DOMAIN new : (j < k <=> at(j) < at(k)) /\ (at(j) = at(k) => j = k)
    BY <1>2
  <2>3. ASSUME NEW m \in DOMAIN files, m # n PROVE \E k \in DOMAIN new : at(k) = m
    <3>1. CASE m < n
      <4>1. m \in DOMAIN new
        BY <1>2, <3>1
      <4> QED BY <3>1, <4>1
    <3>2. CASE ~(m < n)
      <4>1. m - 1 \in DOMAIN new /\ ~(m - 1 < n) /\ (m - 1) + 1 = m
        BY <1>2, <2>3, <3>2
      <4> QED BY <4>1
    <3> QED BY <3>1, <3>2
  <2> QED BY <2>1, <2>2, <2>3
<1> HIDE DEF at
<1>5. \A k \in DOMAIN new : new[k] = files[at(k)]
  BY <1>2
<1>6. InTurn(new)
  <2>1. /\ \A m, k \in DOMAIN files : files[m] = files[k] => m = k
        /\ \A m, k \in DOMAIN files : files[m][1] = files[k][1] /\ m < k => files[m][2] < files[k][2]
    BY <1>1 DEF InTurn
  <2> QED BY <1>4, <1>5, <2>1 DEF InTurn
<1>7. ToSet(new) = ToSet(files) \ {files[n]}
  <2>1. \A m \in DOMAIN files : files[m] = files[n] => m = n
    BY <1>1 DEF InTurn
  <2>2. \A x \in ToSet(new) : x \in ToSet(files) /\ x # files[n]
    BY <1>4, <1>5, <2>1 DEF ToSet
  <2>3. \A x \in ToSet(files) : x # files[n] => x \in ToSet(new)
    BY <1>4, <1>5 DEF ToSet
  <2> QED BY <2>2, <2>3
<1>8. files[n] \in ToSet(files)
  BY DEF ToSet
<1>9. FilesOK(selections, new, removed \cup {files[n]})
  BY <1>2, <1>6, <1>7, <1>8, UploadFacts DEF FilesOK
<1> QED BY <1>3, <1>9 DEF UploadInv

\* The next selection, and what the runners take of it at once.
LEMMA SelectFilesKeeps ==
  ASSUME UploadInv, ServiceOK(service), NEW n \in Positions, NEW kinds \in [1..n -> Kinds], SelectFiles(kinds)
  PROVE  UploadInv' /\ ServiceOK(service')
<1> DEFINE used == {c \in Selections : selections[c] # Unused}
           b == Cardinality(used) + 1
           first == [Unused EXCEPT !.kinds = kinds, !.open = TRUE, !.slots = [i \in DOMAIN kinds |-> 0]]
           sel == Advance(first)
<1>1. /\ b \in Selections /\ ~optimizing /\ service' = PostAll(service, b, sel.awaited) /\ Settle(b, sel)
      /\ UNCHANGED <<form, removed>>
  BY DEF SelectFiles
<1>2. \A c \in Selections : selections[c].kinds # <<>> <=> c < b
  <2>1. PICK k \in 0..MaxSelections : \A c \in Selections : selections[c].kinds # <<>> <=> c <= k
    BY UploadFacts
  <2>2. k \in Nat /\ k <= MaxSelections /\ \A c \in Selections : c \in Nat /\ c >= 1 /\ c <= MaxSelections
    BY UploadSets
  <2>3. \A c \in Selections : selections[c] # Unused <=> c <= k
    BY <2>1, UploadFacts, UnusedOK
  <2>4. used = 1..k
    <3>1. \A c \in 1..k : c \in Selections
      BY <2>2, UploadSets DEF Selections
    <3>2. \A c \in Selections : c <= k <=> c \in 1..k
      BY <2>2
    <3> QED BY <2>3, <3>1, <3>2
  <2>5. Cardinality(used) = k
    BY <2>2, <2>4, UpToN
  <2> HIDE DEF used
  <2> QED BY <2>1, <2>2, <2>5
<1> HIDE DEF b
<1>3. SelOK(first) /\ first.kinds = kinds /\ first.open = TRUE /\ Cardinality(first.awaited) < MaxParallel /\ kinds # <<>>
  BY FreshSelection
<1> HIDE DEF first
<1>4. SelOK(sel) /\ sel.kinds = kinds /\ sel.open = TRUE /\ sel.awaited \in SUBSET Positions
  BY <1>3, AdvanceKeeps
<1> HIDE DEF sel
<1>5. Growing(b, sel)
  BY <1>1, <1>2, <1>3, <1>4 DEF Growing
<1>6. UploadInv'
  BY <1>1, <1>5, SettleKeeps
<1>7. ServiceOK(service')
  BY <1>1, <1>4, PostAllKeeps
<1> QED BY <1>6, <1>7

\* The answer for a file.
LEMMA FileCompressedKeeps ==
  ASSUME UploadInv, ServiceOK(service), NEW b \in OpenSelections, NEW i \in selections[b].awaited, FileCompressed(b, i)
  PROVE  UploadInv' /\ ServiceOK(service')
<1> DEFINE sel == Store(selections[b], i)
           next == Advance(sel)
           taken == next.awaited \ sel.awaited
<1>1. b \in Selections /\ selections[b].open
  BY DEF OpenSelections
<1>2. SelOK(selections[b]) /\ selections[b].kinds # <<>>
  <2>1. SelOK(selections[b]) /\ (selections[b].kinds # <<>> \/ selections[b] = Unused)
    BY <1>1, UploadFacts
  <2> QED BY <1>1, <2>1, UnusedOK
<1>3. SelOK(sel) /\ sel.kinds = selections[b].kinds /\ sel.open = selections[b].open /\ Cardinality(sel.awaited) < MaxParallel
  BY <1>2, StoreKeeps
<1> HIDE DEF sel
<1>4. SelOK(next) /\ next.kinds = selections[b].kinds /\ next.open = selections[b].open /\ next.awaited \in SUBSET Positions
  BY <1>3, AdvanceKeeps
<1> HIDE DEF next
<1>5. /\ Settle(b, next) /\ UNCHANGED <<form, removed>>
      /\ \/ service' = PostAll(Answered(service, <<b, i>>), b, taken)
         \/ ~Quiet /\ service' = PostAll(Rejected(service), b, taken)
  BY DEF FileCompressed, CanReject, sel, next
<1>6. Growing(b, next)
  BY <1>1, <1>2, <1>4 DEF Growing
<1>7. UploadInv'
  BY <1>1, <1>5, <1>6, SettleKeeps
<1>8. taken \in SUBSET Positions
  BY <1>4
<1> HIDE DEF taken
<1>9. ServiceOK(Answered(service, <<b, i>>)) /\ (~Quiet => ServiceOK(Rejected(service)))
  BY AnsweredKeeps, RejectedKeeps DEF Quiet
<1>10. ServiceOK(service')
  BY <1>1, <1>5, <1>8, <1>9, PostAllKeeps
<1> QED BY <1>7, <1>10

\* The invariant of the form that uploads.
LEMMA UploadInvStep == UploadInv /\ ServiceOK(service) /\ [UploadNext]_uploadVars => UploadInv' /\ ServiceOK(service')
<1> SUFFICES ASSUME UploadInv, ServiceOK(service), [UploadNext]_uploadVars PROVE UploadInv' /\ ServiceOK(service')
  OBVIOUS
<1>1. ASSUME NEW n \in Positions, NEW kinds \in [1..n -> Kinds], SelectFiles(kinds) PROVE UploadInv' /\ ServiceOK(service')
  BY <1>1, SelectFilesKeeps
<1>2. ASSUME NEW b \in OpenSelections, NEW i \in selections[b].awaited, FileCompressed(b, i)
      PROVE  UploadInv' /\ ServiceOK(service')
  BY <1>2, FileCompressedKeeps
<1>3. ASSUME NEW n \in DOMAIN files, RemoveFile(n) PROVE UploadInv' /\ ServiceOK(service')
  BY <1>3, RemoveFileKeeps
<1>4. CASE Submit \/ SubmitAnswered \/ Cancel
  BY <1>4 DEF Submit, SubmitAnswered, Cancel, UploadInv
<1>5. CASE (WorkerFails \/ IdleTimeout) /\ UNCHANGED formVars
  BY <1>5, WorkerKeeps DEF UploadInv, formVars
<1>6. CASE UNCHANGED uploadVars
  BY <1>6 DEF UploadInv, uploadVars
<1> QED BY <1>1, <1>2, <1>3, <1>4, <1>5, <1>6 DEF UploadNext

\* It holds at first.
LEMMA UploadInvInit == UploadInit => UploadInv
<1> SUFFICES ASSUME UploadInit PROVE UploadInv
  OBVIOUS
<1>1. selections = [b \in Selections |-> Unused] /\ files = <<>> /\ optimizing = FALSE /\ removed = {} /\ form = "open"
  BY DEF UploadInit
<1>2. \A b \in Selections : selections[b] = Unused
  BY <1>1
<1>3. selections \in [Selections -> Selected]
  BY <1>1, UnusedOK
<1>4. \A b \in Selections : selections[b].kinds = <<>> /\ selections[b].open = FALSE /\ SelOK(selections[b])
  BY <1>2, UnusedOK
<1>5. \E k \in 0..MaxSelections : \A b \in Selections : selections[b].kinds # <<>> <=> b <= k
  <2>1. 0 \in 0..MaxSelections /\ \A b \in Selections : ~(b <= 0)
    BY UploadSets
  <2> QED BY <1>4, <2>1
<1>6. SelectionsOK(selections, optimizing)
  BY <1>2, <1>3, <1>4, <1>5 DEF SelectionsOK
<1>7. Gathered(selections) = {}
  <2>1. Len(<<>>) = 0
    OBVIOUS
  <2> QED BY <1>4, <2>1, UploadSets DEF Gathered
<1>8. FilesOK(selections, files, removed)
  <2>1. files \in Seq(Selections \X Positions) /\ ToSet(files) = {} /\ InTurn(files)
    BY <1>1 DEF ToSet, InTurn
  <2> QED BY <1>1, <1>7, <2>1 DEF FilesOK
<1>9. optimizing \in BOOLEAN
  BY <1>1
<1> QED BY <1>1, <1>6, <1>8, <1>9 DEF UploadInv

\* What it says of the types.
LEMMA UploadTypes == ASSUME UploadInv PROVE UploadTypeOK
<1>1. selections \in [Selections -> [kinds : Seq(Kinds), cursor : 1..(MaxSelected + 1), awaited : SUBSET Positions,
                                     slots : Seq(0..MaxSelected), open : BOOLEAN]]
  <2>1. ASSUME NEW b \in Selections
        PROVE  selections[b] \in [kinds : Seq(Kinds), cursor : 1..(MaxSelected + 1), awaited : SUBSET Positions,
                                  slots : Seq(0..MaxSelected), open : BOOLEAN]
    <3>1. SelOK(selections[b])
      BY UploadFacts
    <3>2. selections[b] \in Selected /\ Len(selections[b].kinds) <= MaxSelected
          /\ selections[b].cursor <= Len(selections[b].kinds) + 1
      BY <3>1 DEF SelOK
    <3>3. selections[b].cursor \in 1..(MaxSelected + 1)
      <4>1. selections[b].cursor \in Nat /\ selections[b].cursor >= 1 /\ Len(selections[b].kinds) \in Nat
        BY <3>2 DEF Selected
      <4>2. MaxSelected \in Nat
        BY UploadSets
      <4> QED BY <3>2, <4>1, <4>2
    <3> QED BY <3>2, <3>3 DEF Selected
  <2>2. selections \in [Selections -> Selected]
    BY UploadFacts
  <2> QED BY <2>1, <2>2
<1>2. removed \subseteq Selections \X Positions
  BY UploadFacts DEF Gathered
<1> QED BY <1>1, <1>2, UploadFacts DEF UploadTypeOK

\* A form that goes out has its files, and all of them.
LEMMA SubmitsAll ==
  ASSUME UploadInv, [UploadNext]_uploadVars
  PROVE  [form' = "sending" =>
            /\ ToSet(files) = ChosenFiles \ removed
            /\ Cardinality(ToSet(files)) = Len(files)
            /\ \A x, y \in ToSet(files) : x[1] = y[1] /\ x[2] < y[2] => Before(x, y)]_form
<1> SUFFICES ASSUME form' = "sending", form' # form
             PROVE  /\ ToSet(files) = ChosenFiles \ removed
                    /\ Cardinality(ToSet(files)) = Len(files)
                    /\ \A x, y \in ToSet(files) : x[1] = y[1] /\ x[2] < y[2] => Before(x, y)
  OBVIOUS
<1>1. ~optimizing
  BY DEF UploadNext, uploadVars, formVars, SelectFiles, FileCompressed, RemoveFile, Submit, SubmitAnswered, Cancel
<1>2. /\ \A b \in Selections : ~selections[b].open /\ SelOK(selections[b])
      /\ files \in Seq(Selections \X Positions) /\ ToSet(files) = Gathered(selections) \ removed
  BY <1>1, UploadFacts
<1>3. /\ \A m, n \in DOMAIN files : files[m] = files[n] => m = n
      /\ \A m, n \in DOMAIN files : files[m][1] = files[n][1] /\ m < n => files[m][2] < files[n][2]
  BY UploadFacts DEF InTurn
<1>4. Gathered(selections) = ChosenFiles
  <2>1. \A b \in Selections : Len(selections[b].kinds) \in Nat /\ Len(selections[b].kinds) <= MaxSelected
    BY <1>2 DEF SelOK, Selected
  <2>2. \A b \in Selections : \A i : (i \in Positions /\ i <= Len(selections[b].kinds)) <=> i \in 1..Len(selections[b].kinds)
    BY <2>1, UploadSets DEF Positions
  <2>3. \A b \in Selections, i \in Positions : <<b, i>> \in Gathered(selections) <=> i <= Len(selections[b].kinds)
    BY <1>2 DEF Gathered
  <2>4. \A b \in Selections : \A i \in 1..Len(selections[b].kinds) : <<b, i>> \in Gathered(selections)
    BY <2>2, <2>3
  <2>5. \A x \in Gathered(selections) : x[1] \in Selections /\ x[2] \in 1..Len(selections[x[1]].kinds) /\ x = <<x[1], x[2]>>
    BY <2>2 DEF Gathered
  <2> QED BY <2>4, <2>5 DEF ChosenFiles, Length
<1>5. Cardinality(ToSet(files)) = Len(files)
  <2>1. Len(files) \in Nat /\ DOMAIN files = 1..Len(files)
    BY <1>2
  <2>2. files \in [1..Len(files) -> ToSet(files)] /\ \A x \in ToSet(files) : \E n \in 1..Len(files) : files[n] = x
    <3>1. files = [n \in 1..Len(files) |-> files[n]]
      BY <1>2
    <3> QED BY <2>1, <3>1 DEF ToSet
  <2>3. files \in Bijection(1..Len(files), ToSet(files))
    BY <1>3, <2>1, <2>2 DEF Bijection, Injection, Surjection, IsInjective
  <2>4. IsFiniteSet(1..Len(files)) /\ Cardinality(1..Len(files)) = Len(files)
    BY <2>1, UpToN
  <2>5. ExistsBijection(1..Len(files), ToSet(files))
    BY <2>3 DEF ExistsBijection
  <2> QED BY <2>4, <2>5, FS_Bijection
<1>6. ASSUME NEW x \in ToSet(files), NEW y \in ToSet(files), x[1] = y[1], x[2] < y[2] PROVE Before(x, y)
  <2>1. PICK m \in DOMAIN files, n \in DOMAIN files : files[m] = x /\ files[n] = y
    BY DEF ToSet
  <2>2. m \in Nat /\ n \in Nat
    BY <1>2
  <2>3. x[2] \in Nat /\ y[2] \in Nat
    <3>1. x \in Selections \X Positions /\ y \in Selections \X Positions
      BY <1>2, <2>1
    <3> QED BY <3>1, UploadSets
  <2>4. ~(n < m) /\ m # n
    BY <1>3, <1>6, <2>1, <2>3
  <2>5. m < n
    BY <2>2, <2>4
  <2> QED BY <2>1, <2>5 DEF Before
<1> QED BY <1>2, <1>4, <1>5, <1>6

-----------------------------------------------------------------------------
(* The viewer of documents.                                                   *)

Downloads == [path : Paths, state : {"loading", "ready", "failed"}]

\* What the cache may hold.
Fine(rs) == {r \in DOMAIN rs : rs[r].state # "failed"}
NetOK(net) ==
  /\ net = [requests |-> net.requests, cache |-> net.cache]
  /\ net.requests \in Seq(Downloads)
  /\ net.cache \in Seq(Fine(net.requests)) /\ Len(net.cache) <= MaxCached
\* A download of a path that is under way.
OnItsWay(rs, r, p) == r \in DOMAIN rs /\ rs[r].path = p /\ rs[r].state = "loading"
\* Downloads are only added.
Grown(rs, new) == \A r \in DOMAIN rs : r \in DOMAIN new /\ new[r] = rs[r]

\* The bounds and the names of the viewer.
LEMMA ViewerSets ==
  /\ MaxShown \in Nat /\ MaxShown >= 1 /\ MaxCached \in Nat /\ MaxCached >= 1 /\ MaxRequests \in Nat
  /\ None \notin Paths /\ None \notin Items /\ "lightbox" \notin Slots
  /\ \A k \in Items : k \in Local <=> k \notin Paths
BY ViewerAssumption DEF Items

\* Asking for a file: the cached download becomes the youngest, or a new one is
\* made and the oldest forgotten.
LEMMA AskKeeps ==
  ASSUME NEW net, NetOK(net), NEW p \in Paths
  PROVE  /\ NetOK(Ask(net, p)) /\ Grown(net.requests, Ask(net, p).requests)
         /\ Asked(net, p) \in Nat /\ Asked(net, p) >= 1 /\ Asked(net, p) \in DOMAIN Ask(net, p).requests
         /\ Ask(net, p).requests[Asked(net, p)].path = p
         /\ Ask(net, p).requests[Asked(net, p)].state \in {"loading", "ready"}
<1> DEFINE new == Ask(net, p)
           F == Fine(net.requests)
<1>1. /\ net.requests \in Seq(Downloads) /\ net.cache \in Seq(F) /\ Len(net.cache) <= MaxCached /\ Len(net.cache) \in Nat
      /\ Len(net.requests) \in Nat /\ DOMAIN net.requests = 1..Len(net.requests)
      /\ net = [requests |-> net.requests, cache |-> net.cache]
  BY DEF NetOK
<1>2. \A r \in F : r \in DOMAIN net.requests /\ net.requests[r] \in Downloads /\ net.requests[r].state \in {"loading", "ready"}
                   /\ r \in Nat /\ r >= 1
  <2> SUFFICES ASSUME NEW r \in F
               PROVE  /\ r \in DOMAIN net.requests /\ net.requests[r] \in Downloads /\ net.requests[r].state \in {"loading", "ready"}
                      /\ r \in Nat /\ r >= 1
    OBVIOUS
  <2>1. r \in DOMAIN net.requests /\ net.requests[r].state # "failed"
    BY DEF Fine
  <2>2. net.requests[r] \in Downloads /\ r \in Nat /\ r >= 1
    BY <1>1, <2>1
  <2> QED BY <2>1, <2>2 DEF Downloads
<1>3. CASE Holding(net, p) # {}
  <2> DEFINE n == CHOOSE m \in Holding(net, p) : TRUE
             P == DOMAIN net.cache \ Holding(net, p)
             rest == Filtered(net.cache, P)
             list == Append(rest, Held(net, p))
  <2>1. n \in DOMAIN net.cache /\ net.requests[net.cache[n]].path = p
    BY <1>3 DEF Holding
  <2>2. P \in SUBSET DOMAIN net.cache /\ P # DOMAIN net.cache
    BY <1>3 DEF Holding
  <2>3. Held(net, p) = net.cache[n] /\ Asked(net, p) = Held(net, p)
    BY <1>3 DEF Held, Asked
  <2>4. new.requests = net.requests /\ new.cache = list /\ new = [requests |-> net.requests, cache |-> list]
    BY <1>1, <1>3 DEF Ask
  <2> HIDE DEF n, P, F, new
  <2>5. rest \in Seq(F) /\ Len(rest) < Len(net.cache) /\ Len(rest) \in Nat
    BY <1>1, <2>2, FilteredEntries, FilteredShorter
  <2> HIDE DEF rest
  <2>6. Held(net, p) \in F
    BY <1>1, <2>1, <2>3
  <2>7. list \in Seq(F) /\ Len(list) = Len(rest) + 1
    BY <2>5, <2>6
  <2>8. Len(list) <= MaxCached
    BY <1>1, <2>5, <2>7, ViewerSets
  <2> HIDE DEF list
  <2>9. NetOK(new)
    BY <1>1, <2>4, <2>7, <2>8 DEF NetOK, F
  <2>10. Grown(net.requests, new.requests)
    BY <2>4 DEF Grown
  <2> QED BY <1>2, <2>1, <2>3, <2>4, <2>6, <2>9, <2>10 DEF new
<1>4. CASE Holding(net, p) = {}
  <2> DEFINE d == [path |-> p, state |-> "loading"]
             r == Len(net.requests) + 1
             rs == Append(net.requests, d)
             longer == Append(net.cache, r)
             list == Evict(longer)
  <2>1. Asked(net, p) = r /\ new = [requests |-> rs, cache |-> list] /\ new.requests = rs /\ new.cache = list
    BY <1>4 DEF Ask, Asked, NextRequest
  <2>2. d \in Downloads /\ d.path = p /\ d.state = "loading"
    BY DEF Downloads
  <2> HIDE DEF d, new, F
  <2>3. /\ rs \in Seq(Downloads) /\ DOMAIN rs = 1..r /\ rs[r] = d /\ r \in Nat /\ r >= 1
        /\ \A m \in DOMAIN net.requests : m \in DOMAIN rs /\ rs[m] = net.requests[m]
    BY <1>1, <2>2
  <2> HIDE DEF rs, r
  <2>4. F \subseteq Fine(rs) /\ r \in Fine(rs)
    <3>1. r \in DOMAIN rs /\ rs[r].state # "failed"
      BY <2>2, <2>3
    <3> QED BY <2>3, <3>1 DEF F, Fine
  <2>5. net.cache \in Seq(Fine(rs))
    BY <1>1, <2>4, SeqLarger
  <2>6. longer \in Seq(Fine(rs)) /\ Len(longer) = Len(net.cache) + 1
    BY <2>4, <2>5
  <2> HIDE DEF longer
  <2>7. list \in Seq(Fine(rs)) /\ Len(list) <= MaxCached
    <3>1. MaxCached \in Nat
      BY ViewerSets
    <3>2. CASE Len(longer) > MaxCached
      <4>1. longer # <<>> /\ Len(longer) <= MaxCached + 1 /\ Len(longer) \in Nat /\ Len(longer) >= 1
        BY <1>1, <2>6, <3>1, <3>2
      <4>2. Tail(longer) \in Seq(Fine(rs)) /\ Len(Tail(longer)) = Len(longer) - 1
        BY <2>6, <4>1
      <4> QED BY <3>1, <3>2, <4>1, <4>2 DEF Evict
    <3>3. CASE ~(Len(longer) > MaxCached)
      <4>1. Len(longer) \in Nat
        BY <1>1, <2>6
      <4> QED BY <2>6, <3>1, <3>3, <4>1 DEF Evict
    <3> QED BY <3>2, <3>3
  <2> HIDE DEF list
  <2>8. NetOK(new)
    BY <2>1, <2>3, <2>7 DEF NetOK
  <2>9. Grown(net.requests, new.requests)
    BY <2>1, <2>3 DEF Grown
  <2>10. r \in DOMAIN rs
    BY <2>3
  <2> QED BY <2>1, <2>2, <2>3, <2>8, <2>9, <2>10 DEF new
<1> QED BY <1>3, <1>4

\* A lightbox that shows a gallery.
Viewers ==
  [shown : Galleries, index : 1..MaxShown, resolved : SUBSET Items, fetching : [Paths -> Nat],
   waiting : Paths \cup {None}, loading : BOOLEAN, failed : BOOLEAN]

\* What it has, it has an object URL of; what it fetches is under way.
Backed(rs, v, bs) ==
  /\ \A k \in Paths : v.fetching[k] # 0 => OnItsWay(rs, v.fetching[k], k)
  /\ \A k \in Items : <<"lightbox", k>> \in bs <=> k \in v.resolved
  /\ bs \subseteq (Slots \cup {"lightbox"}) \X Items

StOK(st) ==
  /\ st = [net |-> st.net, v |-> st.v, blobs |-> st.blobs]
  /\ NetOK(st.net) /\ st.v \in Viewers /\ Backed(st.net.requests, st.v, st.blobs)

\* What the effect leaves as it was.
SameFrame(v, new) ==
  new.shown = v.shown /\ new.index = v.index /\ v.resolved \subseteq new.resolved
  /\ \A k \in Paths : v.fetching[k] # 0 => new.fetching[k] # 0
SameWait(v, new) == new.waiting = v.waiting /\ new.loading = v.loading /\ new.failed = v.failed
OthersKept(bs, new) == \A b \in (Slots \cup {"lightbox"}) \X Items : b[1] # "lightbox" => (b \in new <=> b \in bs)
Follows(st, new) ==
  /\ Grown(st.net.requests, new.net.requests) /\ SameFrame(st.v, new.v) /\ OthersKept(st.blobs, new.blobs)

\* The item is there, or on its way.
Has(v, k) == k \in v.resolved \/ (k \in Paths /\ v.fetching[k] # 0)

\* More downloads do not end one that is under way.
LEMMA GrownKeeps ==
  ASSUME NEW rs, NEW new, Grown(rs, new), NEW r, NEW p, OnItsWay(rs, r, p)
  PROVE  OnItsWay(new, r, p)
BY DEF Grown, OnItsWay

\* Nothing done is a step.
LEMMA FollowsItself == ASSUME NEW st PROVE Follows(st, st) /\ SameWait(st.v, st.v)
BY DEF Follows, SameFrame, SameWait, OthersKept, Grown

\* Two steps are one.
LEMMA FollowsOn ==
  ASSUME NEW a, NEW b, NEW c, Follows(a, b), Follows(b, c)
  PROVE  Follows(a, c)
<1>1. Grown(a.net.requests, c.net.requests)
  BY DEF Follows, Grown
<1>2. SameFrame(a.v, c.v)
  BY DEF Follows, SameFrame
<1>3. OthersKept(a.blobs, c.blobs)
  BY DEF Follows, OthersKept
<1> QED BY <1>1, <1>2, <1>3 DEF Follows

\* An item that is obtained.
LEMMA ObtainedKeeps ==
  ASSUME NEW st, StOK(st), NEW k \in Items
  PROVE  /\ StOK(Obtained(st, k)) /\ Follows(st, Obtained(st, k)) /\ SameWait(st.v, Obtained(st, k).v)
         /\ Has(Obtained(st, k).v, k)
<1> DEFINE new == Obtained(st, k)
           resolved == st.v.resolved \cup {k}
           bs == st.blobs \cup {<<"lightbox", k>>}
<1>1. /\ st = [net |-> st.net, v |-> st.v, blobs |-> st.blobs] /\ NetOK(st.net) /\ st.v \in Viewers
      /\ Backed(st.net.requests, st.v, st.blobs)
  BY DEF StOK
<1>2. /\ new = [net |-> st.net, v |-> [st.v EXCEPT !.resolved = resolved], blobs |-> bs]
      /\ new.net = st.net /\ new.v = [st.v EXCEPT !.resolved = resolved] /\ new.blobs = bs
  <2>1. st = [net |-> st.net, v |-> st.v, blobs |-> st.blobs]
    BY <1>1
  <2>2. new = [st EXCEPT !.v.resolved = resolved, !.blobs = bs]
    BY DEF Obtained
  <2> HIDE DEF new, resolved, bs
  <2> QED BY <2>1, <2>2
<1>3. /\ new.v.shown = st.v.shown /\ new.v.index = st.v.index /\ new.v.resolved = resolved
      /\ new.v.fetching = st.v.fetching /\ new.v.waiting = st.v.waiting /\ new.v.loading = st.v.loading
      /\ new.v.failed = st.v.failed /\ new.v \in Viewers
  <2>1. resolved \in SUBSET Items
    BY <1>1 DEF Viewers
  <2> HIDE DEF resolved, new
  <2> QED BY <1>1, <1>2, <2>1 DEF Viewers
<1>4. \A j \in Items : <<"lightbox", j>> \in bs <=> j \in resolved
  BY <1>1 DEF Backed
<1>5. bs \subseteq (Slots \cup {"lightbox"}) \X Items
  BY <1>1 DEF Backed
<1>6. \A b : b[1] # "lightbox" => (b \in bs <=> b \in st.blobs)
  <2>1. <<"lightbox", k>>[1] = "lightbox"
    OBVIOUS
  <2> QED BY <2>1
<1>7. st.v.resolved \subseteq resolved /\ k \in resolved
  OBVIOUS
<1> HIDE DEF resolved, bs, new
<1>8. Backed(new.net.requests, new.v, new.blobs)
  BY <1>1, <1>2, <1>3, <1>4, <1>5 DEF Backed
<1>9. StOK(new)
  BY <1>1, <1>2, <1>3, <1>8 DEF StOK
<1>10. Follows(st, new)
  BY <1>2, <1>3, <1>6, <1>7 DEF Follows, Grown, SameFrame, OthersKept
<1>11. SameWait(st.v, new.v) /\ Has(new.v, k)
  BY <1>3, <1>7 DEF SameWait, Has
<1> QED BY <1>9, <1>10, <1>11 DEF new

\* More downloads, and one of them for an item.
LEMMA NetKeeps ==
  ASSUME NEW st, StOK(st), NEW net, NetOK(net), Grown(st.net.requests, net.requests)
  PROVE  /\ StOK([st EXCEPT !.net = net]) /\ Follows(st, [st EXCEPT !.net = net])
         /\ SameWait(st.v, [st EXCEPT !.net = net].v) /\ [st EXCEPT !.net = net].net = net
         /\ [st EXCEPT !.net = net].v = st.v /\ [st EXCEPT !.net = net].blobs = st.blobs
<1> DEFINE new == [st EXCEPT !.net = net]
<1>1. /\ st = [net |-> st.net, v |-> st.v, blobs |-> st.blobs] /\ st.v \in Viewers
      /\ Backed(st.net.requests, st.v, st.blobs)
  BY DEF StOK
<1>2. new = [net |-> net, v |-> st.v, blobs |-> st.blobs] /\ new.net = net /\ new.v = st.v /\ new.blobs = st.blobs
  BY <1>1
<1> HIDE DEF new
<1>3. Backed(net.requests, st.v, st.blobs)
  BY <1>1, GrownKeeps DEF Backed
<1>4. StOK(new)
  BY <1>1, <1>2, <1>3 DEF StOK
<1>5. Follows(st, new) /\ SameWait(st.v, new.v)
  BY <1>2 DEF Follows, SameFrame, SameWait, OthersKept
<1> QED BY <1>2, <1>4, <1>5 DEF new

\* The lightbox awaits a download.
LEMMA FetchingKeeps ==
  ASSUME NEW st, StOK(st), NEW k \in Paths, NEW r \in Nat, r >= 1, OnItsWay(st.net.requests, r, k)
  PROVE  /\ StOK([st EXCEPT !.v.fetching[k] = r]) /\ Follows(st, [st EXCEPT !.v.fetching[k] = r])
         /\ SameWait(st.v, [st EXCEPT !.v.fetching[k] = r].v) /\ Has([st EXCEPT !.v.fetching[k] = r].v, k)
<1> DEFINE new == [st EXCEPT !.v.fetching[k] = r]
           fetched == [st.v.fetching EXCEPT ![k] = r]
<1>1. /\ st = [net |-> st.net, v |-> st.v, blobs |-> st.blobs] /\ NetOK(st.net) /\ st.v \in Viewers
      /\ Backed(st.net.requests, st.v, st.blobs)
  BY DEF StOK
<1>2. st.v.fetching \in [Paths -> Nat]
  BY <1>1 DEF Viewers
<1>3. /\ new = [net |-> st.net, v |-> [st.v EXCEPT !.fetching = fetched], blobs |-> st.blobs]
      /\ new.net = st.net /\ new.v = [st.v EXCEPT !.fetching = fetched] /\ new.blobs = st.blobs
  BY <1>1
<1>4. fetched \in [Paths -> Nat] /\ fetched[k] = r /\ \A j \in Paths : j # k => fetched[j] = st.v.fetching[j]
  BY <1>2
<1> HIDE DEF fetched, new
<1>5. /\ new.v.shown = st.v.shown /\ new.v.index = st.v.index /\ new.v.resolved = st.v.resolved
      /\ new.v.fetching = fetched /\ new.v.waiting = st.v.waiting /\ new.v.loading = st.v.loading
      /\ new.v.failed = st.v.failed /\ new.v \in Viewers
  BY <1>1, <1>3, <1>4 DEF Viewers
<1>6. r # 0
  OBVIOUS
<1>7. Backed(new.net.requests, new.v, new.blobs)
  <2>1. ASSUME NEW j \in Paths, fetched[j] # 0 PROVE OnItsWay(st.net.requests, fetched[j], j)
    <3>1. CASE j = k
      BY <1>4, <3>1
    <3>2. CASE j # k
      BY <1>1, <1>4, <2>1, <3>2 DEF Backed
    <3> QED BY <3>1, <3>2
  <2> QED BY <1>1, <1>3, <1>5, <2>1 DEF Backed
<1>8. StOK(new)
  BY <1>1, <1>3, <1>5, <1>7 DEF StOK
<1>9. \A j \in Paths : st.v.fetching[j] # 0 => fetched[j] # 0
  BY <1>4, <1>6
<1>10. Follows(st, new) /\ SameWait(st.v, new.v)
  BY <1>3, <1>5, <1>9 DEF Follows, Grown, SameFrame, SameWait, OthersKept
<1>11. Has(new.v, k)
  BY <1>4, <1>5, <1>6 DEF Has
<1> QED BY <1>8, <1>10, <1>11 DEF new

\* resolveItem.
LEMMA FetchKeeps ==
  ASSUME NEW st, StOK(st), NEW k \in Items
  PROVE  /\ StOK(Fetch(st, k)) /\ Follows(st, Fetch(st, k)) /\ SameWait(st.v, Fetch(st, k).v)
         /\ Has(Fetch(st, k).v, k)
<1> DEFINE r == Asked(st.net, k)
           net == Ask(st.net, k)
<1>1. CASE k \in st.v.resolved
  <2>1. Fetch(st, k) = st
    BY <1>1 DEF Fetch
  <2> QED BY <1>1, <2>1, FollowsItself DEF Has
<1>2. CASE k \in Local \ st.v.resolved
  <2>1. Fetch(st, k) = Obtained(st, k)
    BY <1>2, ViewerSets DEF Fetch
  <2> QED BY <2>1, ObtainedKeeps
<1>3. CASE k \in Paths \ st.v.resolved /\ st.v.fetching[k] # 0
  <2>1. Fetch(st, k) = st
    BY <1>3, ViewerSets DEF Fetch
  <2> QED BY <1>3, <2>1, FollowsItself DEF Has
<1>4. CASE k \in Paths \ st.v.resolved /\ st.v.fetching[k] = 0
  <2>1. Fetch(st, k) = IF net.requests[r].state = "ready" THEN Obtained([st EXCEPT !.net = net], k)
                       ELSE [st EXCEPT !.net = net, !.v.fetching[k] = r]
    BY <1>4, ViewerSets DEF Fetch
  <2>2. /\ NetOK(net) /\ Grown(st.net.requests, net.requests) /\ r \in Nat /\ r >= 1 /\ r \in DOMAIN net.requests
        /\ net.requests[r].path = k /\ net.requests[r].state \in {"loading", "ready"}
    <3>1. NetOK(st.net) /\ k \in Paths
      BY <1>4 DEF StOK
    <3> QED BY <3>1, AskKeeps
  <2> DEFINE mid == [st EXCEPT !.net = net]
  <2>3. /\ StOK(mid) /\ Follows(st, mid) /\ SameWait(st.v, mid.v) /\ mid.net = net
    BY <2>2, NetKeeps
  <2>4. [st EXCEPT !.net = net, !.v.fetching[k] = r] = [mid EXCEPT !.v.fetching[k] = r]
    <3>1. st = [net |-> st.net, v |-> st.v, blobs |-> st.blobs]
      BY DEF StOK
    <3> HIDE DEF net, r
    <3> QED BY <3>1
  <2> HIDE DEF mid, net, r
  <2>5. ASSUME NEW new, StOK(new), Follows(mid, new), SameWait(mid.v, new.v), Has(new.v, k)
        PROVE  StOK(new) /\ Follows(st, new) /\ SameWait(st.v, new.v) /\ Has(new.v, k)
    BY <2>3, <2>5, FollowsOn DEF SameWait
  <2>6. CASE net.requests[r].state = "ready"
    <3>1. Fetch(st, k) = Obtained(mid, k)
      BY <2>1, <2>6 DEF mid
    <3> QED BY <2>3, <2>5, <3>1, ObtainedKeeps
  <2>7. CASE net.requests[r].state # "ready"
    <3>1. Fetch(st, k) = [mid EXCEPT !.v.fetching[k] = r]
      BY <2>1, <2>4, <2>7
    <3>2. OnItsWay(mid.net.requests, r, k)
      BY <2>2, <2>3, <2>7 DEF OnItsWay
    <3>3. k \in Paths
      BY <1>4
    <3>4. /\ StOK(Fetch(st, k)) /\ Follows(mid, Fetch(st, k)) /\ SameWait(mid.v, Fetch(st, k).v)
          /\ Has(Fetch(st, k).v, k)
      BY <2>2, <2>3, <3>1, <3>2, <3>3, FetchingKeeps
    <3> QED BY <2>5, <3>4
  <2> QED BY <2>6, <2>7
<1> QED BY <1>1, <1>2, <1>3, <1>4, ViewerSets

\* The neighbours of an item are found by remainders.
LEMMA Remainder == ASSUME NEW a \in Int, NEW n \in Nat, n > 0 PROVE a % n \in 0..(n - 1)
OBVIOUS

\* What the lightbox says of the item it shows.
Told(v) ==
  /\ v.shown[IF v.index <= Len(v.shown) THEN v.index ELSE 1] \in v.resolved \/ v.loading \/ v.failed
  /\ v.loading => /\ v.index <= Len(v.shown) /\ v.waiting = v.shown[v.index]
                  /\ v.waiting \in Paths /\ v.fetching[v.waiting] # 0

\* What the lightbox says stays true while more is fetched.
LEMMA ToldOn == ASSUME NEW v, NEW new, Told(v), SameFrame(v, new), SameWait(v, new) PROVE Told(new)
<1>1. /\ new.shown = v.shown /\ new.index = v.index /\ v.resolved \subseteq new.resolved
      /\ new.waiting = v.waiting /\ new.loading = v.loading /\ new.failed = v.failed
      /\ \A k \in Paths : v.fetching[k] # 0 => new.fetching[k] # 0
  BY DEF SameFrame, SameWait
<1> QED BY <1>1 DEF Told

\* A gallery is a list of items, and not an empty one.
LEMMA GalleryIs ==
  ASSUME NEW g \in Galleries
  PROVE  /\ g \in Seq(Items) /\ Len(g) \in Nat /\ Len(g) >= 1 /\ Len(g) <= MaxShown /\ DOMAIN g = 1..Len(g)
         /\ \A i \in 1..Len(g) : g[i] \in Items
         /\ g # <<>>
<1>1. PICK n \in 1..MaxShown : g \in [1..n -> Items]
  BY DEF Galleries
<1>2. n \in Nat /\ n >= 1 /\ n <= MaxShown
  BY ViewerSets
<1> QED BY <1>1, <1>2

Saying(st, l, f, w) == [st EXCEPT !.v.loading = l, !.v.failed = f, !.v.waiting = w]
Sayable(l, f, w) == l \in BOOLEAN /\ f \in BOOLEAN /\ w \in Paths \cup {None}
\* The lightbox says something else of the item it shows.
LEMMA WaitKeeps ==
  ASSUME NEW st, NEW l, NEW f, NEW w, StOK(st), Sayable(l, f, w)
  PROVE  LET new == Saying(st, l, f, w)
         IN  /\ StOK(new) /\ Follows(st, new)
             /\ new.v.loading = l /\ new.v.failed = f /\ new.v.waiting = w
             /\ new.v.shown = st.v.shown /\ new.v.index = st.v.index /\ new.v.resolved = st.v.resolved
             /\ new.v.fetching = st.v.fetching
<1> DEFINE new == Saying(st, l, f, w)
<1>1. /\ st = [net |-> st.net, v |-> st.v, blobs |-> st.blobs] /\ NetOK(st.net) /\ st.v \in Viewers
      /\ Backed(st.net.requests, st.v, st.blobs)
  BY DEF StOK
<1> DEFINE u == [st.v EXCEPT !.loading = l, !.failed = f, !.waiting = w]
<1>2. new = [net |-> st.net, v |-> u, blobs |-> st.blobs] /\ new.net = st.net /\ new.v = u /\ new.blobs = st.blobs
  <2>1. st = [net |-> st.net, v |-> st.v, blobs |-> st.blobs]
    BY <1>1
  <2>2. new = [st EXCEPT !.v.loading = l, !.v.failed = f, !.v.waiting = w]
    BY DEF Saying
  <2> HIDE DEF new
  <2> QED BY <2>1, <2>2
<1>3. /\ u.loading = l /\ u.failed = f /\ u.waiting = w /\ u.shown = st.v.shown /\ u.index = st.v.index
      /\ u.resolved = st.v.resolved /\ u.fetching = st.v.fetching /\ u \in Viewers
  BY <1>1 DEF Viewers, Sayable
<1> HIDE DEF u, new
<1>4. Backed(new.net.requests, new.v, new.blobs)
  BY <1>1, <1>2, <1>3 DEF Backed
<1>5. StOK(new)
  BY <1>1, <1>2, <1>3, <1>4 DEF StOK
<1>6. Follows(st, new)
  BY <1>2, <1>3 DEF Follows, Grown, SameFrame, OthersKept
<1> QED BY <1>2, <1>3, <1>5, <1>6 DEF new

\* The item it shows is there, or a spinner is.
LEMMA ShowItemKeeps ==
  ASSUME NEW st, StOK(st), st.v.index <= Len(st.v.shown), NEW k \in Items, k = st.v.shown[st.v.index]
  PROVE  StOK(ShowItem(st, k)) /\ Follows(st, ShowItem(st, k)) /\ Told(ShowItem(st, k).v)
<1> DEFINE fetched == Fetch(st, k)
           there == k \in fetched.v.resolved
           l == ~there
           w == IF there THEN None ELSE k
           no == FALSE
           new == Saying(fetched, l, no, w)
<1>1. StOK(fetched) /\ Follows(st, fetched) /\ Has(fetched.v, k)
  BY FetchKeeps
<1>2. ShowItem(st, k) = new
  BY DEF ShowItem, Saying
<1> HIDE DEF fetched
<1>3. l \in BOOLEAN /\ no \in BOOLEAN /\ w \in Paths \cup {None} /\ (l <=> ~there)
  BY <1>1 DEF Has
<1>4. there \/ (w = k /\ k \in Paths /\ fetched.v.fetching[k] # 0)
  BY <1>1 DEF Has
<1> HIDE DEF l, no, w
<1>6. /\ StOK(new) /\ Follows(fetched, new) /\ new.v.loading = l /\ new.v.waiting = w
      /\ new.v.shown = fetched.v.shown /\ new.v.index = fetched.v.index /\ new.v.resolved = fetched.v.resolved
      /\ new.v.fetching = fetched.v.fetching
  <2>1. StOK(fetched) /\ Sayable(l, no, w)
    BY <1>1, <1>3 DEF Sayable
  <2> QED BY <2>1, WaitKeeps
<1> HIDE DEF new
<1>7. new.v.shown = st.v.shown /\ new.v.index = st.v.index
  BY <1>1, <1>6 DEF Follows, SameFrame
<1>8. new.v.index <= Len(new.v.shown) /\ new.v.shown[new.v.index] = k
  BY <1>7
<1>9. (new.v.loading <=> ~there) /\ (k \in new.v.resolved <=> there)
  BY <1>3, <1>6
<1>10. Told(new.v)
  BY <1>4, <1>6, <1>8, <1>9 DEF Told
<1>11. Follows(st, new)
  BY <1>1, <1>6, FollowsOn
<1> QED BY <1>2, <1>6, <1>10, <1>11

\* The effect as a whole.
LEMMA LoadKeeps ==
  ASSUME NEW st, StOK(st)
  PROVE  StOK(Load(st)) /\ Follows(st, Load(st)) /\ Told(Load(st).v)
<1> DEFINE n == Len(st.v.shown)
           next == st.v.shown[(st.v.index % n) + 1]
           prev == st.v.shown[((st.v.index + n - 2) % n) + 1]
           no == FALSE
           yes == TRUE
           gone == Saying(st, no, yes, None)
           current == IF st.v.index <= n THEN ShowItem(st, st.v.shown[st.v.index]) ELSE gone
<1>1. Load(st) = IF n > 1 THEN Fetch(Fetch(current, next), prev) ELSE current
  BY DEF Load, Saying
<1>2. /\ n \in Nat /\ n >= 1 /\ st.v.index \in Nat /\ st.v.index >= 1
      /\ \A i \in 1..n : st.v.shown[i] \in Items
  <2>1. st.v \in Viewers
    BY DEF StOK
  <2>2. st.v.shown \in Galleries /\ st.v.index \in 1..MaxShown
    BY <2>1 DEF Viewers
  <2>3. st.v.index \in Nat /\ st.v.index >= 1
    BY <2>2, ViewerSets
  <2> QED BY <2>2, <2>3, GalleryIs
<1>3. next \in Items /\ prev \in Items
  <2>1. st.v.index % n \in 0..(n - 1) /\ (st.v.index + n - 2) % n \in 0..(n - 1)
    <3>1. st.v.index \in Int /\ n \in Nat /\ n > 0
      BY <1>2
    <3> HIDE DEF n
    <3>2. st.v.index + n - 2 \in Int
      BY <3>1
    <3> QED BY <3>1, <3>2, Remainder
  <2> HIDE DEF n
  <2>2. (st.v.index % n) + 1 \in 1..n /\ ((st.v.index + n - 2) % n) + 1 \in 1..n
    BY <1>2, <2>1
  <2> QED BY <1>2, <2>2
<1>4. StOK(current) /\ Follows(st, current) /\ Told(current.v)
  <2>1. CASE st.v.index <= n
    <3>1. st.v.shown[st.v.index] \in Items
      BY <1>2, <2>1
    <3>2. current = ShowItem(st, st.v.shown[st.v.index])
      BY <2>1
    <3> HIDE DEF current
    <3> QED BY <2>1, <3>1, <3>2, ShowItemKeeps
  <2>2. CASE ~(st.v.index <= n)
    <3>1. current = gone
      BY <2>2
    <3>2. Sayable(no, yes, None)
      BY DEF Sayable
    <3>5. no = FALSE /\ yes = TRUE
      OBVIOUS
    <3> HIDE DEF current, no, yes
    <3>3. StOK(gone) /\ Follows(st, gone) /\ gone.v.loading = no /\ gone.v.failed = yes
      BY <3>2, WaitKeeps
    <3> HIDE DEF gone
    <3>4. Told(gone.v)
      BY <3>3, <3>5 DEF Told
    <3> QED BY <3>1, <3>3, <3>4
  <2> QED BY <2>1, <2>2
<1> HIDE DEF current, next, prev
<1>5. CASE n > 1
  <2> DEFINE a == Fetch(current, next)
             b == Fetch(a, prev)
  <2>1. StOK(a) /\ Follows(current, a) /\ SameWait(current.v, a.v)
    BY <1>3, <1>4, FetchKeeps
  <2> HIDE DEF a
  <2>2. StOK(b) /\ Follows(a, b) /\ SameWait(a.v, b.v)
    BY <1>3, <2>1, FetchKeeps
  <2> HIDE DEF b
  <2>3. Told(a.v)
    BY <1>4, <2>1, ToldOn DEF Follows
  <2>4. Told(b.v)
    BY <2>2, <2>3, ToldOn DEF Follows
  <2>5. Follows(st, a)
    BY <1>4, <2>1, FollowsOn
  <2>6. Follows(st, b)
    BY <2>2, <2>5, FollowsOn
  <2>7. Load(st) = b
    BY <1>1, <1>5 DEF a, b
  <2> QED BY <2>2, <2>4, <2>6, <2>7
<1>6. CASE ~(n > 1)
  <2>1. Load(st) = current
    BY <1>1, <1>6
  <2> QED BY <1>4, <2>1
<1> QED BY <1>5, <1>6

\* The lightbox, and a thumbnail, among the downloads and the object URLs.
LightboxOK(rs, v, bs) ==
  /\ IF v.shown # <<>> THEN v \in Viewers /\ Told(v) ELSE v = Closed
  /\ Backed(rs, v, bs)
Thumbs == [path : Paths \cup {None}, request : Nat, state : {"off", "loading", "shown", "error"}]
ThumbOK(rs, th, s, bs) ==
  /\ th \in Thumbs /\ (th.state # "off" => th.path \in Paths)
  /\ th.request # 0 => OnItsWay(rs, th.request, th.path) /\ th.state = "loading"
  /\ \A x \in Items : <<s, x>> \in bs <=> (th.state = "shown" /\ th.path = x)

ViewerInv ==
  /\ NetOK(Net) /\ Len(requests) <= MaxRequests
  /\ LightboxOK(requests, viewer, blobs)
  /\ thumbs = [s \in Slots |-> thumbs[s]] /\ \A s \in Slots : ThumbOK(requests, thumbs[s], s, blobs)
  /\ late \subseteq Requests

\* What the invariant says of the viewer, by name.
LEMMA ViewerFacts ==
  ASSUME ViewerInv
  PROVE  /\ NetOK(Net) /\ Net.requests = requests /\ Net.cache = cache
         /\ requests \in Seq(Downloads) /\ Len(requests) \in Nat /\ DOMAIN requests = 1..Len(requests)
         /\ Len(requests) <= MaxRequests /\ DOMAIN requests \subseteq Requests
         /\ cache \in Seq(Fine(requests)) /\ Len(cache) <= MaxCached
         /\ LightboxOK(requests, viewer, blobs) /\ Backed(requests, viewer, blobs)
         /\ IsOpen => viewer \in Viewers /\ Told(viewer)
         /\ ~IsOpen => viewer = Closed
         /\ thumbs = [s \in Slots |-> thumbs[s]]
         /\ \A s \in Slots : ThumbOK(requests, thumbs[s], s, blobs)
         /\ late \subseteq Requests
<1>1. Net.requests = requests /\ Net.cache = cache
  BY DEF Net
<1>2. requests \in Seq(Downloads) /\ cache \in Seq(Fine(requests)) /\ Len(cache) <= MaxCached
  BY <1>1 DEF ViewerInv, NetOK
<1>3. Len(requests) \in Nat /\ DOMAIN requests = 1..Len(requests)
  BY <1>2
<1>4. DOMAIN requests \subseteq Requests
  BY <1>3, ViewerSets DEF ViewerInv, Requests
<1>5. Backed(requests, viewer, blobs) /\ (IsOpen => viewer \in Viewers /\ Told(viewer)) /\ (~IsOpen => viewer = Closed)
  BY DEF ViewerInv, LightboxOK, IsOpen
<1> QED BY <1>1, <1>2, <1>3, <1>4, <1>5 DEF ViewerInv

\* Downloads that are added, and the object URLs of another viewer, change
\* nothing for a thumbnail.
LEMMA ThumbStays ==
  ASSUME NEW rs, NEW new, Grown(rs, new), NEW bs, NEW cs, NEW s, NEW th, ThumbOK(rs, th, s, bs),
         \A x \in Items : <<s, x>> \in bs <=> <<s, x>> \in cs
  PROVE  ThumbOK(new, th, s, cs)
BY GrownKeeps DEF ThumbOK

\* Rendering the lightbox keeps the invariant.
LEMMA RenderKeeps ==
  ASSUME ViewerInv, NEW v \in Viewers, Backed(requests, v, blobs), Render(v)
  PROVE  ViewerInv'
<1> DEFINE st == [net |-> Net, v |-> v, blobs |-> blobs]
           new == Load(st)
<1>1. st.net = Net /\ st.v = v /\ st.blobs = blobs
  OBVIOUS
<1>2. StOK(st)
  BY <1>1, ViewerFacts DEF StOK
<1>3. /\ Len(new.net.requests) <= MaxRequests /\ requests' = new.net.requests /\ cache' = new.net.cache
      /\ viewer' = new.v /\ blobs' = new.blobs /\ late' = late /\ thumbs' = thumbs
  BY DEF Render, Within
<1> HIDE DEF st
<1>4. StOK(new) /\ Follows(st, new) /\ Told(new.v)
  BY <1>2, LoadKeeps
<1> HIDE DEF new
<1>5. NetOK(new.net) /\ new.v \in Viewers /\ Backed(new.net.requests, new.v, new.blobs)
  BY <1>4 DEF StOK
<1>6. NetOK(Net')
  <2>1. new.net = [requests |-> new.net.requests, cache |-> new.net.cache]
    BY <1>5 DEF NetOK
  <2>2. Net' = new.net
    BY <1>3, <2>1 DEF Net
  <2> QED BY <1>5, <2>2
<1>7. LightboxOK(requests', viewer', blobs')
  <2>1. new.v.shown # <<>>
    BY <1>5, GalleryIs DEF Viewers
  <2> QED BY <1>3, <1>4, <1>5, <2>1 DEF LightboxOK
<1>8. \A s \in Slots : ThumbOK(requests', thumbs'[s], s, blobs')
  <2> SUFFICES ASSUME NEW s \in Slots PROVE ThumbOK(requests', thumbs[s], s, blobs')
    BY <1>3
  <2>1. Grown(requests, requests')
    BY <1>1, <1>3, <1>4, ViewerFacts DEF Follows
  <2>2. OthersKept(blobs, blobs')
    BY <1>1, <1>3, <1>4 DEF Follows
  <2>3. \A x \in Items : <<s, x>> \in blobs <=> <<s, x>> \in blobs'
    <3>1. s # "lightbox"
      BY ViewerSets
    <3> QED BY <2>2, <3>1 DEF OthersKept
  <2>4. ThumbOK(requests, thumbs[s], s, blobs)
    BY ViewerFacts
  <2> QED BY <2>1, <2>3, <2>4, ThumbStays
<1>9. thumbs' = [s \in Slots |-> thumbs'[s]] /\ late' \subseteq Requests /\ Len(requests') <= MaxRequests
  BY <1>3, ViewerFacts
<1> QED BY <1>6, <1>7, <1>8, <1>9 DEF ViewerInv

\* What opens, turns or replaces.
LEMMA ReframedKeeps ==
  ASSUME ViewerInv, NEW g \in Galleries, NEW i \in 1..MaxShown, NEW v,
         v = [viewer EXCEPT !.shown = g, !.index = i]
  PROVE  v \in Viewers /\ Backed(requests, v, blobs)
<1>1. /\ v.shown = g /\ v.index = i /\ v.resolved = viewer.resolved /\ v.fetching = viewer.fetching
      /\ v \in Viewers
  <2>1. CASE IsOpen
    <3>1. viewer \in Viewers
      BY <2>1, ViewerFacts
    <3> QED BY <3>1 DEF Viewers
  <2>2. CASE ~IsOpen
    <3>1. viewer = Closed
      BY <2>2, ViewerFacts
    <3>3. v = [shown |-> g, index |-> i, resolved |-> {}, fetching |-> [k \in Paths |-> 0],
               waiting |-> None, loading |-> FALSE, failed |-> FALSE]
      BY <3>1 DEF Closed
    <3>4. v.shown = g /\ v.index = i /\ v.resolved = viewer.resolved /\ v.fetching = viewer.fetching
      BY <3>1, <3>3 DEF Closed
    <3>5. v \in Viewers
      <4> DEFINE z == [k \in Paths |-> 0]
      <4>1. z \in [Paths -> Nat] /\ {} \in SUBSET Items /\ FALSE \in BOOLEAN /\ None \in Paths \cup {None}
        OBVIOUS
      <4>2. v = [shown |-> g, index |-> i, resolved |-> {}, fetching |-> z, waiting |-> None, loading |-> FALSE,
                 failed |-> FALSE]
        BY <3>3
      <4> HIDE DEF z
      <4>3. [shown |-> g, index |-> i, resolved |-> {}, fetching |-> z, waiting |-> None, loading |-> FALSE,
             failed |-> FALSE] \in Viewers
        BY <4>1 DEF Viewers
      <4> QED BY <4>2, <4>3
    <3> QED BY <3>4, <3>5
  <2> QED BY <2>1, <2>2
<1>2. Backed(requests, viewer, blobs)
  BY ViewerFacts
<1> QED BY <1>1, <1>2 DEF Backed

\* The lightbox is opened.
LEMMA OpenKeeps ==
  ASSUME ViewerInv, NEW gallery \in Galleries, NEW i \in DOMAIN gallery, Open(gallery, i)
  PROVE  ViewerInv'
<1> DEFINE v == [viewer EXCEPT !.shown = gallery, !.index = i]
<1>1. viewer = Closed
  BY ViewerFacts DEF Open
<1>2. Render(v)
  BY <1>1 DEF Open
<1>3. i \in 1..MaxShown
  BY GalleryIs, ViewerSets
<1>4. v \in Viewers /\ Backed(requests, v, blobs)
  BY <1>3, ReframedKeeps
<1> HIDE DEF v
<1> QED BY <1>2, <1>4, RenderKeeps

\* What is known of an open lightbox.
LEMMA OpenViewer ==
  ASSUME ViewerInv, viewer.shown # <<>>
  PROVE  /\ viewer \in Viewers /\ viewer.shown \in Galleries /\ viewer.index \in 1..MaxShown
         /\ \A g, i : [viewer EXCEPT !.shown = g, !.index = i].shown = g
         /\ \A g : [viewer EXCEPT !.shown = g] = [viewer EXCEPT !.shown = g, !.index = viewer.index]
         /\ \A i : [viewer EXCEPT !.index = i] = [viewer EXCEPT !.shown = viewer.shown, !.index = i]
<1>1. viewer \in Viewers
  BY ViewerFacts DEF IsOpen
<1> QED BY <1>1 DEF Viewers

\* Another item of the gallery is shown.
LEMMA TurnKeeps ==
  ASSUME ViewerInv, NEW step \in {1, -1}, Turn(step)
  PROVE  ViewerInv'
<1> DEFINE n == Len(viewer.shown)
           old == viewer.index
           i == IF step = 1 THEN IF old < n THEN old + 1 ELSE 1 ELSE IF old > 1 THEN old - 1 ELSE n
           v == [viewer EXCEPT !.index = i]
<1>1. n > 1 /\ Render(v)
  BY DEF Turn
<1>2. viewer.shown # <<>>
  <2>1. CASE viewer.shown = <<>>
    BY <1>1, <2>1
  <2> QED BY <2>1
<1>3. viewer.shown \in Galleries /\ old \in 1..MaxShown /\ v = [viewer EXCEPT !.shown = viewer.shown, !.index = i]
  BY <1>2, OpenViewer
<1>4. n \in Nat /\ n >= 1 /\ n <= MaxShown /\ MaxShown \in Nat
  BY <1>3, GalleryIs, ViewerSets
<1> HIDE DEF n, old
<1>5. i \in 1..MaxShown
  BY <1>3, <1>4
<1> HIDE DEF i
<1>6. v \in Viewers /\ Backed(requests, v, blobs)
  BY <1>3, <1>5, ReframedKeeps
<1> HIDE DEF v
<1> QED BY <1>1, <1>6, RenderKeeps

\* The gallery becomes longer or shorter while it is shown.
LEMMA ReplaceItemsKeeps ==
  ASSUME ViewerInv, NEW gallery \in Galleries, ReplaceItems(gallery)
  PROVE  ViewerInv'
<1> DEFINE v == [viewer EXCEPT !.shown = gallery]
<1>1. viewer.shown # <<>> /\ Render(v)
  BY DEF ReplaceItems, IsOpen
<1>2. viewer.index \in 1..MaxShown /\ v = [viewer EXCEPT !.shown = gallery, !.index = viewer.index]
  BY <1>1, OpenViewer
<1>3. v \in Viewers /\ Backed(requests, v, blobs)
  BY <1>2, ReframedKeeps
<1> HIDE DEF v
<1> QED BY <1>1, <1>3, RenderKeeps

\* A lightbox that is closed.
LEMMA ClosedIs ==
  /\ Closed.shown = <<>> /\ Closed.index = 1 /\ Closed.resolved = {} /\ Closed.fetching = [k \in Paths |-> 0]
  /\ Closed.waiting = None /\ Closed.loading = FALSE /\ Closed.failed = FALSE
  /\ \A k \in Paths : Closed.fetching[k] = 0
BY DEF Closed

\* The lightbox is closed, whatever it awaits.
LEMMA CloseKeeps ==
  ASSUME ViewerInv, Close
  PROVE  ViewerInv'
<1>1. /\ viewer' = Closed /\ requests' = requests /\ cache' = cache /\ thumbs' = thumbs
      /\ late' = late \cup {viewer.fetching[k] : k \in {p \in Paths : viewer.fetching[p] # 0}}
      /\ blobs' = {b \in blobs : b[1] # "lightbox"}
  BY DEF Close
<1>2. late' \subseteq Requests
  <2>1. \A k \in Paths : viewer.fetching[k] # 0 => viewer.fetching[k] \in Requests
    BY ViewerFacts DEF Backed, OnItsWay
  <2> QED BY <1>1, <2>1, ViewerFacts
<1>3. LightboxOK(requests', viewer', blobs')
  <2>1. \A k \in Items : <<"lightbox", k>> \notin blobs'
    BY <1>1
  <2>2. blobs' \subseteq (Slots \cup {"lightbox"}) \X Items
    BY <1>1, ViewerFacts DEF Backed
  <2>3. Backed(requests', viewer', blobs')
    BY <1>1, <2>1, <2>2, ClosedIs DEF Backed
  <2> QED BY <1>1, <2>3, ClosedIs DEF LightboxOK
<1>4. \A s \in Slots : ThumbOK(requests', thumbs'[s], s, blobs')
  <2> SUFFICES ASSUME NEW s \in Slots PROVE ThumbOK(requests, thumbs[s], s, blobs')
    BY <1>1
  <2>1. \A x \in Items : <<s, x>> \in blobs <=> <<s, x>> \in blobs'
    <3>1. s # "lightbox"
      BY ViewerSets
    <3> QED BY <1>1, <3>1
  <2>2. Grown(requests, requests)
    BY DEF Grown
  <2>3. ThumbOK(requests, thumbs[s], s, blobs)
    BY ViewerFacts
  <2> QED BY <2>1, <2>2, <2>3, ThumbStays
<1>5. NetOK(Net')
  BY <1>1, ViewerFacts DEF Net
<1> QED BY <1>1, <1>2, <1>3, <1>4, <1>5, ViewerFacts DEF ViewerInv

\* A thumbnail that gets another path.
LEMMA ShowThumbKeeps ==
  ASSUME ViewerInv, NEW s \in Slots, NEW p \in Paths, ShowThumb(s, p)
  PROVE  ViewerInv'
<1> DEFINE net == Ask(Net, p)
           r == Asked(Net, p)
           ready == net.requests[r].state = "ready"
           others == {b \in blobs : b[1] # s}
           th == [path |-> p, request |-> IF ready THEN 0 ELSE r, state |-> IF ready THEN "shown" ELSE "loading"]
<1>1. /\ Len(net.requests) <= MaxRequests /\ requests' = net.requests /\ cache' = net.cache
      /\ thumbs' = [thumbs EXCEPT ![s] = th]
      /\ blobs' = IF ready THEN others \cup {<<s, p>>} ELSE others
      /\ viewer' = viewer /\ late' = late
  BY DEF ShowThumb, Within
<1>2. /\ NetOK(net) /\ Grown(requests, net.requests) /\ r \in Nat /\ r >= 1 /\ r \in DOMAIN net.requests
      /\ net.requests[r].path = p /\ net.requests[r].state \in {"loading", "ready"}
  BY ViewerFacts, AskKeeps
<1>3. p \in Items /\ s # "lightbox"
  BY ViewerSets DEF Items
<1>4. /\ \A x \in Items : <<s, x>> \in blobs' <=> (ready /\ x = p)
      /\ \A b : b[1] # s => (b \in blobs' <=> b \in blobs)
      /\ blobs' \subseteq (Slots \cup {"lightbox"}) \X Items
  <2>1. \A b : b \in others <=> (b \in blobs /\ b[1] # s)
    OBVIOUS
  <2>2. \A x : <<s, x>>[1] = s /\ <<s, x>> \notin others
    OBVIOUS
  <2>3. <<s, p>> \in (Slots \cup {"lightbox"}) \X Items /\ <<s, p>>[1] = s
    BY <1>3
  <2>4. blobs \subseteq (Slots \cup {"lightbox"}) \X Items
    BY ViewerFacts DEF Backed
  <2> HIDE DEF ready, others
  <2>5. \A x : <<s, x>> = <<s, p>> <=> x = p
    OBVIOUS
  <2> QED BY <1>1, <2>1, <2>2, <2>3, <2>4, <2>5
<1>5. th \in Thumbs /\ th.path = p /\ (th.request # 0 => th.request = r /\ ~ready /\ th.state = "loading")
      /\ (th.state = "shown" <=> ready)
  BY <1>2 DEF Thumbs
<1>6. thumbs' = [t \in Slots |-> IF t = s THEN th ELSE thumbs[t]]
  BY <1>1, ViewerFacts
<1> HIDE DEF th
<1>7. ~ready => OnItsWay(net.requests, r, p)
  BY <1>2 DEF OnItsWay
<1> HIDE DEF ready, net, r, others
<1>8. \A t \in Slots : ThumbOK(requests', thumbs'[t], t, blobs')
  <2> SUFFICES ASSUME NEW t \in Slots PROVE ThumbOK(requests', thumbs'[t], t, blobs')
    OBVIOUS
  <2>1. CASE t = s
    <3>1. thumbs'[t] = th
      BY <1>6, <2>1
    <3>2. \A x \in Items : <<s, x>> \in blobs' <=> (th.state = "shown" /\ th.path = x)
      BY <1>4, <1>5
    <3>3. ThumbOK(net.requests, th, s, blobs')
      BY <1>5, <1>7, <3>2 DEF ThumbOK
    <3> QED BY <1>1, <2>1, <3>1, <3>3
  <2>2. CASE t # s
    <3>1. thumbs'[t] = thumbs[t]
      BY <1>6, <2>2
    <3>2. \A x \in Items : <<t, x>> \in blobs <=> <<t, x>> \in blobs'
      BY <1>4, <2>2
    <3>3. ThumbOK(requests, thumbs[t], t, blobs)
      BY ViewerFacts
    <3>4. ThumbOK(net.requests, thumbs[t], t, blobs')
      BY <1>2, <3>2, <3>3, ThumbStays
    <3> QED BY <1>1, <3>1, <3>4
  <2> QED BY <2>1, <2>2
<1>9. LightboxOK(requests', viewer', blobs')
  <2>1. \A k \in Items : <<"lightbox", k>> \in blobs' <=> <<"lightbox", k>> \in blobs
    BY <1>3, <1>4
  <2>2. Backed(requests, viewer, blobs)
    BY ViewerFacts
  <2>3. Backed(net.requests, viewer, blobs')
    BY <1>2, <1>4, <2>1, <2>2, GrownKeeps DEF Backed
  <2> QED BY <1>1, <2>3, ViewerFacts DEF LightboxOK
<1>10. NetOK(Net')
  <2>1. net = [requests |-> net.requests, cache |-> net.cache]
    BY <1>2 DEF NetOK
  <2>2. Net' = net
    BY <1>1, <2>1 DEF Net
  <2> QED BY <1>2, <2>2
<1>11. thumbs' = [t \in Slots |-> thumbs'[t]]
  BY <1>6
<1> QED BY <1>1, <1>8, <1>9, <1>10, <1>11, ViewerFacts DEF ViewerInv

\* A thumbnail goes.
LEMMA HideThumbKeeps ==
  ASSUME ViewerInv, NEW s \in Slots, HideThumb(s)
  PROVE  ViewerInv'
<1>1. /\ thumbs' = [thumbs EXCEPT ![s] = NoThumb] /\ blobs' = {b \in blobs : b[1] # s}
      /\ UNCHANGED <<requests, cache, viewer, late>>
  BY DEF HideThumb
<1>2. thumbs' = [t \in Slots |-> IF t = s THEN NoThumb ELSE thumbs[t]]
  BY <1>1, ViewerFacts
<1>3. s # "lightbox"
  BY ViewerSets
<1>4. /\ \A x : <<s, x>> \notin blobs'
      /\ \A b : b[1] # s => (b \in blobs' <=> b \in blobs)
      /\ blobs' \subseteq (Slots \cup {"lightbox"}) \X Items
  BY <1>1, ViewerFacts DEF Backed
<1>5. \A t \in Slots : ThumbOK(requests, thumbs'[t], t, blobs')
  <2> SUFFICES ASSUME NEW t \in Slots PROVE ThumbOK(requests, thumbs'[t], t, blobs')
    OBVIOUS
  <2>1. CASE t = s
    <3>1. thumbs'[t] = NoThumb
      BY <1>2, <2>1
    <3>2. NoThumb \in Thumbs /\ NoThumb.state = "off" /\ NoThumb.request = 0
      BY DEF NoThumb, Thumbs
    <3> QED BY <1>4, <2>1, <3>1, <3>2 DEF ThumbOK
  <2>2. CASE t # s
    <3>1. thumbs'[t] = thumbs[t]
      BY <1>2, <2>2
    <3>2. \A x \in Items : <<t, x>> \in blobs <=> <<t, x>> \in blobs'
      BY <1>4, <2>2
    <3>3. ThumbOK(requests, thumbs[t], t, blobs) /\ Grown(requests, requests)
      BY ViewerFacts DEF Grown
    <3> QED BY <3>1, <3>2, <3>3, ThumbStays
  <2> QED BY <2>1, <2>2
<1>6. LightboxOK(requests, viewer, blobs')
  <2>1. \A k \in Items : <<"lightbox", k>> \in blobs' <=> <<"lightbox", k>> \in blobs
    BY <1>3, <1>4
  <2>2. Backed(requests, viewer, blobs)
    BY ViewerFacts
  <2>3. Backed(requests, viewer, blobs')
    BY <1>4, <2>1, <2>2 DEF Backed
  <2> QED BY <2>3, ViewerFacts DEF LightboxOK
<1>7. thumbs' = [t \in Slots |-> thumbs'[t]]
  BY <1>2
<1>8. NetOK(Net')
  BY <1>1, ViewerFacts DEF Net
<1> QED BY <1>1, <1>5, <1>6, <1>7, <1>8, ViewerFacts DEF ViewerInv

\* The entries of other files.
LEMMA OtherKeeps ==
  ASSUME ViewerInv, NEW p
  PROVE  /\ Other(cache, p) \in Seq({r \in Fine(requests) : requests[r].path # p})
         /\ Len(Other(cache, p)) <= MaxCached
<1> DEFINE P == {n \in DOMAIN cache : requests[cache[n]].path # p}
           f == Filtered(cache, P)
           V == {r \in Fine(requests) : requests[r].path # p}
<1>1. cache \in Seq(Fine(requests)) /\ Len(cache) <= MaxCached /\ Len(cache) \in Nat
  BY ViewerFacts
<1>2. P \in SUBSET DOMAIN cache
  OBVIOUS
<1>3. f \in Seq(Fine(requests)) /\ Len(f) <= Len(cache) /\ \A k \in DOMAIN f : \E n \in P : f[k] = cache[n]
  <2> HIDE DEF P
  <2> QED BY <1>1, <1>2, FilteredEntries
<1>4. \A n \in P : cache[n] \in V
  BY <1>1
<1> HIDE DEF P, f
<1>5. Len(f) \in Nat /\ f = [k \in 1..Len(f) |-> f[k]] /\ DOMAIN f = 1..Len(f)
  BY <1>3
<1>6. \A k \in 1..Len(f) : f[k] \in V
  BY <1>3, <1>4, <1>5
<1> HIDE DEF V
<1>7. f \in Seq(V)
  BY <1>5, <1>6, ListByIndex
<1>8. Len(f) <= MaxCached
  BY <1>1, <1>3, <1>5, ViewerSets
<1>9. Other(cache, p) = f
  BY DEF Other, f, P
<1> QED BY <1>7, <1>8, <1>9 DEF V

\* A deleted file is forgotten.
LEMMA ForgetFileKeeps ==
  ASSUME ViewerInv, NEW p \in Paths, ForgetFile(p)
  PROVE  ViewerInv'
<1>1. cache' = Other(cache, p) /\ UNCHANGED <<requests, viewer, late, thumbs, blobs>>
  BY DEF ForgetFile
<1>2. cache' \in Seq({r \in Fine(requests) : requests[r].path # p}) /\ Len(cache') <= MaxCached
  BY <1>1, OtherKeeps
<1>3. cache' \in Seq(Fine(requests))
  <2>1. {r \in Fine(requests) : requests[r].path # p} \subseteq Fine(requests)
    OBVIOUS
  <2> QED BY <1>2, <2>1, SeqLarger
<1>4. NetOK(Net')
  <2>1. Net' = [requests |-> requests, cache |-> cache'] /\ Net'.requests = requests /\ Net'.cache = cache'
    BY <1>1 DEF Net
  <2> QED BY <1>2, <1>3, <2>1, ViewerFacts DEF NetOK
<1> QED BY <1>1, <1>4, ViewerFacts DEF ViewerInv

\* A download that has ended, well or badly.
Ended(r, how) == [requests EXCEPT ![r].state = how]

\* What else a download that ends changes.
LEMMA EndedIs ==
  ASSUME ViewerInv, NEW r, Underway(r), NEW how \in {"ready", "failed"}
  PROVE  /\ r \in Nat /\ r >= 1 /\ r # 0 /\ requests[r].path \in Paths
         /\ Ended(r, how) \in Seq(Downloads) /\ Len(Ended(r, how)) = Len(requests)
         /\ \A m, k : OnItsWay(requests, m, k) /\ m # r => OnItsWay(Ended(r, how), m, k)
         /\ \A m \in Fine(requests) : m # r \/ how = "ready" => m \in Fine(Ended(r, how))
         /\ \A k : OnItsWay(requests, r, k) => k = requests[r].path
<1> DEFINE new == Ended(r, how)
<1>1. /\ requests \in Seq(Downloads) /\ DOMAIN requests = 1..Len(requests) /\ Len(requests) \in Nat
      /\ r \in DOMAIN requests /\ requests[r].state = "loading"
  BY ViewerFacts DEF Underway
<1>2. r \in Nat /\ r >= 1 /\ requests[r] \in Downloads
  BY <1>1
<1>3. new = [requests EXCEPT ![r] = [requests[r] EXCEPT !.state = how]]
  BY DEF Ended
<1>4. /\ [requests[r] EXCEPT !.state = how] \in Downloads /\ [requests[r] EXCEPT !.state = how].state = how
      /\ [requests[r] EXCEPT !.state = how].path = requests[r].path
  BY <1>2 DEF Downloads
<1> HIDE DEF new
<1>5. /\ new \in Seq(Downloads) /\ Len(new) = Len(requests) /\ DOMAIN new = DOMAIN requests
      /\ new[r].state = how /\ \A m \in DOMAIN requests : m # r => new[m] = requests[m]
  BY <1>1, <1>3, <1>4
<1>6. \A m, k : OnItsWay(requests, m, k) /\ m # r => OnItsWay(new, m, k)
  BY <1>5 DEF OnItsWay
<1>7. \A m \in Fine(requests) : m # r \/ how = "ready" => m \in Fine(new)
  BY <1>5 DEF Fine
<1>8. \A k : OnItsWay(requests, r, k) => k = requests[r].path
  BY DEF OnItsWay
<1> QED BY <1>2, <1>5, <1>6, <1>7, <1>8 DEF new, Downloads

\* The lightbox when a download ends.
LEMMA ToViewerKeeps ==
  ASSUME ViewerInv, NEW r, Underway(r), NEW how \in {"ready", "failed"}, NEW ok \in BOOLEAN, NEW bs,
         bs \subseteq (Slots \cup {"lightbox"}) \X Items,
         \A k \in Items : <<"lightbox", k>> \in bs <=> (<<"lightbox", k>> \in blobs \/ (ok /\ k \in Awaited(r)))
  PROVE  LightboxOK(Ended(r, how), ToViewer(r, ok), bs)
<1> DEFINE new == ToViewer(r, ok)
           rs == Ended(r, how)
<1>1. /\ r \in Nat /\ r # 0 /\ \A m, k : OnItsWay(requests, m, k) /\ m # r => OnItsWay(rs, m, k)
  BY EndedIs
<1> HIDE DEF rs
<1>2. Awaited(r) \subseteq Paths /\ Awaited(r) \subseteq Items /\ \A k \in Paths : k \in Awaited(r) <=> viewer.fetching[k] = r
  BY DEF Awaited, Items
<1>3. Backed(requests, viewer, blobs)
  BY ViewerFacts
<1> DEFINE fetched == [k \in Paths |-> IF viewer.fetching[k] = r THEN 0 ELSE viewer.fetching[k]]
           resolved == IF ok THEN viewer.resolved \cup Awaited(r) ELSE viewer.resolved
           loading == viewer.loading /\ viewer.waiting \notin Awaited(r)
           failed == viewer.failed \/ (~ok /\ viewer.waiting \in Awaited(r))
           waiting == IF viewer.waiting \in Awaited(r) THEN None ELSE viewer.waiting
<1>4. new = [viewer EXCEPT !.resolved = resolved, !.fetching = fetched, !.loading = loading,
                           !.failed = failed, !.waiting = waiting]
  BY DEF ToViewer
<1>5. \A k \in Paths : fetched[k] # 0 => fetched[k] = viewer.fetching[k] /\ viewer.fetching[k] # r /\ viewer.fetching[k] # 0
  OBVIOUS
<1>6. /\ loading \in BOOLEAN /\ failed \in BOOLEAN
      /\ loading <=> (viewer.loading /\ viewer.waiting \notin Awaited(r))
      /\ failed <=> (viewer.failed \/ (~ok /\ viewer.waiting \in Awaited(r)))
      /\ viewer.waiting \notin Awaited(r) => waiting = viewer.waiting
      /\ viewer.waiting \in Awaited(r) => waiting = None
      /\ viewer.resolved \subseteq resolved /\ (ok => Awaited(r) \subseteq resolved)
      /\ \A k : k \in resolved <=> (k \in viewer.resolved \/ (ok /\ k \in Awaited(r)))
  OBVIOUS
<1>7. \A k \in Paths : viewer.fetching[k] # 0 /\ k \notin Awaited(r) => fetched[k] # 0
  BY <1>2
<1>8. CASE IsOpen
  <2>1. viewer \in Viewers /\ Told(viewer) /\ viewer.shown # <<>>
    BY <1>8, ViewerFacts DEF IsOpen
  <2>2. fetched \in [Paths -> Nat] /\ resolved \in SUBSET Items /\ waiting \in Paths \cup {None}
    BY <1>2, <2>1 DEF Viewers
  <2> HIDE DEF fetched, resolved, loading, failed, waiting, new
  <2>3. /\ new.shown = viewer.shown /\ new.index = viewer.index /\ new.resolved = resolved /\ new.fetching = fetched
        /\ new.loading = loading /\ new.failed = failed /\ new.waiting = waiting /\ new \in Viewers
    BY <1>4, <1>6, <2>1, <2>2 DEF Viewers
  <2>4. Backed(rs, new, bs)
    <3>1. ASSUME NEW k \in Paths, fetched[k] # 0 PROVE OnItsWay(rs, fetched[k], k)
      BY <1>1, <1>3, <1>5, <3>1 DEF Backed
    <3>2. ASSUME NEW k \in Items PROVE <<"lightbox", k>> \in bs <=> k \in resolved
      BY <1>3, <1>6 DEF Backed
    <3> QED BY <2>3, <3>1, <3>2 DEF Backed
  <2>5. Told(new)
    <3>1. CASE viewer.loading /\ viewer.waiting \in Awaited(r)
      <4>1. viewer.index <= Len(viewer.shown) /\ viewer.waiting = viewer.shown[viewer.index]
        BY <2>1, <3>1 DEF Told
      <4>2. ~loading /\ (ok => viewer.waiting \in resolved) /\ (~ok => failed)
        BY <1>6, <3>1
      <4> QED BY <2>3, <4>1, <4>2 DEF Told
    <3>2. CASE ~(viewer.loading /\ viewer.waiting \in Awaited(r))
      <4>1. (loading <=> viewer.loading) /\ (viewer.failed => failed)
        BY <1>6, <3>2
      <4>2. loading => waiting = viewer.waiting
        BY <1>6
      <4>3. loading => fetched[viewer.waiting] # 0
        BY <1>6, <1>7, <2>1, <4>1 DEF Told
      <4> QED BY <1>6, <2>1, <2>3, <4>1, <4>2, <4>3 DEF Told
    <3> QED BY <3>1, <3>2
  <2>6. new.shown # <<>>
    BY <2>1, <2>3
  <2>7. LightboxOK(rs, new, bs)
    BY <2>3, <2>4, <2>5, <2>6 DEF LightboxOK
  <2> QED BY <2>7 DEF rs, new
<1>9. CASE ~IsOpen
  <2>1. viewer = Closed
    BY <1>9, ViewerFacts
  <2>2. Awaited(r) = {}
    <3>1. \A k \in Paths : viewer.fetching[k] = 0
      BY <2>1, ClosedIs
    <3> QED BY <1>1, <1>2, <3>1
  <2>3. fetched = [k \in Paths |-> 0]
    BY <2>1, ClosedIs
  <2>4. resolved = {} /\ waiting = None /\ ~loading /\ ~failed
    BY <1>6, <2>1, <2>2, ClosedIs
  <2>5. loading = FALSE /\ failed = FALSE
    BY <2>4
  <2> HIDE DEF fetched, resolved, loading, failed, waiting, new
  <2>6. new = [Closed EXCEPT !.resolved = {}, !.fetching = [k \in Paths |-> 0], !.loading = FALSE,
                             !.failed = FALSE, !.waiting = None]
    BY <1>4, <2>1, <2>3, <2>4, <2>5
  <2>7. new = Closed
    BY <2>6 DEF Closed
  <2>8. \A k \in Items : <<"lightbox", k>> \in bs <=> k \in Closed.resolved
    BY <1>3, <2>1, <2>2 DEF Backed
  <2>9. Backed(rs, Closed, bs)
    BY <2>8, ClosedIs DEF Backed
  <2>10. LightboxOK(rs, new, bs)
    BY <2>7, <2>9, ClosedIs DEF LightboxOK
  <2> QED BY <2>10 DEF rs, new
<1> QED BY <1>8, <1>9

\* The thumbnails when a download ends.
LEMMA ToThumbsKeeps ==
  ASSUME ViewerInv, NEW r, Underway(r), NEW how \in {"ready", "failed"}, NEW outcome \in {"shown", "error"}, NEW bs,
         \A s \in Slots : \A x \in Items :
           <<s, x>> \in bs <=> (<<s, x>> \in blobs \/ (outcome = "shown" /\ s \in Waiting(r) /\ x = requests[r].path))
  PROVE  \A s \in Slots : ThumbOK(Ended(r, how), ToThumbs(r, outcome)[s], s, bs)
<1> SUFFICES ASSUME NEW s \in Slots PROVE ThumbOK(Ended(r, how), ToThumbs(r, outcome)[s], s, bs)
  OBVIOUS
<1> DEFINE th == thumbs[s]
           new == ToThumbs(r, outcome)[s]
           rs == Ended(r, how)
<1>1. /\ r \in Nat /\ r # 0 /\ \A m, k : OnItsWay(requests, m, k) /\ m # r => OnItsWay(rs, m, k)
      /\ requests[r].path \in Paths /\ \A k : OnItsWay(requests, r, k) => k = requests[r].path
  BY EndedIs
<1>2. ThumbOK(requests, th, s, blobs)
  BY ViewerFacts
<1>3. new = IF s \in Waiting(r) THEN [th EXCEPT !.request = 0, !.state = outcome] ELSE th
  BY DEF ToThumbs
<1>4. s \in Waiting(r) <=> th.request = r
  BY DEF Waiting
<1> HIDE DEF rs, th, new
<1>5. CASE th.request = r
  <2>1. th \in Thumbs /\ th.state = "loading" /\ th.path = requests[r].path /\ th.path \in Paths
    BY <1>1, <1>2, <1>5 DEF ThumbOK
  <2>2. new.path = th.path /\ new.request = 0 /\ new.state = outcome /\ new \in Thumbs
    BY <1>3, <1>4, <1>5, <2>1 DEF Thumbs
  <2>3. \A x \in Items : <<s, x>> \notin blobs
    BY <1>2, <2>1 DEF ThumbOK
  <2>4. \A x \in Items : <<s, x>> \in bs <=> (new.state = "shown" /\ new.path = x)
    BY <1>4, <1>5, <2>1, <2>2, <2>3
  <2>5. ThumbOK(rs, new, s, bs)
    BY <2>1, <2>2, <2>4 DEF ThumbOK
  <2> QED BY <2>5 DEF rs, new
<1>6. CASE th.request # r
  <2>1. new = th
    BY <1>3, <1>4, <1>6
  <2>2. \A x \in Items : <<s, x>> \in bs <=> <<s, x>> \in blobs
    BY <1>4, <1>6
  <2>3. th.request # 0 => OnItsWay(rs, th.request, th.path) /\ th.state = "loading"
    BY <1>1, <1>2, <1>6 DEF ThumbOK
  <2>4. ThumbOK(rs, th, s, bs)
    BY <1>2, <2>2, <2>3 DEF ThumbOK
  <2> QED BY <2>1, <2>4 DEF rs, new
<1> QED BY <1>5, <1>6

\* A file arrives.
LEMMA DownloadedKeeps ==
  ASSUME ViewerInv, NEW r \in Requests, Downloaded(r)
  PROVE  ViewerInv'
<1> DEFINE yes == TRUE
           p == requests[r].path
<1>1. /\ Underway(r) /\ requests' = Ended(r, "ready") /\ viewer' = ToViewer(r, yes) /\ thumbs' = ToThumbs(r, "shown")
      /\ blobs' = blobs \cup {<<"lightbox", k>> : k \in Awaited(r)} \cup {<<s, p>> : s \in Waiting(r)}
      /\ late' = late \ {r} /\ cache' = cache
  BY DEF Downloaded, Ended
<1>2. yes \in BOOLEAN /\ yes
  OBVIOUS
<1>3. /\ p \in Paths /\ Ended(r, "ready") \in Seq(Downloads) /\ Len(Ended(r, "ready")) = Len(requests)
      /\ \A m \in Fine(requests) : m \in Fine(Ended(r, "ready"))
  BY <1>1, EndedIs
<1>4. p \in Items /\ Awaited(r) \subseteq Items /\ Waiting(r) \subseteq Slots /\ "lightbox" \notin Slots
  BY <1>3, ViewerSets DEF Items, Awaited, Waiting
<1> HIDE DEF yes, p
<1>5. blobs' \subseteq (Slots \cup {"lightbox"}) \X Items
  BY <1>1, <1>4, ViewerFacts DEF Backed
<1>6. \A k \in Items : <<"lightbox", k>> \in blobs' <=> (<<"lightbox", k>> \in blobs \/ k \in Awaited(r))
  BY <1>1, <1>4
<1>7. \A s \in Slots : \A x \in Items : <<s, x>> \in blobs' <=> (<<s, x>> \in blobs \/ (s \in Waiting(r) /\ x = p))
  BY <1>1, <1>4
<1>8. LightboxOK(requests', viewer', blobs')
  <2>1. \A k \in Items : <<"lightbox", k>> \in blobs' <=> (<<"lightbox", k>> \in blobs \/ (yes /\ k \in Awaited(r)))
    BY <1>2, <1>6
  <2>2. yes \in BOOLEAN
    BY <1>2
  <2>3. LightboxOK(Ended(r, "ready"), ToViewer(r, yes), blobs')
    BY <1>1, <1>5, <2>1, <2>2, ToViewerKeeps
  <2> QED BY <1>1, <2>3
<1>9. \A s \in Slots : ThumbOK(requests', thumbs'[s], s, blobs')
  <2>1. \A s \in Slots : \A x \in Items :
          <<s, x>> \in blobs' <=> (<<s, x>> \in blobs \/ ("shown" = "shown" /\ s \in Waiting(r) /\ x = requests[r].path))
    BY <1>7 DEF p
  <2>2. \A s \in Slots : ThumbOK(Ended(r, "ready"), ToThumbs(r, "shown")[s], s, blobs')
    BY <1>1, <2>1, ToThumbsKeeps
  <2> QED BY <1>1, <2>2
<1>10. NetOK(Net')
  <2>1. Net' = [requests |-> requests', cache |-> cache] /\ Net'.requests = requests' /\ Net'.cache = cache
    BY <1>1 DEF Net
  <2>2. cache \in Seq(Fine(requests'))
    <3>1. Fine(requests) \subseteq Fine(requests') /\ cache \in Seq(Fine(requests))
      BY <1>1, <1>3, ViewerFacts
    <3> QED BY <3>1, SeqLarger
  <2> QED BY <1>1, <1>3, <2>1, <2>2, ViewerFacts DEF NetOK
<1>11. thumbs' = [s \in Slots |-> thumbs'[s]]
  BY <1>1 DEF ToThumbs
<1>12. Len(requests') <= MaxRequests /\ late' \subseteq Requests
  BY <1>1, <1>3, ViewerFacts
<1> QED BY <1>8, <1>9, <1>10, <1>11, <1>12 DEF ViewerInv

\* A download fails.
LEMMA DownloadFailedKeeps ==
  ASSUME ViewerInv, NEW r \in Requests, DownloadFailed(r)
  PROVE  ViewerInv'
<1> DEFINE no == FALSE
           p == requests[r].path
<1>1. /\ Underway(r) /\ requests' = Ended(r, "failed") /\ viewer' = ToViewer(r, no) /\ thumbs' = ToThumbs(r, "error")
      /\ blobs' = blobs /\ late' = late \ {r} /\ cache' = Other(cache, p)
  BY DEF DownloadFailed, Ended
<1>2. no \in BOOLEAN /\ ~no
  OBVIOUS
<1> HIDE DEF no
<1>3. /\ Ended(r, "failed") \in Seq(Downloads) /\ Len(Ended(r, "failed")) = Len(requests)
      /\ \A m \in Fine(requests) : m # r => m \in Fine(Ended(r, "failed"))
  BY <1>1, EndedIs
<1>4. LightboxOK(requests', viewer', blobs')
  <2>1. \A k \in Items : <<"lightbox", k>> \in blobs' <=> (<<"lightbox", k>> \in blobs \/ (no /\ k \in Awaited(r)))
    BY <1>1, <1>2
  <2>2. no \in BOOLEAN
    BY <1>2
  <2>3. blobs' \subseteq (Slots \cup {"lightbox"}) \X Items
    BY <1>1, ViewerFacts DEF Backed
  <2>4. LightboxOK(Ended(r, "failed"), ToViewer(r, no), blobs')
    BY <1>1, <2>1, <2>2, <2>3, ToViewerKeeps
  <2> QED BY <1>1, <2>4
<1>5. \A s \in Slots : ThumbOK(requests', thumbs'[s], s, blobs')
  <2>1. \A s \in Slots : \A x \in Items :
          <<s, x>> \in blobs' <=> (<<s, x>> \in blobs \/ ("error" = "shown" /\ s \in Waiting(r) /\ x = requests[r].path))
    BY <1>1
  <2>2. \A s \in Slots : ThumbOK(Ended(r, "failed"), ToThumbs(r, "error")[s], s, blobs')
    BY <1>1, <2>1, ToThumbsKeeps
  <2> QED BY <1>1, <2>2
<1>6. NetOK(Net')
  <2>1. Net' = [requests |-> requests', cache |-> cache'] /\ Net'.requests = requests' /\ Net'.cache = cache'
    BY DEF Net
  <2>2. cache' \in Seq({m \in Fine(requests) : requests[m].path # p}) /\ Len(cache') <= MaxCached
    BY <1>1, OtherKeeps
  <2>3. {m \in Fine(requests) : requests[m].path # p} \subseteq Fine(requests')
    BY <1>1, <1>3
  <2> HIDE DEF p
  <2>4. cache' \in Seq(Fine(requests'))
    BY <2>2, <2>3, SeqLarger
  <2> QED BY <1>1, <1>3, <2>1, <2>2, <2>4 DEF NetOK
<1>7. thumbs' = [s \in Slots |-> thumbs'[s]]
  BY <1>1 DEF ToThumbs
<1>8. Len(requests') <= MaxRequests /\ late' \subseteq Requests
  BY <1>1, <1>3, ViewerFacts
<1> QED BY <1>4, <1>5, <1>6, <1>7, <1>8 DEF ViewerInv

\* The invariant of the viewer.
LEMMA ViewerInvStep == ViewerInv /\ [ViewerNext]_viewerVars => ViewerInv'
<1> SUFFICES ASSUME ViewerInv, [ViewerNext]_viewerVars PROVE ViewerInv'
  OBVIOUS
<1>1. CASE \E gallery \in Galleries : \E i \in DOMAIN gallery : Open(gallery, i)
  BY <1>1, OpenKeeps
<1>2. CASE \E gallery \in Galleries : ReplaceItems(gallery)
  BY <1>2, ReplaceItemsKeeps
<1>3. CASE \E step \in {1, -1} : Turn(step)
  BY <1>3, TurnKeeps
<1>4. CASE Close
  BY <1>4, CloseKeeps
<1>5. CASE \E s \in Slots : \E p \in Paths : ShowThumb(s, p)
  BY <1>5, ShowThumbKeeps
<1>6. CASE \E s \in Slots : HideThumb(s)
  BY <1>6, HideThumbKeeps
<1>7. CASE \E p \in Paths : ForgetFile(p)
  BY <1>7, ForgetFileKeeps
<1>8. CASE \E r \in Requests : DownloadEnds(r)
  BY <1>8, DownloadedKeeps, DownloadFailedKeeps DEF DownloadEnds
<1>9. CASE UNCHANGED viewerVars
  <2>1. /\ requests' = requests /\ cache' = cache /\ viewer' = viewer /\ late' = late /\ thumbs' = thumbs /\ blobs' = blobs
    BY <1>9 DEF viewerVars
  <2>2. Net' = Net
    BY <2>1 DEF Net
  <2> QED BY <2>1, <2>2 DEF ViewerInv
<1> QED BY <1>1, <1>2, <1>3, <1>4, <1>5, <1>6, <1>7, <1>8, <1>9 DEF ViewerNext

\* It holds at first.
LEMMA ViewerInvInit == ViewerInit => ViewerInv
<1> SUFFICES ASSUME ViewerInit PROVE ViewerInv
  OBVIOUS
<1>1. /\ requests = <<>> /\ cache = <<>> /\ viewer = Closed /\ late = {}
      /\ thumbs = [s \in Slots |-> NoThumb] /\ blobs = {}
  BY DEF ViewerInit
<1>2. NetOK(Net)
  <2>1. Net = [requests |-> requests, cache |-> cache] /\ Net.requests = requests /\ Net.cache = cache
    BY DEF Net
  <2>2. requests \in Seq(Downloads) /\ cache \in Seq(Fine(requests)) /\ Len(cache) = 0
    BY <1>1
  <2> QED BY <2>1, <2>2, ViewerSets DEF NetOK
<1>3. LightboxOK(requests, viewer, blobs)
  <2>1. Backed(requests, Closed, blobs)
    BY <1>1, ClosedIs DEF Backed
  <2> QED BY <1>1, <2>1, ClosedIs DEF LightboxOK
<1>4. \A s \in Slots : ThumbOK(requests, thumbs[s], s, blobs)
  <2>1. NoThumb \in Thumbs /\ NoThumb.state = "off" /\ NoThumb.request = 0
    BY DEF NoThumb, Thumbs
  <2> QED BY <1>1, <2>1 DEF ThumbOK
<1>5. Len(requests) <= MaxRequests
  BY <1>1, ViewerSets
<1> QED BY <1>1, <1>2, <1>3, <1>4, <1>5 DEF ViewerInv

\* What the invariant promises of the lightbox, the thumbnails and the cache.
LEMMA ViewerPromises == ViewerInv => ViewerHolds
<1> SUFFICES ASSUME ViewerInv PROVE ViewerHolds
  OBVIOUS
<1>1. SpinnerHasDownload
  <2> SUFFICES ASSUME IsOpen
               PROVE  /\ Current \in viewer.resolved \/ viewer.loading \/ viewer.failed
                      /\ viewer.loading => /\ viewer.waiting = Current
                                           /\ viewer.fetching[Current] # 0 /\ Underway(viewer.fetching[Current])
    BY DEF SpinnerHasDownload
  <2>1. Told(viewer) /\ Backed(requests, viewer, blobs)
    BY ViewerFacts
  <2>2. Current \in viewer.resolved \/ viewer.loading \/ viewer.failed
    BY <2>1 DEF Told, Current
  <2>3. ASSUME viewer.loading PROVE viewer.waiting = Current /\ Current \in Paths /\ viewer.fetching[Current] # 0
    BY <2>1, <2>3 DEF Told, Current
  <2>4. ASSUME viewer.loading PROVE Underway(viewer.fetching[Current])
    BY <2>1, <2>3, <2>4 DEF Backed, OnItsWay, Underway
  <2> QED BY <2>2, <2>3, <2>4
<1>2. UrlsLiveWhileShown
  <2>1. Backed(requests, viewer, blobs) /\ blobs \subseteq (Slots \cup {"lightbox"}) \X Items /\ "lightbox" \notin Slots
    BY ViewerFacts, ViewerSets DEF Backed
  <2>2. viewer.resolved \subseteq Items
    BY ViewerFacts, ClosedIs DEF Viewers
  <2>3. \A b \in blobs : b = <<b[1], b[2]>> /\ b[2] \in Items
    BY <2>1
  <2>4. {b[2] : b \in {c \in blobs : c[1] = "lightbox"}} = viewer.resolved
    <3>1. \A x : x \in {b[2] : b \in {c \in blobs : c[1] = "lightbox"}} => x \in viewer.resolved
      BY <2>1, <2>3 DEF Backed
    <3>2. \A x \in viewer.resolved : <<"lightbox", x>> \in blobs /\ <<"lightbox", x>>[1] = "lightbox" /\ <<"lightbox", x>>[2] = x
      BY <2>1, <2>2 DEF Backed
    <3> QED BY <3>1, <3>2
  <2>5. ASSUME NEW s \in Slots
        PROVE  {b[2] : b \in {c \in blobs : c[1] = s}} = IF thumbs[s].state = "shown" THEN {thumbs[s].path} ELSE {}
    <3>1. ThumbOK(requests, thumbs[s], s, blobs)
      BY ViewerFacts
    <3>2. \A x \in Items : <<s, x>> \in blobs <=> (thumbs[s].state = "shown" /\ thumbs[s].path = x)
      BY <3>1 DEF ThumbOK
    <3>3. thumbs[s].state = "shown" => thumbs[s].path \in Items
      BY <3>1 DEF ThumbOK, Items
    <3>4. \A x : x \in {b[2] : b \in {c \in blobs : c[1] = s}} => thumbs[s].state = "shown" /\ x = thumbs[s].path
      BY <2>3, <3>2
    <3>5. thumbs[s].state = "shown" => <<s, thumbs[s].path>> \in blobs
      BY <3>2, <3>3
    <3>6. \A x : <<s, x>>[1] = s /\ <<s, x>>[2] = x
      OBVIOUS
    <3>7. thumbs[s].state = "shown" => thumbs[s].path \in {b[2] : b \in {c \in blobs : c[1] = s}}
      BY <3>5, <3>6
    <3> QED BY <3>4, <3>7
  <2> QED BY <2>4, <2>5 DEF UrlsLiveWhileShown
<1>3. FailureNotCached
  BY ViewerFacts DEF FailureNotCached, Fine
<1> QED BY <1>1, <1>2, <1>3 DEF ViewerHolds

\* What it says of the types.
LEMMA ViewerTypes == ViewerInv => ViewerTypeOK
<1> SUFFICES ASSUME ViewerInv PROVE ViewerTypeOK
  OBVIOUS
<1>1. /\ requests \in Seq(Downloads) /\ Backed(requests, viewer, blobs) /\ DOMAIN requests \subseteq Requests
  BY ViewerFacts
<1>2. \A r, p : OnItsWay(requests, r, p) => r \in Requests
  BY <1>1 DEF OnItsWay
<1>3. cache \in Seq(Requests) /\ Len(cache) <= MaxCached
  <2>1. Fine(requests) \subseteq Requests
    BY <1>1 DEF Fine
  <2> QED BY <2>1, ViewerFacts, SeqLarger
<1>4. viewer \in [shown : {<<>>} \cup Galleries, index : 1..MaxShown, resolved : SUBSET Items,
                  fetching : [Paths -> {0} \cup Requests], waiting : Paths \cup {None},
                  loading : BOOLEAN, failed : BOOLEAN]
  <2>1. CASE IsOpen
    <3>1. viewer \in Viewers
      BY <2>1, ViewerFacts
    <3>2. viewer.fetching \in [Paths -> {0} \cup Requests]
      BY <1>1, <1>2, <3>1 DEF Viewers, Backed
    <3> QED BY <3>1, <3>2 DEF Viewers
  <2>2. CASE ~IsOpen
    <3>1. viewer = Closed /\ 1 \in 1..MaxShown
      BY <2>2, ViewerFacts, ViewerSets
    <3> QED BY <3>1 DEF Closed
  <2> QED BY <2>1, <2>2
<1>5. thumbs \in [Slots -> [path : Paths \cup {None}, request : {0} \cup Requests,
                           state : {"off", "loading", "shown", "error"}]]
  <2>1. ASSUME NEW s \in Slots
        PROVE  thumbs[s] \in [path : Paths \cup {None}, request : {0} \cup Requests,
                              state : {"off", "loading", "shown", "error"}]
    <3>1. ThumbOK(requests, thumbs[s], s, blobs)
      BY ViewerFacts
    <3>2. thumbs[s] \in Thumbs /\ thumbs[s].request \in {0} \cup Requests
      BY <1>2, <3>1 DEF ThumbOK, Thumbs
    <3> QED BY <3>2 DEF Thumbs
  <2> QED BY <2>1, ViewerFacts
<1>6. late \subseteq Requests /\ blobs \subseteq (Slots \cup {"lightbox"}) \X Items
  BY ViewerFacts DEF Backed
<1> QED BY <1>1, <1>3, <1>4, <1>5, <1>6 DEF ViewerTypeOK, Downloads

-----------------------------------------------------------------------------
(* Pictures of invoices.                                                      *)

PictureStates == {"asked", "saved", "done"}
Pictures == [of : Bills, run : Nat, visit : 1..MaxVisits, state : PictureStates]
Runs == [listed : SUBSET Bills, left : SUBSET Bills, current : Nat, visit : 1..MaxVisits]

\* A run has asked once for what it has no longer to ask for.
RunOK(r, k, pics) ==
  /\ r.left \subseteq r.listed
  /\ r.current # 0 => r.current \in DOMAIN pics /\ pics[r.current].run = k
  /\ r.current = 0 => r.left = {}
  /\ \A n \in DOMAIN pics : pics[n].run = k => pics[n].of \notin r.left
  /\ \A b \in r.listed \ r.left : \E n \in DOMAIN pics : pics[n].run = k /\ pics[n].of = b
  /\ \A m \in DOMAIN pics : \A n \in DOMAIN pics :
       pics[m].run = k /\ pics[n].run = k /\ pics[m].of = pics[n].of => m = n

\* The pictures of a run are those they were.
SameRun(k, pics, new) ==
  /\ \A n : n \in DOMAIN pics /\ pics[n].run = k <=> n \in DOMAIN new /\ new[n].run = k
  /\ \A n \in DOMAIN pics : pics[n].run = k => new[n].of = pics[n].of

\* What a picture is of does not change with its state.
Alike(pics, new) ==
  /\ DOMAIN new = DOMAIN pics
  /\ \A n \in DOMAIN pics : new[n].run = pics[n].run /\ new[n].of = pics[n].of /\ new[n].visit = pics[n].visit

\* A run whose pictures stay as they are.
LEMMA RunStays ==
  ASSUME NEW r, NEW k, NEW pics, NEW new, RunOK(r, k, pics), SameRun(k, pics, new)
  PROVE  RunOK(r, k, new)
<1>1. /\ \A n : n \in DOMAIN pics /\ pics[n].run = k <=> n \in DOMAIN new /\ new[n].run = k
      /\ \A n \in DOMAIN pics : pics[n].run = k => new[n].of = pics[n].of
  BY DEF SameRun
<1>2. r.current # 0 => r.current \in DOMAIN new /\ new[r.current].run = k
  BY <1>1 DEF RunOK
<1>3. \A n \in DOMAIN new : new[n].run = k => new[n].of \notin r.left
  BY <1>1 DEF RunOK
<1>4. \A b \in r.listed \ r.left : \E n \in DOMAIN new : new[n].run = k /\ new[n].of = b
  BY <1>1 DEF RunOK
<1>5. \A m \in DOMAIN new : \A n \in DOMAIN new :
        new[m].run = k /\ new[n].run = k /\ new[m].of = new[n].of => m = n
  BY <1>1 DEF RunOK
<1> QED BY <1>2, <1>3, <1>4, <1>5 DEF RunOK

\* Pictures that only move on are of the runs they were of.
LEMMA AlikeIsSameRun == ASSUME NEW k, NEW pics, NEW new, Alike(pics, new) PROVE SameRun(k, pics, new)
BY DEF Alike, SameRun

\* A picture moves on.
Marked(pics, n, s) == [pics EXCEPT ![n].state = s]

\* What else a picture that moves on changes.
LEMMA Marking ==
  ASSUME NEW pics \in Seq(Pictures), NEW n \in DOMAIN pics, NEW s \in PictureStates
  PROVE  LET new == Marked(pics, n, s)
         IN  /\ new \in Seq(Pictures) /\ Len(new) = Len(pics) /\ Alike(pics, new) /\ new[n].state = s
             /\ \A m \in DOMAIN pics : m # n => new[m] = pics[m]
<1> DEFINE new == Marked(pics, n, s)
           p == [pics[n] EXCEPT !.state = s]
<1>1. pics[n] \in Pictures /\ DOMAIN pics = 1..Len(pics) /\ Len(pics) \in Nat
  OBVIOUS
<1>2. p \in Pictures /\ p.state = s /\ p.run = pics[n].run /\ p.of = pics[n].of /\ p.visit = pics[n].visit
  BY <1>1 DEF Pictures
<1>3. new = [pics EXCEPT ![n] = p]
  BY DEF Marked
<1> HIDE DEF p, new
<1>4. new \in Seq(Pictures) /\ Len(new) = Len(pics) /\ DOMAIN new = DOMAIN pics /\ new[n] = p
      /\ \A m \in DOMAIN pics : m # n => new[m] = pics[m]
  BY <1>1, <1>2, <1>3
<1>5. Alike(pics, new)
  BY <1>2, <1>4 DEF Alike
<1> QED BY <1>2, <1>4, <1>5 DEF new

\* Another picture is asked for.
LEMMA Adding ==
  ASSUME NEW pics \in Seq(Pictures), NEW p \in Pictures
  PROVE  LET new == Append(pics, p)
         IN  /\ new \in Seq(Pictures) /\ Len(new) = Len(pics) + 1 /\ Len(pics) \in Nat
             /\ \A n : n \in DOMAIN new <=> n \in DOMAIN pics \/ n = Len(pics) + 1
             /\ Len(pics) + 1 \notin DOMAIN pics
             /\ new[Len(pics) + 1] = p /\ \A n \in DOMAIN pics : new[n] = pics[n]
<1>1. Len(pics) \in Nat /\ DOMAIN pics = 1..Len(pics)
  OBVIOUS
<1> QED BY <1>1

\* A picture of another run.
LEMMA AddedElsewhere ==
  ASSUME NEW pics \in Seq(Pictures), NEW p \in Pictures, NEW k, p.run # k
  PROVE  SameRun(k, pics, Append(pics, p))
<1> DEFINE new == Append(pics, p)
<1>1. /\ \A n : n \in DOMAIN new <=> n \in DOMAIN pics \/ n = Len(pics) + 1
      /\ Len(pics) + 1 \notin DOMAIN pics
      /\ new[Len(pics) + 1] = p /\ \A n \in DOMAIN pics : new[n] = pics[n]
  BY Adding
<1> HIDE DEF new
<1>2. SameRun(k, pics, new)
  BY <1>1 DEF SameRun
<1> QED BY <1>2 DEF new

\* The next picture of a run.
GoneOn(r, b, n) == [r EXCEPT !.left = @ \ {b}, !.current = n]
\* The run asks for another of the invoices that are left.
LEMMA RunGoesOn ==
  ASSUME NEW pics \in Seq(Pictures), NEW k, NEW r \in Runs, RunOK(r, k, pics), NEW b \in r.left,
         NEW p \in Pictures, p.run = k, p.of = b
  PROVE  LET now == GoneOn(r, b, Len(pics) + 1)
         IN  /\ RunOK(now, k, Append(pics, p)) /\ now \in Runs /\ now.left = r.left \ {b}
             /\ now.current = Len(pics) + 1 /\ now.visit = r.visit
<1> DEFINE new == Append(pics, p)
           now == GoneOn(r, b, Len(pics) + 1)
           last == Len(pics) + 1
<1>1. /\ \A n : n \in DOMAIN new <=> n \in DOMAIN pics \/ n = last
      /\ last \notin DOMAIN pics /\ last # 0 /\ last \in Nat
      /\ new[last] = p /\ \A n \in DOMAIN pics : new[n] = pics[n]
  BY Adding
<1>2. now = [r EXCEPT !.left = r.left \ {b}, !.current = last]
  BY DEF GoneOn
<1> HIDE DEF new, now, last
<1>3. now \in Runs /\ now.listed = r.listed /\ now.left = r.left \ {b} /\ now.current = last /\ now.visit = r.visit
  BY <1>1, <1>2 DEF Runs
<1>4. /\ r.left \subseteq r.listed /\ \A n \in DOMAIN pics : pics[n].run = k => pics[n].of \notin r.left
      /\ \A c \in r.listed \ r.left : \E n \in DOMAIN pics : pics[n].run = k /\ pics[n].of = c
      /\ \A m \in DOMAIN pics : \A n \in DOMAIN pics :
           pics[m].run = k /\ pics[n].run = k /\ pics[m].of = pics[n].of => m = n
  BY DEF RunOK
<1>5. \A n \in DOMAIN new : new[n].run = k => new[n].of \notin now.left
  BY <1>1, <1>3, <1>4
<1>6. \A c \in now.listed \ now.left : \E n \in DOMAIN new : new[n].run = k /\ new[n].of = c
  <2> SUFFICES ASSUME NEW c \in now.listed \ now.left PROVE \E n \in DOMAIN new : new[n].run = k /\ new[n].of = c
    OBVIOUS
  <2>1. CASE c = b
    BY <1>1, <2>1
  <2>2. CASE c # b
    <3>1. c \in r.listed \ r.left
      BY <1>3, <2>2
    <3>2. PICK n \in DOMAIN pics : pics[n].run = k /\ pics[n].of = c
      BY <1>4, <3>1
    <3> QED BY <1>1, <3>2
  <2> QED BY <2>1, <2>2
<1>7. \A m \in DOMAIN new : \A n \in DOMAIN new :
        new[m].run = k /\ new[n].run = k /\ new[m].of = new[n].of => m = n
  BY <1>1, <1>4
<1>8. now.left \subseteq now.listed /\ new[last].run = k
  BY <1>1, <1>3, <1>4
<1>9. RunOK(now, k, new)
  BY <1>1, <1>3, <1>5, <1>6, <1>7, <1>8 DEF RunOK
<1> QED BY <1>3, <1>9 DEF new, now, last

\* The end of a run.
Over(r) == [r EXCEPT !.current = 0]
\* It ends when none is left.
LEMMA RunEnds ==
  ASSUME NEW pics, NEW k, NEW r \in Runs, RunOK(r, k, pics), r.left = {}
  PROVE  /\ RunOK(Over(r), k, pics) /\ Over(r) \in Runs /\ Over(r).left = r.left /\ Over(r).current = 0
         /\ Over(r).visit = r.visit
<1>1. Over(r) \in Runs /\ Over(r).left = r.left /\ Over(r).listed = r.listed /\ Over(r).current = 0 /\ Over(r).visit = r.visit
  BY DEF Over, Runs
<1> QED BY <1>1 DEF RunOK

\* The first picture of a run.
Pressed(list, b, pics, v) == [listed |-> list, left |-> list \ {b}, current |-> Len(pics) + 1, visit |-> v]
\* It starts with one of the invoices listed.
LEMMA RunStarts ==
  ASSUME NEW pics \in Seq(Pictures), NEW k, \A n \in DOMAIN pics : pics[n].run # k,
         NEW list \in SUBSET Bills, NEW b \in list, NEW v \in 1..MaxVisits,
         NEW p \in Pictures, p.run = k, p.of = b
  PROVE  RunOK(Pressed(list, b, pics, v), k, Append(pics, p)) /\ Pressed(list, b, pics, v) \in Runs
<1> DEFINE new == Append(pics, p)
           r == Pressed(list, b, pics, v)
           last == Len(pics) + 1
<1>1. /\ \A n : n \in DOMAIN new <=> n \in DOMAIN pics \/ n = last
      /\ last \notin DOMAIN pics /\ last # 0 /\ last \in Nat
      /\ new[last] = p /\ \A n \in DOMAIN pics : new[n] = pics[n]
  BY Adding
<1>2. r \in Runs /\ r.listed = list /\ r.left = list \ {b} /\ r.current = last /\ r.visit = v
  BY <1>1 DEF Pressed, Runs
<1> HIDE DEF new, r, last
<1>3. \A n \in DOMAIN new : new[n].run = k => n = last
  BY <1>1
<1>4. new[last].run = k /\ new[last].of = b /\ last \in DOMAIN new
  BY <1>1
<1>5. \A c \in r.listed \ r.left : \E n \in DOMAIN new : new[n].run = k /\ new[n].of = c
  BY <1>2, <1>4
<1>6. \A n \in DOMAIN new : new[n].run = k => new[n].of \notin r.left
  BY <1>2, <1>3, <1>4
<1>7. RunOK(r, k, new)
  BY <1>1, <1>2, <1>3, <1>4, <1>5, <1>6 DEF RunOK
<1> QED BY <1>2, <1>7 DEF new, r

\* The runs: none asks for what another does, and those of one showing of the
\* view do not overlap.
RunsOK(runs, pics, top) ==
  /\ runs \in Seq(Runs) /\ pics \in Seq(Pictures)
  /\ \A k \in DOMAIN runs : RunOK(runs[k], k, pics) /\ runs[k].visit <= top
  /\ \A n \in DOMAIN pics : pics[n].run <= Len(runs)
  /\ \A j \in DOMAIN runs : \A k \in DOMAIN runs :
       runs[j].current # 0 /\ runs[k].current # 0 /\ runs[j].visit = runs[k].visit => j = k

\* The button knows the run of this view.
ButtonOK(button, runs, v) == button <=> \E k \in DOMAIN runs : runs[k].current # 0 /\ runs[k].visit = v

\* Every object URL has an owner.
Row(pics, n) == n \in DOMAIN pics /\ pics[n].run = 0 /\ pics[n].state = "asked"
OwnersOK(us, shown, pics, runs, v) ==
  /\ shown \in Nat /\ us \subseteq DOMAIN pics /\ \A n \in us : pics[n].state # "asked"
  /\ shown # 0 => shown \in us /\ pics[shown].run = 0
  /\ oneByOne => \A n : Row(pics, n) => pics[n].visit = v /\ shown = 0 /\ \A m : Row(pics, m) => m = n
  /\ oneByOne => \A n \in us : n = shown \/ \E k \in DOMAIN runs : runs[k].current = n

\* What the runs have still to ask for.
ToAsk(runs) == {kb \in (DOMAIN runs) \X Bills : kb[2] \in runs[kb[1]].left}
RoomOK(runs, pics) == Len(runs) <= Len(pics) /\ Len(pics) + Cardinality(ToAsk(runs)) <= MaxPictures

DetailOK(d) == d \in [open : BOOLEAN, drawing : SUBSET Drawings, shown : BOOLEAN]

PicInv ==
  /\ oneByOne \in BOOLEAN /\ visit \in 1..MaxVisits /\ billsShown \subseteq Bills /\ DetailOK(detail)
  /\ RunsOK(runsOfAll, pictures, visit)
  /\ downloadingAll \in BOOLEAN /\ ButtonOK(downloadingAll, runsOfAll, visit)
  /\ OwnersOK(pictureUrls, previewed, pictures, runsOfAll, visit)
  /\ RoomOK(runsOfAll, pictures)

\* What the invariant says of the pictures and the runs, by name.
LEMMA PicFacts ==
  ASSUME PicInv
  PROVE  /\ pictures \in Seq(Pictures) /\ Len(pictures) \in Nat /\ DOMAIN pictures = 1..Len(pictures)
         /\ runsOfAll \in Seq(Runs) /\ Len(runsOfAll) \in Nat /\ DOMAIN runsOfAll = 1..Len(runsOfAll)
         /\ \A k \in DOMAIN runsOfAll : RunOK(runsOfAll[k], k, pictures) /\ runsOfAll[k] \in Runs
         /\ visit \in 1..MaxVisits /\ oneByOne \in BOOLEAN /\ MaxVisits \in Nat /\ MaxPictures \in Nat
BY PicturesAssumption DEF PicInv, RunsOK

\* There is an end to what the runs have to ask for.
LEMMA ToAskFinite ==
  ASSUME NEW runs \in Seq(Runs)
  PROVE  IsFiniteSet(ToAsk(runs)) /\ Cardinality(ToAsk(runs)) \in Nat
<1>1. DOMAIN runs = 1..Len(runs) /\ Len(runs) \in Nat
  OBVIOUS
<1>2. IsFiniteSet(DOMAIN runs)
  BY <1>1, FS_Interval
<1>3. IsFiniteSet((DOMAIN runs) \X Bills)
  BY <1>2, PicturesAssumption, FS_Product
<1>4. ToAsk(runs) \subseteq (DOMAIN runs) \X Bills
  BY DEF ToAsk
<1> QED BY <1>3, <1>4, FS_Subset, FS_CardinalityType

\* Only a row that is being asked for counts as one.
LEMMA ForRowIs == ASSUME NEW n PROVE ForRow(n) <=> Row(pictures, n)
BY DEF ForRow, Row

\* Actions that leave the pictures alone.
LEMMA ListKeeps ==
  ASSUME PicInv, UNCHANGED <<oneByOne, visit, pictures, previewed, pictureUrls, runsOfAll, downloadingAll>>,
         billsShown' \subseteq Bills, DetailOK(detail')
  PROVE  PicInv'
BY DEF PicInv, OwnersOK

\* The list of invoices changes under the runs.
LEMMA ListChangesKeeps == ASSUME PicInv, NEW list \in SUBSET Bills, ListChanges(list) PROVE PicInv'
BY ListKeeps DEF ListChanges, PicInv

\* The detail modal draws its own pictures.
LEMMA DetailKeeps ==
  ASSUME PicInv, \/ OpenDetail \/ CloseDrawing \/ \E what \in Drawings : Draw(what)
                 \/ (\E ok \in BOOLEAN : DrawnPreview(ok)) \/ DrawnDownload
  PROVE  PicInv'
<1>1. DetailOK(detail) /\ DetailOK(NoDetail) /\ billsShown \subseteq Bills
  BY DEF PicInv, DetailOK, NoDetail
<1>2. /\ UNCHANGED <<oneByOne, visit, pictures, previewed, pictureUrls, runsOfAll, downloadingAll>>
      /\ billsShown' = billsShown
  BY DEF OpenDetail, CloseDrawing, Draw, DrawnPreview, DrawnDownload
<1>3. DetailOK(detail')
  <2>1. CASE OpenDetail
    BY <1>1, <2>1 DEF OpenDetail, DetailOK
  <2>2. CASE CloseDrawing
    BY <1>1, <2>2 DEF CloseDrawing, DetailOK
  <2>3. CASE \E what \in Drawings : Draw(what)
    BY <1>1, <2>3 DEF Draw, DetailOK
  <2>4. ASSUME NEW ok \in BOOLEAN, DrawnPreview(ok) PROVE DetailOK(detail')
    <3>1. detail' = [detail EXCEPT !.drawing = @ \ {"preview"}, !.shown = @ \/ ok]
      BY <2>4 DEF DrawnPreview
    <3>2. detail.shown \/ ok \in BOOLEAN
      OBVIOUS
    <3> QED BY <1>1, <3>1, <3>2 DEF DetailOK
  <2>5. CASE DrawnDownload
    BY <1>1, <2>5 DEF DrawnDownload, DetailOK
  <2> QED BY <2>1, <2>2, <2>3, <2>4, <2>5
<1> QED BY <1>1, <1>2, <1>3, ListKeeps

\* The preview is closed, and its object URL revoked.
LEMMA ClosePreviewKeeps == ASSUME PicInv, ClosePreview PROVE PicInv'
<1>1. /\ previewed # 0 /\ pictureUrls' = pictureUrls \ {previewed} /\ previewed' = 0
      /\ UNCHANGED <<oneByOne, visit, billsShown, pictures, runsOfAll, downloadingAll, detail>>
  BY DEF ClosePreview
<1>2. OwnersOK(pictureUrls', previewed', pictures', runsOfAll', visit')
  <2>1. OwnersOK(pictureUrls, previewed, pictures, runsOfAll, visit)
    BY DEF PicInv
  <2> QED BY <1>1, <2>1 DEF OwnersOK
<1>3. OwnersOK(pictureUrls, previewed, pictures, runsOfAll, visit)'
  BY <1>1, <1>2 DEF OwnersOK
<1> QED BY <1>1, <1>3 DEF PicInv

\* The view is left and shown again: no run is of this showing.
LEMMA ShowAgainKeeps == ASSUME PicInv, ShowAgain PROVE PicInv'
<1>1. /\ ListIsFree /\ visit < MaxVisits /\ visit' = visit + 1 /\ downloadingAll' = FALSE
      /\ UNCHANGED <<oneByOne, billsShown, pictures, previewed, pictureUrls, runsOfAll, detail>>
  BY DEF ShowAgain
<1>2. visit' \in 1..MaxVisits /\ visit \in Nat
  BY <1>1, PicFacts
<1>3. RunsOK(runsOfAll, pictures, visit')
  <2>1. \A k \in DOMAIN runsOfAll : runsOfAll[k].visit \in Nat /\ runsOfAll[k].visit <= visit
    BY PicFacts DEF PicInv, RunsOK, Runs
  <2>2. \A k \in DOMAIN runsOfAll : runsOfAll[k].visit <= visit'
    BY <1>1, <1>2, <2>1
  <2> QED BY <2>2 DEF PicInv, RunsOK
<1>4. \A k \in DOMAIN runsOfAll : runsOfAll[k].visit # visit'
  <2>1. \A k \in DOMAIN runsOfAll : runsOfAll[k].visit \in Nat /\ runsOfAll[k].visit <= visit
    BY PicFacts DEF PicInv, RunsOK, Runs
  <2> QED BY <1>1, <1>2, <2>1
<1>5. ButtonOK(downloadingAll, runsOfAll, visit)'
  BY <1>1, <1>4 DEF ButtonOK
<1>6. OwnersOK(pictureUrls, previewed, pictures, runsOfAll, visit')
  <2>1. OwnersOK(pictureUrls, previewed, pictures, runsOfAll, visit)
    BY DEF PicInv
  <2>2. oneByOne => \A n : ~Row(pictures, n)
    BY <1>1, ForRowIs DEF ListIsFree, AtRest, Row
  <2> QED BY <2>1, <2>2 DEF OwnersOK
<1>7. OwnersOK(pictureUrls, previewed, pictures, runsOfAll, visit)'
  BY <1>1, <1>6 DEF OwnersOK
<1> QED BY <1>1, <1>2, <1>3, <1>5, <1>7 DEF PicInv

\* A picture of a row is asked for.
LEMMA DownloadKeeps == ASSUME PicInv, NEW b \in Bills, Download(b) PROVE PicInv'
<1> DEFINE p == [of |-> b, run |-> 0, visit |-> visit, state |-> "asked"]
           last == Len(pictures) + 1
<1>1. /\ ListIsFree /\ MayAsk(1) /\ pictures' = Append(pictures, p)
      /\ UNCHANGED <<oneByOne, visit, billsShown, previewed, pictureUrls, runsOfAll, downloadingAll, detail>>
  BY DEF Download, AskFor
<1>2. p \in Pictures /\ p.run = 0 /\ p.state = "asked" /\ p.visit = visit
  BY PicFacts DEF Pictures, PictureStates
<1> HIDE DEF p
<1>3. /\ pictures' \in Seq(Pictures) /\ Len(pictures') = Len(pictures) + 1
      /\ \A n : n \in DOMAIN pictures' <=> n \in DOMAIN pictures \/ n = last
      /\ last \notin DOMAIN pictures
      /\ pictures'[last] = p /\ \A n \in DOMAIN pictures : pictures'[n] = pictures[n]
  BY <1>1, <1>2, PicFacts, Adding
<1>4. \A k \in DOMAIN runsOfAll : RunOK(runsOfAll[k], k, pictures')
  <2> SUFFICES ASSUME NEW k \in DOMAIN runsOfAll PROVE RunOK(runsOfAll[k], k, pictures')
    OBVIOUS
  <2>1. p.run # k /\ pictures \in Seq(Pictures) /\ RunOK(runsOfAll[k], k, pictures)
    BY <1>2, PicFacts
  <2>2. SameRun(k, pictures, pictures')
    BY <1>1, <1>2, <2>1, AddedElsewhere
  <2> QED BY <2>1, <2>2, RunStays
<1> HIDE DEF last
<1>5. RunsOK(runsOfAll, pictures', visit)
  <2>1. RunsOK(runsOfAll, pictures, visit) /\ Len(runsOfAll) \in Nat
    BY PicFacts DEF PicInv
  <2>2. \A n \in DOMAIN pictures' : pictures'[n].run <= Len(runsOfAll)
    BY <1>2, <1>3, <2>1 DEF RunsOK
  <2> QED BY <1>3, <1>4, <2>1, <2>2 DEF RunsOK
<1>6. OwnersOK(pictureUrls, previewed, pictures', runsOfAll, visit)
  <2>1. OwnersOK(pictureUrls, previewed, pictures, runsOfAll, visit)
    BY DEF PicInv
  <2>2. oneByOne => previewed = 0 /\ \A n : ~Row(pictures, n)
    BY <1>1, ForRowIs DEF ListIsFree, AtRest, Row
  <2>3. \A n : Row(pictures', n) => Row(pictures, n) \/ n = last
    BY <1>3 DEF Row
  <2>4. previewed # 0 => pictures'[previewed].run = 0
    BY <1>3, <2>1 DEF OwnersOK
  <2>5. pictureUrls \subseteq DOMAIN pictures' /\ \A n \in pictureUrls : pictures'[n].state # "asked"
    BY <1>3, <2>1 DEF OwnersOK
  <2>6. oneByOne => \A n : Row(pictures', n) =>
          pictures'[n].visit = visit /\ previewed = 0 /\ \A m : Row(pictures', m) => m = n
    BY <1>2, <1>3, <2>2, <2>3
  <2> QED BY <2>1, <2>4, <2>5, <2>6 DEF OwnersOK
<1>7. RoomOK(runsOfAll, pictures')
  <2>1. ToAsk(runsOfAll) = Coming /\ Cardinality(ToAsk(runsOfAll)) \in Nat
    BY PicFacts, ToAskFinite DEF ToAsk, Coming
  <2>2. Len(pictures) + Cardinality(ToAsk(runsOfAll)) + 1 <= MaxPictures
    BY <1>1, <2>1 DEF MayAsk
  <2> QED BY <1>3, <2>1, <2>2, PicFacts DEF RoomOK, PicInv
<1>8. /\ RunsOK(runsOfAll, pictures, visit)' /\ OwnersOK(pictureUrls, previewed, pictures, runsOfAll, visit)'
      /\ RoomOK(runsOfAll, pictures)'
  BY <1>1, <1>5, <1>6, <1>7 DEF OwnersOK
<1> QED BY <1>1, <1>8 DEF PicInv

\* A picture changes its state, in place.
LEMMA MarkKeeps ==
  ASSUME PicInv, NEW n \in DOMAIN pictures, NEW s \in PictureStates
  PROVE  LET new == Marked(pictures, n, s)
         IN  /\ RunsOK(runsOfAll, new, visit) /\ RoomOK(runsOfAll, new)
             /\ new \in Seq(Pictures) /\ Len(new) = Len(pictures) /\ Alike(pictures, new) /\ new[n].state = s
             /\ \A m \in DOMAIN pictures : m # n => new[m] = pictures[m]
             /\ \A m : Row(new, m) => m # n \/ s = "asked"
             /\ \A m : m # n => (Row(new, m) <=> Row(pictures, m))
<1> DEFINE new == Marked(pictures, n, s)
<1>1. pictures \in Seq(Pictures)
  BY PicFacts
<1>2. /\ new \in Seq(Pictures) /\ Len(new) = Len(pictures) /\ Alike(pictures, new) /\ new[n].state = s
      /\ \A m \in DOMAIN pictures : m # n => new[m] = pictures[m]
  BY <1>1, Marking
<1> HIDE DEF new
<1>3. \A k \in DOMAIN runsOfAll : RunOK(runsOfAll[k], k, new)
  BY <1>2, PicFacts, AlikeIsSameRun, RunStays
<1>4. RunsOK(runsOfAll, new, visit)
  <2>1. RunsOK(runsOfAll, pictures, visit)
    BY DEF PicInv
  <2>2. \A m \in DOMAIN new : new[m].run <= Len(runsOfAll)
    BY <1>2, <2>1 DEF RunsOK, Alike
  <2> QED BY <1>2, <1>3, <2>1, <2>2 DEF RunsOK
<1>5. RoomOK(runsOfAll, new)
  BY <1>2 DEF RoomOK, PicInv
<1>6. \A m : Row(new, m) => m # n \/ s = "asked"
  BY <1>2 DEF Row
<1>7. \A m : m # n => (Row(new, m) <=> Row(pictures, m))
  BY <1>2 DEF Row, Alike
<1> QED BY <1>2, <1>4, <1>5, <1>6, <1>7 DEF new

\* A picture of a row has come, or has failed.
LEMMA PreviewEndsKeeps ==
  ASSUME PicInv, NEW n \in DOMAIN pictures, PreviewReady(n) \/ PreviewFails(n)
  PROVE  PicInv'
<1> DEFINE new == Marked(pictures, n, "done")
<1>1. /\ Row(pictures, n) /\ pictures' = new
      /\ UNCHANGED <<oneByOne, visit, billsShown, runsOfAll, downloadingAll, detail>>
      /\ \/ UNCHANGED <<pictureUrls, previewed>>
         \/ /\ pictureUrls' = pictureUrls \cup {n}
            /\ previewed' = IF pictures[n].visit = visit THEN n ELSE previewed
  BY ForRowIs DEF PreviewReady, PreviewFails, Marked
<1>2. "done" \in PictureStates
  BY DEF PictureStates
<1>3. /\ RunsOK(runsOfAll, new, visit) /\ RoomOK(runsOfAll, new) /\ Alike(pictures, new) /\ new[n].state = "done"
      /\ \A m \in DOMAIN pictures : m # n => new[m] = pictures[m]
      /\ \A m : Row(new, m) => m # n /\ Row(pictures, m)
  <2>1. /\ RunsOK(runsOfAll, new, visit) /\ RoomOK(runsOfAll, new) /\ Alike(pictures, new) /\ new[n].state = "done"
        /\ \A m \in DOMAIN pictures : m # n => new[m] = pictures[m]
        /\ \A m : Row(new, m) => m # n \/ "done" = "asked"
        /\ \A m : m # n => (Row(new, m) <=> Row(pictures, m))
    BY <1>2, MarkKeeps
  <2> QED BY <2>1
<1> HIDE DEF new
<1>4. OwnersOK(pictureUrls, previewed, pictures, runsOfAll, visit)
  BY DEF PicInv
<1>5. n \in Nat /\ n # 0 /\ pictures[n].run = 0 /\ DOMAIN new = DOMAIN pictures /\ new[n].run = 0
  BY <1>1, <1>3, PicFacts DEF Row, Alike
<1>6. oneByOne => pictures[n].visit = visit /\ previewed = 0 /\ \A m : ~Row(new, m)
  BY <1>1, <1>3, <1>4 DEF OwnersOK
<1>7. OwnersOK(pictureUrls', previewed', new, runsOfAll, visit)
  <2>1. previewed' \in Nat /\ pictureUrls' \subseteq DOMAIN new
    BY <1>1, <1>4, <1>5 DEF OwnersOK
  <2>2. \A m \in pictureUrls' : new[m].state # "asked"
    BY <1>1, <1>3, <1>4 DEF OwnersOK
  <2>3. previewed' # 0 => previewed' \in pictureUrls' /\ new[previewed'].run = 0
    BY <1>1, <1>3, <1>4, <1>5 DEF OwnersOK, Alike
  <2>4. oneByOne => \A m \in pictureUrls' : m = previewed' \/ \E k \in DOMAIN runsOfAll : runsOfAll[k].current = m
    <3>1. CASE UNCHANGED <<pictureUrls, previewed>>
      BY <1>4, <3>1 DEF OwnersOK
    <3>2. CASE /\ pictureUrls' = pictureUrls \cup {n}
               /\ previewed' = IF pictures[n].visit = visit THEN n ELSE previewed
      <4>1. \A m \in pictureUrls : m \in Nat /\ m # 0
        BY <1>4, PicFacts DEF OwnersOK
      <4> QED BY <1>4, <1>6, <3>2, <4>1 DEF OwnersOK
    <3> QED BY <1>1, <3>1, <3>2
  <2> QED BY <1>6, <2>1, <2>2, <2>3, <2>4 DEF OwnersOK
<1>8. /\ RunsOK(runsOfAll, pictures, visit)' /\ OwnersOK(pictureUrls, previewed, pictures, runsOfAll, visit)'
      /\ RoomOK(runsOfAll, pictures)'
  BY <1>1, <1>3, <1>7 DEF OwnersOK
<1> QED BY <1>1, <1>8 DEF PicInv

\* A picture of a run has come.
LEMMA SavedToDiskKeeps == ASSUME PicInv, NEW k \in DOMAIN runsOfAll, SavedToDisk(k) PROVE PicInv'
<1> DEFINE n == runsOfAll[k].current
           new == Marked(pictures, n, "saved")
<1>1. /\ n # 0 /\ pictures' = new /\ pictureUrls' = pictureUrls \cup {n}
      /\ UNCHANGED <<oneByOne, visit, billsShown, previewed, runsOfAll, downloadingAll, detail>>
  BY DEF SavedToDisk, InRun, Unfinished, Marked
<1>2. "saved" \in PictureStates /\ n \in DOMAIN pictures /\ pictures[n].run = k /\ k # 0 /\ runsOfAll[k].current = n
  BY <1>1, PicFacts DEF PictureStates, RunOK
<1> HIDE DEF n
<1>3. /\ RunsOK(runsOfAll, new, visit) /\ RoomOK(runsOfAll, new) /\ Alike(pictures, new) /\ new[n].state = "saved"
      /\ \A m \in DOMAIN pictures : m # n => new[m] = pictures[m]
      /\ \A m : m # n => (Row(new, m) <=> Row(pictures, m))
  BY <1>2, MarkKeeps
<1> HIDE DEF new
<1>4. OwnersOK(pictureUrls, previewed, pictures, runsOfAll, visit)
  BY DEF PicInv
<1>5. \A m : Row(new, m) => Row(pictures, m) /\ new[m].visit = pictures[m].visit
  BY <1>2, <1>3 DEF Row, Alike
<1>6. OwnersOK(pictureUrls', previewed, new, runsOfAll, visit)
  <2>1. pictureUrls' \subseteq DOMAIN new /\ \A m \in pictureUrls' : new[m].state # "asked"
    BY <1>1, <1>2, <1>3, <1>4 DEF OwnersOK, Alike
  <2>2. previewed # 0 => previewed \in pictureUrls' /\ new[previewed].run = 0
    BY <1>1, <1>3, <1>4 DEF OwnersOK, Alike
  <2>3. oneByOne => \A m \in pictureUrls' : m = previewed \/ \E j \in DOMAIN runsOfAll : runsOfAll[j].current = m
    BY <1>1, <1>2, <1>4 DEF OwnersOK
  <2> QED BY <1>4, <1>5, <2>1, <2>2, <2>3 DEF OwnersOK
<1>7. /\ RunsOK(runsOfAll, pictures, visit)' /\ OwnersOK(pictureUrls, previewed, pictures, runsOfAll, visit)'
      /\ RoomOK(runsOfAll, pictures)'
  BY <1>1, <1>3, <1>6 DEF OwnersOK
<1> QED BY <1>1, <1>7 DEF PicInv

\* The list is downloaded: a run of its own.
LEMMA DownloadAllKeeps == ASSUME PicInv, NEW b \in Bills, DownloadAll(b) PROVE PicInv'
<1> DEFINE K == Len(runsOfAll) + 1
           last == Len(pictures) + 1
           p == [of |-> b, run |-> K, visit |-> visit, state |-> "asked"]
           r == Pressed(billsShown, b, pictures, visit)
<1>1. /\ ~downloadingAll /\ b \in billsShown /\ billsShown \subseteq Bills /\ MayAsk(Cardinality(billsShown))
      /\ runsOfAll' = Append(runsOfAll, r) /\ pictures' = Append(pictures, p) /\ downloadingAll' = TRUE
      /\ UNCHANGED <<oneByOne, visit, billsShown, previewed, pictureUrls, detail>>
  BY DEF DownloadAll, AskFor, Pressed, PicInv
<1>2. p \in Pictures /\ p.run = K /\ p.of = b /\ K \in Nat /\ K # 0
  BY PicFacts DEF Pictures, PictureStates
<1>3. /\ pictures' \in Seq(Pictures) /\ Len(pictures') = last /\ last \in Nat /\ last # 0
      /\ \A n : n \in DOMAIN pictures' <=> n \in DOMAIN pictures \/ n = last
      /\ last \notin DOMAIN pictures
      /\ pictures'[last] = p /\ \A n \in DOMAIN pictures : pictures'[n] = pictures[n]
  BY <1>1, <1>2, PicFacts, Adding
<1>4. RunsOK(runsOfAll, pictures, visit) /\ OwnersOK(pictureUrls, previewed, pictures, runsOfAll, visit)
  BY DEF PicInv
<1>5. \A n \in DOMAIN pictures : pictures[n].run # K
  <2>1. \A n \in DOMAIN pictures : pictures[n] \in Pictures
    BY PicFacts
  <2>2. \A n \in DOMAIN pictures : pictures[n].run \in Nat /\ pictures[n].run <= Len(runsOfAll)
    BY <1>4, <2>1 DEF RunsOK, Pictures
  <2> QED BY <2>2, PicFacts
<1>6. RunOK(r, K, pictures') /\ r \in Runs /\ r.left = billsShown \ {b} /\ r.current = last /\ r.visit = visit
  <2>1. pictures \in Seq(Pictures) /\ visit \in 1..MaxVisits /\ billsShown \in SUBSET Bills
    BY <1>1, PicFacts
  <2>2. b \in billsShown
    BY <1>1
  <2> HIDE DEF p, K
  <2>3. RunOK(r, K, Append(pictures, p)) /\ r \in Runs
    BY <1>2, <1>5, <2>1, <2>2, RunStarts
  <2>4. r.left = billsShown \ {b} /\ r.current = last /\ r.visit = visit
    BY DEF Pressed
  <2> QED BY <1>1, <2>3, <2>4
<1>7. \A k \in DOMAIN runsOfAll : RunOK(runsOfAll[k], k, pictures')
  <2> SUFFICES ASSUME NEW k \in DOMAIN runsOfAll PROVE RunOK(runsOfAll[k], k, pictures')
    OBVIOUS
  <2>1. p.run # k /\ pictures \in Seq(Pictures) /\ RunOK(runsOfAll[k], k, pictures)
    BY <1>2, PicFacts
  <2>2. SameRun(k, pictures, pictures')
    BY <1>1, <1>2, <2>1, AddedElsewhere
  <2> QED BY <2>1, <2>2, RunStays
<1> HIDE DEF p, r, last
<1>8. /\ runsOfAll' \in Seq(Runs) /\ Len(runsOfAll') = K /\ K \notin DOMAIN runsOfAll
      /\ \A k : k \in DOMAIN runsOfAll' <=> k \in DOMAIN runsOfAll \/ k = K
      /\ runsOfAll'[K] = r /\ \A k \in DOMAIN runsOfAll : runsOfAll'[k] = runsOfAll[k]
  BY <1>1, <1>6, PicFacts
<1>9. \A k \in DOMAIN runsOfAll : ~(runsOfAll[k].current # 0 /\ runsOfAll[k].visit = visit)
  BY <1>1 DEF PicInv, ButtonOK
<1>10. RunsOK(runsOfAll', pictures', visit)
  <2>1. \A k \in DOMAIN runsOfAll' : RunOK(runsOfAll'[k], k, pictures') /\ runsOfAll'[k].visit <= visit
    <3>1. visit \in Nat
      BY PicFacts
    <3> QED BY <1>4, <1>6, <1>7, <1>8, <3>1 DEF RunsOK
  <2>2. \A n \in DOMAIN pictures' : pictures'[n].run <= Len(runsOfAll')
    <3>1. \A n \in DOMAIN pictures : pictures[n] \in Pictures
      BY PicFacts
    <3>2. \A n \in DOMAIN pictures : pictures[n].run \in Nat /\ pictures[n].run <= Len(runsOfAll)
      BY <1>4, <3>1 DEF RunsOK, Pictures
    <3> QED BY <1>2, <1>3, <1>8, <3>2, PicFacts
  <2> HIDE DEF K
  <2>3. \A j \in DOMAIN runsOfAll' : \A k \in DOMAIN runsOfAll' :
          runsOfAll'[j].current # 0 /\ runsOfAll'[k].current # 0 /\ runsOfAll'[j].visit = runsOfAll'[k].visit => j = k
    BY <1>4, <1>6, <1>8, <1>9 DEF RunsOK
  <2> QED BY <1>3, <1>8, <2>1, <2>2, <2>3 DEF RunsOK
<1>11. ButtonOK(downloadingAll', runsOfAll', visit)
  <2> HIDE DEF K
  <2>1. K \in DOMAIN runsOfAll' /\ runsOfAll'[K].current # 0 /\ runsOfAll'[K].visit = visit
    BY <1>3, <1>6, <1>8
  <2> QED BY <1>1, <2>1 DEF ButtonOK
<1>12. OwnersOK(pictureUrls, previewed, pictures', runsOfAll', visit)
  <2> HIDE DEF K
  <2>1. \A n : Row(pictures', n) => Row(pictures, n) /\ pictures'[n] = pictures[n]
    BY <1>2, <1>3 DEF Row
  <2>2. pictureUrls \subseteq DOMAIN pictures' /\ \A n \in pictureUrls : pictures'[n].state # "asked"
    BY <1>3, <1>4 DEF OwnersOK
  <2>3. previewed # 0 => previewed \in pictureUrls /\ pictures'[previewed].run = 0
    BY <1>3, <1>4 DEF OwnersOK
  <2>4. oneByOne => \A n \in pictureUrls : n = previewed \/ \E k \in DOMAIN runsOfAll' : runsOfAll'[k].current = n
    BY <1>4, <1>8 DEF OwnersOK
  <2> QED BY <1>4, <2>1, <2>2, <2>3, <2>4 DEF OwnersOK
<1>13. RoomOK(runsOfAll', pictures')
  <2> DEFINE old == ToAsk(runsOfAll)
             more == {K} \X (billsShown \ {b})
  <2>1. old = Coming /\ IsFiniteSet(old) /\ Cardinality(old) \in Nat
    BY PicFacts, ToAskFinite DEF ToAsk, Coming
  <2>2. IsFiniteSet(billsShown) /\ Cardinality(billsShown) \in Nat
    BY <1>1, PicturesAssumption, FS_Subset, FS_CardinalityType
  <2>3. IsFiniteSet(billsShown \ {b}) /\ Cardinality(billsShown \ {b}) = Cardinality(billsShown) - 1
    BY <1>1, <2>2, FS_RemoveElement
  <2>4. IsFiniteSet(more) /\ Cardinality(more) = Cardinality(billsShown) - 1
    <3>1. IsFiniteSet({K}) /\ Cardinality({K}) = 1
      BY FS_Singleton
    <3>2. IsFiniteSet(more) /\ Cardinality(more) = 1 * Cardinality(billsShown \ {b})
      BY <2>3, <3>1, FS_Product
    <3> QED BY <2>2, <2>3, <3>2
  <2>5. ToAsk(runsOfAll') = old \cup more
    <3> HIDE DEF K
    <3>1. ASSUME NEW kb PROVE kb \in ToAsk(runsOfAll') <=> kb \in old \cup more
      BY <1>1, <1>6, <1>8 DEF ToAsk
    <3> QED BY <3>1
  <2>6. IsFiniteSet(old \cap more) /\ Cardinality(old \cap more) \in Nat
    BY <2>1, FS_Subset, FS_CardinalityType
  <2>7. Cardinality(old \cup more) = Cardinality(old) + Cardinality(more) - Cardinality(old \cap more)
    BY <2>1, <2>4, FS_Union
  <2> HIDE DEF old, more
  <2>8. Len(pictures) + Cardinality(old) + Cardinality(billsShown) <= MaxPictures
    BY <1>1, <2>1 DEF MayAsk
  <2>9. Len(runsOfAll) <= Len(pictures)
    BY DEF PicInv, RoomOK
  <2>10. Len(pictures') + Cardinality(ToAsk(runsOfAll')) <= MaxPictures
    BY <1>3, <2>1, <2>2, <2>4, <2>5, <2>6, <2>7, <2>8, PicFacts DEF last
  <2>11. Len(runsOfAll') <= Len(pictures')
    BY <1>3, <1>8, <2>9, PicFacts DEF last
  <2> QED BY <2>10, <2>11 DEF RoomOK
<1>14. /\ RunsOK(runsOfAll, pictures, visit)' /\ OwnersOK(pictureUrls, previewed, pictures, runsOfAll, visit)'
       /\ RoomOK(runsOfAll, pictures)' /\ ButtonOK(downloadingAll, runsOfAll, visit)'
  BY <1>1, <1>10, <1>11, <1>12, <1>13 DEF OwnersOK
<1>15. downloadingAll' \in BOOLEAN
  BY <1>1
<1> QED BY <1>1, <1>14, <1>15 DEF PicInv

\* The next turn of a loop, or its end, whatever happens to object URLs.
TurnOf(k) ==
  /\ RunsOK(runsOfAll', pictures', visit) /\ RoomOK(runsOfAll', pictures')
  /\ downloadingAll' \in BOOLEAN /\ ButtonOK(downloadingAll', runsOfAll', visit)
  /\ DOMAIN runsOfAll' = DOMAIN runsOfAll /\ \A j \in DOMAIN runsOfAll : j # k => runsOfAll'[j] = runsOfAll[j]
  /\ \A n \in DOMAIN pictures : n \in DOMAIN pictures' /\ pictures'[n].run = pictures[n].run
  /\ \A n \in DOMAIN pictures : n # runsOfAll[k].current => pictures'[n] = pictures[n]
  /\ \A n : Row(pictures', n) => Row(pictures, n) /\ pictures'[n] = pictures[n]

\* The loop of a run takes its next turn, or ends.
LEMMA GoOnKeeps ==
  ASSUME PicInv, NEW k \in DOMAIN runsOfAll, Unfinished(k), GoOn(k)
  PROVE  TurnOf(k)
<1> DEFINE r == runsOfAll[k]
           cur == r.current
           marked == Marked(pictures, cur, "done")
<1>1. cur # 0 /\ r \in Runs /\ RunOK(r, k, pictures)
  BY PicFacts DEF Unfinished
<1>2. "done" \in PictureStates /\ cur \in DOMAIN pictures /\ pictures[cur].run = k /\ k # 0 /\ k \in Nat /\ k <= Len(runsOfAll)
  BY <1>1, PicFacts DEF PictureStates, RunOK
<1>3. RunsOK(runsOfAll, pictures, visit) /\ ButtonOK(downloadingAll, runsOfAll, visit) /\ RoomOK(runsOfAll, pictures)
  BY DEF PicInv
<1>4. IF r.left = {}
      THEN /\ runsOfAll' = [runsOfAll EXCEPT ![k] = Over(r)] /\ pictures' = marked
           /\ downloadingAll' = (downloadingAll /\ r.visit # visit)
      ELSE /\ \E b \in r.left :
                /\ runsOfAll' = [runsOfAll EXCEPT ![k] = GoneOn(r, b, Len(marked) + 1)]
                /\ pictures' = Append(marked, [of |-> b, run |-> k, visit |-> r.visit, state |-> "asked"])
           /\ downloadingAll' = downloadingAll
  BY DEF GoOn, Marked, Over, GoneOn
<1> HIDE DEF cur
<1>5. /\ RunsOK(runsOfAll, marked, visit) /\ marked \in Seq(Pictures) /\ Len(marked) = Len(pictures)
      /\ Alike(pictures, marked) /\ marked[cur].state = "done"
      /\ \A n \in DOMAIN pictures : n # cur => marked[n] = pictures[n]
      /\ \A n : n # cur => (Row(marked, n) <=> Row(pictures, n))
  BY <1>2, MarkKeeps
<1> HIDE DEF marked
<1>6. \A n : Row(marked, n) => Row(pictures, n) /\ marked[n] = pictures[n]
  BY <1>2, <1>5 DEF Row, Alike
<1>7. /\ \A n \in DOMAIN pictures : n \in DOMAIN marked /\ marked[n].run = pictures[n].run
      /\ DOMAIN marked = DOMAIN pictures
  BY <1>5 DEF Alike
<1>8. /\ runsOfAll \in Seq(Runs) /\ DOMAIN runsOfAll = 1..Len(runsOfAll) /\ Len(runsOfAll) \in Nat
      /\ Len(pictures) \in Nat /\ downloadingAll \in BOOLEAN /\ MaxPictures \in Nat
  BY PicFacts DEF PicInv
<1>9. /\ RunOK(r, k, marked) /\ r.visit <= visit
      /\ \A j \in DOMAIN runsOfAll : RunOK(runsOfAll[j], j, marked) /\ runsOfAll[j].visit <= visit
  BY <1>5 DEF RunsOK
<1>10. /\ \A n \in DOMAIN marked : marked[n].run <= Len(runsOfAll)
       /\ \A i \in DOMAIN runsOfAll : \A j \in DOMAIN runsOfAll :
            runsOfAll[i].current # 0 /\ runsOfAll[j].current # 0 /\ runsOfAll[i].visit = runsOfAll[j].visit => i = j
  BY <1>5 DEF RunsOK
<1>11. runsOfAll[k] = r /\ r.current = cur
  BY DEF cur
<1>12. CASE r.left = {}
  <2> DEFINE now == Over(r)
  <2>1. /\ runsOfAll' = [runsOfAll EXCEPT ![k] = now] /\ pictures' = marked
        /\ downloadingAll' = (downloadingAll /\ r.visit # visit)
    BY <1>4, <1>12
  <2>2. RunOK(now, k, marked) /\ now \in Runs /\ now.left = r.left /\ now.current = 0 /\ now.visit = r.visit
    BY <1>1, <1>9, <1>12, RunEnds
  <2> HIDE DEF now, r
  <2>3. /\ runsOfAll' \in Seq(Runs) /\ Len(runsOfAll') = Len(runsOfAll) /\ DOMAIN runsOfAll' = DOMAIN runsOfAll
        /\ runsOfAll'[k] = now /\ \A j \in DOMAIN runsOfAll : j # k => runsOfAll'[j] = runsOfAll[j]
    BY <1>8, <2>1, <2>2
  <2>4. RunsOK(runsOfAll', marked, visit)
    <3>1. \A j \in DOMAIN runsOfAll' : RunOK(runsOfAll'[j], j, marked) /\ runsOfAll'[j].visit <= visit
      BY <1>9, <2>2, <2>3
    <3>2. \A i \in DOMAIN runsOfAll' : \A j \in DOMAIN runsOfAll' :
            runsOfAll'[i].current # 0 /\ runsOfAll'[j].current # 0 /\ runsOfAll'[i].visit = runsOfAll'[j].visit => i = j
      BY <1>10, <2>2, <2>3
    <3> QED BY <1>5, <1>10, <2>3, <3>1, <3>2 DEF RunsOK
  <2>5. RoomOK(runsOfAll', marked)
    <3>1. ASSUME NEW kb PROVE kb \in ToAsk(runsOfAll') <=> kb \in ToAsk(runsOfAll)
      BY <1>11, <2>2, <2>3 DEF ToAsk
    <3>2. ToAsk(runsOfAll') = ToAsk(runsOfAll)
      BY <3>1
    <3> QED BY <1>3, <1>5, <2>3, <3>2 DEF RoomOK
  <2>6. downloadingAll' \in BOOLEAN
    BY <1>8, <2>1
  <2>7. ButtonOK(downloadingAll', runsOfAll', visit)
    <3>1. downloadingAll <=> \E j \in DOMAIN runsOfAll : runsOfAll[j].current # 0 /\ runsOfAll[j].visit = visit
      BY <1>3 DEF ButtonOK
    <3>2. downloadingAll' <=> downloadingAll /\ r.visit # visit
      BY <2>1
    <3>3. CASE r.visit = visit
      <4>1. \A j \in DOMAIN runsOfAll : runsOfAll[j].current # 0 /\ runsOfAll[j].visit = visit => j = k
        BY <1>1, <1>10, <1>11, <3>3
      <4>2. ~\E j \in DOMAIN runsOfAll' : runsOfAll'[j].current # 0 /\ runsOfAll'[j].visit = visit
        BY <2>2, <2>3, <4>1
      <4> QED BY <3>2, <3>3, <4>2 DEF ButtonOK
    <3>4. CASE r.visit # visit
      <4>1. \A j \in DOMAIN runsOfAll : (runsOfAll'[j].current # 0 /\ runsOfAll'[j].visit = visit)
                                          <=> (runsOfAll[j].current # 0 /\ runsOfAll[j].visit = visit)
        BY <1>11, <2>2, <2>3, <3>4
      <4> QED BY <2>3, <3>1, <3>2, <3>4, <4>1 DEF ButtonOK
    <3> QED BY <3>3, <3>4
  <2> QED BY <1>5, <1>6, <1>7, <1>11, <2>1, <2>3, <2>4, <2>5, <2>6, <2>7 DEF TurnOf
<1>13. CASE r.left # {}
  <2>1. PICK b \in r.left :
          /\ runsOfAll' = [runsOfAll EXCEPT ![k] = GoneOn(r, b, Len(marked) + 1)]
          /\ pictures' = Append(marked, [of |-> b, run |-> k, visit |-> r.visit, state |-> "asked"])
    BY <1>4, <1>13
  <2> DEFINE last == Len(marked) + 1
             p == [of |-> b, run |-> k, visit |-> r.visit, state |-> "asked"]
             now == GoneOn(r, b, last)
  <2>2. p \in Pictures /\ p.run = k /\ p.of = b
    BY <1>1, <1>2 DEF Pictures, PictureStates, Runs
  <2> HIDE DEF p
  <2>3. LET then == GoneOn(r, b, Len(marked) + 1)
        IN  /\ RunOK(then, k, Append(marked, p)) /\ then \in Runs /\ then.left = r.left \ {b}
            /\ then.current = Len(marked) + 1 /\ then.visit = r.visit
    BY <1>1, <1>5, <1>9, <2>2, RunGoesOn
  <2>4. /\ runsOfAll' = [runsOfAll EXCEPT ![k] = now] /\ pictures' = Append(marked, p) /\ downloadingAll' = downloadingAll
        /\ RunOK(now, k, pictures') /\ now \in Runs /\ now.left = r.left \ {b} /\ now.current = last /\ now.visit = r.visit
    BY <1>4, <1>13, <2>1, <2>3 DEF p
  <2>5. /\ pictures' \in Seq(Pictures) /\ Len(pictures') = Len(marked) + 1 /\ last \in Nat /\ last # 0
        /\ \A n : n \in DOMAIN pictures' <=> n \in DOMAIN marked \/ n = last
        /\ last \notin DOMAIN marked
        /\ pictures'[last] = p /\ \A n \in DOMAIN marked : pictures'[n] = marked[n]
    <3>1. /\ Append(marked, p) \in Seq(Pictures) /\ Len(Append(marked, p)) = Len(marked) + 1 /\ Len(marked) \in Nat
          /\ \A n : n \in DOMAIN Append(marked, p) <=> n \in DOMAIN marked \/ n = Len(marked) + 1
          /\ Len(marked) + 1 \notin DOMAIN marked
          /\ Append(marked, p)[Len(marked) + 1] = p /\ \A n \in DOMAIN marked : Append(marked, p)[n] = marked[n]
      BY <1>5, <2>2, Adding
    <3> QED BY <2>4, <3>1
  <2>6. \A j \in DOMAIN runsOfAll : j # k => RunOK(runsOfAll[j], j, pictures')
    <3> SUFFICES ASSUME NEW j \in DOMAIN runsOfAll, j # k PROVE RunOK(runsOfAll[j], j, pictures')
      OBVIOUS
    <3>1. p.run # j /\ RunOK(runsOfAll[j], j, marked)
      BY <1>9, <2>2
    <3>2. SameRun(j, marked, pictures')
      BY <1>5, <2>2, <2>4, <3>1, AddedElsewhere
    <3> QED BY <3>1, <3>2, RunStays
  <2> HIDE DEF last, now, r
  <2>7. /\ runsOfAll' \in Seq(Runs) /\ Len(runsOfAll') = Len(runsOfAll) /\ DOMAIN runsOfAll' = DOMAIN runsOfAll
        /\ runsOfAll'[k] = now /\ \A j \in DOMAIN runsOfAll : j # k => runsOfAll'[j] = runsOfAll[j]
    BY <1>8, <2>4
  <2>8. \A j \in DOMAIN runsOfAll : /\ runsOfAll'[j].visit = runsOfAll[j].visit
                                    /\ runsOfAll'[j].current # 0 <=> runsOfAll[j].current # 0
    BY <1>1, <1>11, <2>4, <2>5, <2>7
  <2>9. RunsOK(runsOfAll', pictures', visit)
    <3>1. \A j \in DOMAIN runsOfAll' : RunOK(runsOfAll'[j], j, pictures') /\ runsOfAll'[j].visit <= visit
      BY <1>9, <2>4, <2>6, <2>7
    <3>2. \A n \in DOMAIN pictures' : pictures'[n].run <= Len(runsOfAll')
      BY <1>2, <1>10, <2>2, <2>5, <2>7
    <3>3. \A i \in DOMAIN runsOfAll' : \A j \in DOMAIN runsOfAll' :
            runsOfAll'[i].current # 0 /\ runsOfAll'[j].current # 0 /\ runsOfAll'[i].visit = runsOfAll'[j].visit => i = j
      BY <1>10, <2>7, <2>8
    <3> QED BY <2>5, <2>7, <3>1, <3>2, <3>3 DEF RunsOK
  <2>10. RoomOK(runsOfAll', pictures')
    <3> DEFINE old == ToAsk(runsOfAll)
    <3>1. IsFiniteSet(old) /\ Cardinality(old) \in Nat
      BY <1>8, ToAskFinite
    <3>2. <<k, b>> \in old
      <4>1. r.left \subseteq Bills
        BY <1>1 DEF Runs
      <4> QED BY <1>11, <4>1 DEF ToAsk
    <3>3. ASSUME NEW kb PROVE kb \in ToAsk(runsOfAll') <=> kb \in old /\ kb # <<k, b>>
      BY <1>11, <2>4, <2>7 DEF ToAsk
    <3>4. ToAsk(runsOfAll') = old \ {<<k, b>>}
      BY <3>3
    <3> HIDE DEF old
    <3>5. Cardinality(ToAsk(runsOfAll')) = Cardinality(old) - 1
      BY <3>1, <3>2, <3>4, FS_RemoveElement
    <3>6. Len(runsOfAll) <= Len(pictures) /\ Len(pictures) + Cardinality(old) <= MaxPictures
      BY <1>3 DEF RoomOK, old
    <3>7. Len(pictures') + Cardinality(ToAsk(runsOfAll')) <= MaxPictures /\ Len(runsOfAll') <= Len(pictures')
      BY <1>5, <1>8, <2>5, <2>7, <3>1, <3>5, <3>6
    <3> QED BY <3>7 DEF RoomOK
  <2>11. downloadingAll' \in BOOLEAN /\ ButtonOK(downloadingAll', runsOfAll', visit)
    <3>1. downloadingAll <=> \E j \in DOMAIN runsOfAll : runsOfAll[j].current # 0 /\ runsOfAll[j].visit = visit
      BY <1>3 DEF ButtonOK
    <3>2. downloadingAll' <=> \E j \in DOMAIN runsOfAll' : runsOfAll'[j].current # 0 /\ runsOfAll'[j].visit = visit
      BY <2>4, <2>7, <2>8, <3>1
    <3> QED BY <1>8, <2>4, <3>2 DEF ButtonOK
  <2>12. \A n : Row(pictures', n) => Row(pictures, n) /\ pictures'[n] = pictures[n]
    <3>1. \A n : Row(pictures', n) => Row(marked, n) /\ pictures'[n] = marked[n]
      BY <1>2, <2>2, <2>5 DEF Row
    <3> QED BY <1>6, <3>1
  <2>13. \A n \in DOMAIN pictures : n \in DOMAIN pictures' /\ pictures'[n].run = pictures[n].run
                                    /\ (n # cur => pictures'[n] = pictures[n])
    BY <1>5, <1>7, <2>5
  <2> QED BY <1>11, <2>7, <2>9, <2>10, <2>11, <2>12, <2>13 DEF TurnOf
<1> QED BY <1>12, <1>13

\* The 300 ms are over, or the picture failed.
LEMMA NextPictureKeeps ==
  ASSUME PicInv, NEW k \in DOMAIN runsOfAll, AfterPause(k) \/ OneFails(k)
  PROVE  PicInv'
<1> DEFINE cur == runsOfAll[k].current
<1>1. /\ GoOn(k) /\ Unfinished(k) /\ UNCHANGED <<oneByOne, visit, billsShown, previewed, detail>>
      /\ \/ pictureUrls' = pictureUrls \ {cur}
         \/ pictureUrls' = pictureUrls /\ pictures[cur].state = "asked"
  BY DEF AfterPause, OneFails, InRun
<1>2. TurnOf(k)
  BY <1>1, GoOnKeeps
<1>3. OwnersOK(pictureUrls, previewed, pictures, runsOfAll, visit)
  BY DEF PicInv
<1>4. cur # 0 /\ cur \in DOMAIN pictures /\ pictures[cur].run = k /\ k # 0 /\ runsOfAll[k].current = cur
  BY <1>1, PicFacts DEF Unfinished, RunOK
<1> HIDE DEF cur
<1>5. \A n : n \in pictureUrls' <=> n \in pictureUrls /\ n # cur
  BY <1>1, <1>3 DEF OwnersOK
<1>6. /\ DOMAIN runsOfAll' = DOMAIN runsOfAll /\ \A j \in DOMAIN runsOfAll : j # k => runsOfAll'[j] = runsOfAll[j]
      /\ \A n \in DOMAIN pictures : n \in DOMAIN pictures' /\ pictures'[n].run = pictures[n].run
      /\ \A n \in DOMAIN pictures : n # cur => pictures'[n] = pictures[n]
      /\ \A n : Row(pictures', n) => Row(pictures, n) /\ pictures'[n] = pictures[n]
  BY <1>2, <1>4 DEF TurnOf
<1>7. OwnersOK(pictureUrls', previewed, pictures', runsOfAll', visit)
  <2>1. pictureUrls' \subseteq DOMAIN pictures' /\ \A n \in pictureUrls' : pictures'[n].state # "asked"
    BY <1>3, <1>5, <1>6 DEF OwnersOK
  <2>2. previewed # 0 => previewed \in pictureUrls' /\ pictures'[previewed].run = 0
    BY <1>3, <1>4, <1>5, <1>6 DEF OwnersOK
  <2>3. oneByOne => \A n \in pictureUrls' : n = previewed \/ \E j \in DOMAIN runsOfAll' : runsOfAll'[j].current = n
    BY <1>3, <1>4, <1>5, <1>6 DEF OwnersOK
  <2> QED BY <1>3, <1>6, <2>1, <2>2, <2>3 DEF OwnersOK
<1>8. /\ RunsOK(runsOfAll, pictures, visit)' /\ OwnersOK(pictureUrls, previewed, pictures, runsOfAll, visit)'
      /\ RoomOK(runsOfAll, pictures)' /\ ButtonOK(downloadingAll, runsOfAll, visit)' /\ downloadingAll' \in BOOLEAN
  BY <1>1, <1>2, <1>7 DEF OwnersOK, TurnOf
<1> QED BY <1>1, <1>8 DEF PicInv

\* The invariant of the pictures.
LEMMA PicInvStep == PicInv /\ [PictureNext]_pictureVars => PicInv'
<1> SUFFICES ASSUME PicInv, [PictureNext]_pictureVars PROVE PicInv'
  OBVIOUS
<1>1. CASE \E list \in SUBSET Bills : ListChanges(list)
  BY <1>1, ListChangesKeeps
<1>2. CASE \E b \in Bills : Download(b) \/ DownloadAll(b)
  BY <1>2, DownloadKeeps, DownloadAllKeeps
<1>3. CASE ClosePreview
  BY <1>3, ClosePreviewKeeps
<1>4. CASE ShowAgain
  BY <1>4, ShowAgainKeeps
<1>5. CASE OpenDetail \/ CloseDrawing \/ (\E what \in Drawings : Draw(what)) \/ DrawingEnds
  BY <1>5, DetailKeeps DEF DrawingEnds
<1>6. CASE \E n \in DOMAIN pictures : PreviewReady(n) \/ PreviewFails(n)
  BY <1>6, PreviewEndsKeeps
<1>7. CASE \E k \in DOMAIN runsOfAll : SavedToDisk(k) \/ AfterPause(k) \/ OneFails(k)
  BY <1>7, SavedToDiskKeeps, NextPictureKeeps
<1>8. CASE UNCHANGED pictureVars
  BY <1>8 DEF pictureVars, PicInv, OwnersOK
<1> QED BY <1>1, <1>2, <1>3, <1>4, <1>5, <1>6, <1>7, <1>8 DEF PictureNext, PictureEnds

\* It holds at first.
LEMMA PicInvInit == PictureInit => PicInv
<1> SUFFICES ASSUME PictureInit PROVE PicInv
  OBVIOUS
<1>1. /\ oneByOne \in BOOLEAN /\ visit = 1 /\ billsShown = Bills /\ pictures = <<>> /\ previewed = 0
      /\ pictureUrls = {} /\ runsOfAll = <<>> /\ downloadingAll = FALSE /\ detail = NoDetail
  BY DEF PictureInit
<1>2. visit \in 1..MaxVisits
  BY <1>1, PicturesAssumption
<1>3. DetailOK(detail)
  BY <1>1 DEF DetailOK, NoDetail
<1>4. RunsOK(runsOfAll, pictures, visit)
  BY <1>1 DEF RunsOK
<1>5. downloadingAll \in BOOLEAN /\ ButtonOK(downloadingAll, runsOfAll, visit)
  <2>1. DOMAIN runsOfAll = {}
    BY <1>1
  <2>2. ~downloadingAll /\ downloadingAll \in BOOLEAN
    BY <1>1
  <2>3. ButtonOK(downloadingAll, runsOfAll, visit)
    BY <2>1, <2>2 DEF ButtonOK
  <2> QED BY <2>2, <2>3
<1>6. OwnersOK(pictureUrls, previewed, pictures, runsOfAll, visit)
  BY <1>1 DEF OwnersOK, Row
<1>7. RoomOK(runsOfAll, pictures)
  <2>1. ToAsk(runsOfAll) = {}
    BY <1>1 DEF ToAsk
  <2>2. Cardinality(ToAsk(runsOfAll)) = 0
    BY <2>1, FS_EmptySet
  <2>3. Len(runsOfAll) = 0 /\ Len(pictures) = 0
    BY <1>1
  <2> QED BY <2>2, <2>3, PicturesAssumption DEF RoomOK
<1> QED BY <1>1, <1>2, <1>3, <1>4, <1>5, <1>6, <1>7 DEF PicInv

\* What the invariant promises of object URLs, runs and the button.
LEMMA PicPromises == PicInv => PicturesHold
<1> SUFFICES ASSUME PicInv PROVE PicturesHold
  OBVIOUS
<1>1. UrlsHaveOwner
  BY DEF UrlsHaveOwner, PicInv, OwnersOK
<1>2. ASSUME NEW k \in DOMAIN runsOfAll, ~Unfinished(k), NEW b \in runsOfAll[k].listed
      PROVE  Cardinality({n \in DOMAIN pictures : pictures[n].run = k /\ pictures[n].of = b}) = 1
  <2>1. RunOK(runsOfAll[k], k, pictures) /\ runsOfAll[k].left = {}
    BY <1>2, PicFacts DEF Unfinished, RunOK
  <2>2. PICK m \in DOMAIN pictures : pictures[m].run = k /\ pictures[m].of = b
    BY <1>2, <2>1 DEF RunOK
  <2>3. {n \in DOMAIN pictures : pictures[n].run = k /\ pictures[n].of = b} = {m}
    BY <2>1, <2>2 DEF RunOK
  <2> QED BY <2>3, FS_Singleton
<1>3. downloadingAll = \E k \in DOMAIN runsOfAll : Unfinished(k) /\ runsOfAll[k].visit = visit
  BY DEF PicInv, ButtonOK, Unfinished
<1> QED BY <1>1, <1>2, <1>3 DEF PicturesHold, AllAskedOnce

\* What it says of the types.
LEMMA PicTypes == PicInv => PictureTypeOK
<1> SUFFICES ASSUME PicInv PROVE PictureTypeOK
  OBVIOUS
<1>1. /\ Len(runsOfAll) <= Len(pictures) /\ Len(pictures) <= MaxPictures
      /\ Len(pictures) \in Nat /\ Len(runsOfAll) \in Nat /\ MaxPictures \in Nat
  <2>1. Cardinality(ToAsk(runsOfAll)) \in Nat
    BY PicFacts, ToAskFinite
  <2> QED BY <2>1, PicFacts DEF PicInv, RoomOK
<1>2. DOMAIN pictures \subseteq Numbers /\ 0 \in Numbers
  BY <1>1, PicFacts DEF Numbers
<1> DEFINE P == [of : Bills, run : 0..MaxPictures, visit : 1..MaxVisits, state : {"asked", "saved", "done"}]
           R == [listed : SUBSET Bills, left : SUBSET Bills, current : Numbers, visit : 1..MaxVisits]
<1>3. pictures \in Seq(P)
  <2>1. \A n \in DOMAIN pictures : pictures[n] \in Pictures /\ pictures[n].run <= Len(runsOfAll)
    BY PicFacts DEF PicInv, RunsOK
  <2>2. \A n \in DOMAIN pictures : pictures[n].run \in 0..MaxPictures
    BY <1>1, <2>1 DEF Pictures
  <2>3. \A n \in DOMAIN pictures : pictures[n] \in P
    BY <2>1, <2>2 DEF Pictures, PictureStates
  <2>4. pictures = [n \in 1..Len(pictures) |-> pictures[n]] /\ DOMAIN pictures = 1..Len(pictures)
    BY PicFacts
  <2> HIDE DEF P
  <2> QED BY <1>1, <2>3, <2>4, ListByIndex
<1>4. runsOfAll \in Seq(R)
  <2>1. \A k \in DOMAIN runsOfAll : runsOfAll[k] \in Runs /\ runsOfAll[k].current \in Numbers
    BY <1>2, PicFacts DEF RunOK
  <2>2. \A k \in DOMAIN runsOfAll : runsOfAll[k] \in R
    BY <2>1 DEF Runs
  <2>3. runsOfAll = [k \in 1..Len(runsOfAll) |-> runsOfAll[k]] /\ DOMAIN runsOfAll = 1..Len(runsOfAll)
    BY PicFacts
  <2> HIDE DEF R
  <2> QED BY <1>1, <2>2, <2>3, ListByIndex
<1>5. previewed \in Numbers /\ pictureUrls \subseteq Numbers
  BY <1>2 DEF PicInv, OwnersOK
<1>6. /\ oneByOne \in BOOLEAN /\ visit \in 1..MaxVisits /\ billsShown \subseteq Bills /\ downloadingAll \in BOOLEAN
      /\ detail \in [open : BOOLEAN, drawing : SUBSET Drawings, shown : BOOLEAN]
  BY DEF PicInv, DetailOK
<1> QED BY <1>3, <1>4, <1>5, <1>6 DEF PictureTypeOK

-----------------------------------------------------------------------------
(* All parts with images together.  The page that optimises and the form that *)
(* uploads share the compression service: where one is not shown, it has no   *)
(* job with it.                                                               *)

ImagesInv ==
  /\ OptimizerInv /\ (part # "optimizer" => \A q \in Queues : queues[q].todo = <<>>)
  /\ UploadInv /\ ViewerInv /\ PicInv

\* The invariant holds at first.
LEMMA ImagesInvInit == Init => ImagesInv
<1> SUFFICES ASSUME Init PROVE ImagesInv
  OBVIOUS
<1>1. OptimizerInit /\ UploadInit /\ ViewerInit /\ PictureInit
  BY DEF Init
<1>2. \A q \in Queues : queues[q].todo = <<>>
  BY <1>1 DEF OptimizerInit
<1> QED BY <1>1, <1>2, OptimizerInvInit, UploadInvInit, ViewerInvInit, PicInvInit DEF ImagesInv

\* Every step of the client keeps it, whichever part is shown.
LEMMA ImagesInvStep == ImagesInv /\ [Next]_vars => ImagesInv'
<1> SUFFICES ASSUME ImagesInv, [Next]_vars PROVE ImagesInv'
  OBVIOUS
<1>1. /\ part' = part
      /\ IF part = "optimizer" THEN [OptimizerNext]_optimizerVars ELSE UNCHANGED pageVars
      /\ IF part = "upload" THEN [UploadNext]_uploadVars ELSE UNCHANGED formVars
      /\ part \notin {"optimizer", "upload"} => UNCHANGED service
      /\ [ViewerNext]_viewerVars /\ [PictureNext]_pictureVars
  BY ImagePartsStep
<1>2. OptimizerInv /\ UploadInv /\ ViewerInv /\ PicInv /\ ServiceOK(service)
  BY DEF ImagesInv, OptimizerInv
<1>3. ViewerInv' /\ PicInv'
  BY <1>1, <1>2, ViewerInvStep, PicInvStep
<1>4. CASE part = "optimizer"
  <2>1. OptimizerInv'
    BY <1>1, <1>2, <1>4, OptimizerInvStep
  <2>2. UNCHANGED <<selections, files, optimizing, form, removed>>
    BY <1>1, <1>4 DEF formVars
  <2>3. UploadInv'
    BY <1>2, <2>2 DEF UploadInv
  <2> QED BY <1>1, <1>3, <1>4, <2>1, <2>3 DEF ImagesInv
<1>5. CASE part # "optimizer"
  <2>1. UploadInv' /\ ServiceOK(service')
    <3>1. CASE part = "upload"
      BY <1>1, <1>2, <3>1, UploadInvStep
    <3>2. CASE part # "upload"
      <4>1. UNCHANGED <<selections, files, optimizing, form, removed, service>>
        BY <1>1, <1>5, <3>2 DEF formVars
      <4>2. UploadInv'
        BY <1>2, <4>1 DEF UploadInv
      <4> QED BY <1>2, <4>1, <4>2
    <3> QED BY <3>1, <3>2
  <2>2. UNCHANGED <<items, preset, processing, queues, urls, seqs, bubbling, mounted>>
    BY <1>1, <1>5 DEF pageVars
  <2>3. OptimizerPage'
    BY <1>2, <2>2 DEF OptimizerInv, OptimizerPage
  <2>4. \A q \in Queues : queues'[q].todo = <<>>
    BY <1>5, <2>2 DEF ImagesInv
  <2>5. JobsThere(queues, service)'
    BY <2>4 DEF JobsThere
  <2>6. OptimizerInv'
    BY <2>1, <2>3, <2>5 DEF OptimizerInv
  <2> QED BY <1>1, <1>3, <2>1, <2>4, <2>6 DEF ImagesInv
<1> QED BY <1>4, <1>5

\* No caller of the compression service waits for an answer that cannot come: what
\* it awaits the living worker has, whoever posted it and whatever failed or timed
\* out before.
THEOREM CompressionLosesNoJob == Spec => []NoJobLost
<1>1. Init => ImagesInv
  BY ImagesInvInit
<1>2. ImagesInv /\ [Next]_vars => ImagesInv'
  BY ImagesInvStep
<1>3. ImagesInv => NoJobLost
  BY OptimizerPromises DEF ImagesInv
<1> HIDE DEF ImagesInv, NoJobLost
<1> QED BY <1>1, <1>2, <1>3, PTL DEF Spec

\* What a page shows of images, files and pictures is there, and what it waits for
\* is on its way: no URL is shown after it was revoked or kept without a viewer, an
\* unfinished image is in a queue, a spinner has its download, and "download all"
\* asks once for every invoice.
THEOREM ImagesStayTrue == Spec => []ImagesHold
<1>1. Init => ImagesInv
  BY ImagesInvInit
<1>2. ImagesInv /\ [Next]_vars => ImagesInv'
  BY ImagesInvStep
<1>3. ImagesInv => ImagesHold
  BY OptimizerPromises, ViewerPromises, PicPromises DEF ImagesInv, ImagesHold
<1> HIDE DEF ImagesInv, ImagesHold
<1> QED BY <1>1, <1>2, <1>3, PTL DEF Spec

\* A form is sent with every file that was chosen and not removed again, each once
\* and in the order it was chosen, whichever compression ends first or fails.
THEOREM FormSendsAllFiles == Spec => SubmittedFilesComplete
<1>1. Init => ImagesInv
  BY ImagesInvInit
<1>2. ImagesInv /\ [Next]_vars => ImagesInv'
  BY ImagesInvStep
<1>3. ASSUME ImagesInv, [Next]_vars
      PROVE  [form' = "sending" =>
                /\ ToSet(files) = ChosenFiles \ removed
                /\ Cardinality(ToSet(files)) = Len(files)
                /\ \A x, y \in ToSet(files) : x[1] = y[1] /\ x[2] < y[2] => Before(x, y)]_form
  <2>1. UploadInv
    BY <1>3 DEF ImagesInv
  <2>2. [UploadNext]_uploadVars \/ UNCHANGED formVars
    BY <1>3, ImagePartsStep
  <2>3. CASE UNCHANGED formVars
    BY <2>3 DEF formVars
  <2> QED BY <2>1, <2>2, <2>3, SubmitsAll
<1> HIDE DEF ImagesInv
<1> QED BY <1>1, <1>2, <1>3, PTL DEF Spec, SubmittedFilesComplete

-----------------------------------------------------------------------------
(* The types of the client as a whole: what the invariants of its parts say   *)
(* of them, and what is counted against the bounds of the model.              *)
StoresInv == SetupInv /\ SheetInv /\ LoadInv /\ NavInv /\ CardInv /\ ProfileInv /\ SessionInv
StoresTyped ==
  /\ part \in Parts
  /\ SetupTyped /\ SheetTyped /\ LoadTyped /\ CardTyped /\ ProfileTyped /\ SessionTyped /\ DocTyped
ClientInv == ImagesInv /\ StoresInv /\ StoresTyped

LEMMA ClientInvInit == Init => ClientInv
<1> SUFFICES ASSUME Init PROVE ClientInv
  OBVIOUS
<1>1. part \in Parts
  BY DEF Init
<1>2. StoresInv
  BY PartsInit, SetupInvInit, SheetInvInit, LoadInvInit, NavInvInit, CardInvInit, ProfileInvInit, SessionInvInit DEF StoresInv
<1>3. StoresTyped
  BY <1>1, PartsInit, SetupTypedInit, SheetTypedInit, LoadTypedInit, CardTypedInit, ProfileTypedInit,
     SessionTypedInit, DocTypedInit DEF StoresTyped
<1> QED BY <1>2, <1>3, ImagesInvInit DEF ClientInv

LEMMA ClientInvStep == ClientInv /\ [Next]_vars => ClientInv'
<1> SUFFICES ASSUME ClientInv, [Next]_vars PROVE ClientInv'
  OBVIOUS
<1>1. ImagesInv /\ StoresInv /\ StoresTyped
  BY DEF ClientInv
<1>2. part' \in Parts
  BY <1>1 DEF StoresTyped, Next, vars
<1>3. StoresInv'
  BY <1>1, PartsStep, SetupInvStep, SheetInvStep, LoadInvStep, NavInvStep, CardInvStep, ProfileInvStep, SessionInvStep
     DEF StoresInv
<1>4. StoresTyped'
  BY <1>1, <1>2, PartsStep, SetupTypedStep, SheetTypedStep, LoadTypedStep, CardTypedStep, ProfileTypedStep,
     SessionTypedStep, DocTypedStep DEF StoresInv, StoresTyped
<1> QED BY <1>1, <1>3, <1>4, ImagesInvStep DEF ClientInv

\* Every part keeps to its types, however long the client is used, and its requests,
\* tokens, pages and files to the bounds of the model.
THEOREM ClientTypes == Spec => []TypeOK
<1>1. Init => ClientInv
  BY ClientInvInit
<1>2. ClientInv /\ [Next]_vars => ClientInv'
  BY ClientInvStep
<1>3. ClientInv => TypeOK
  <2> SUFFICES ASSUME ImagesInv, StoresInv, StoresTyped PROVE TypeOK
    BY DEF ClientInv
  <2>1. OptimizerTypeOK /\ UploadTypeOK /\ ViewerTypeOK /\ PictureTypeOK
    BY OptimizerPromises, UploadTypes, ViewerTypes, PicTypes DEF ImagesInv
  <2>2. SetupTypeOK /\ SheetTypeOK /\ LoadTypeOK /\ CardTypeOK /\ ProfileTypeOK /\ SessionTypeOK /\ DocTypeOK
    BY SetupTypesHold, SheetTypesHold, LoadTypesHold, CardTypesHold, ProfileTypesHold, SessionTypesHold, DocTypesHold
       DEF StoresInv, StoresTyped
  <2>3. part \in Parts /\ NavTypeOK
    BY DEF StoresInv, StoresTyped, NavInv
  <2> QED BY <2>1, <2>2, <2>3 DEF TypeOK
<1> HIDE DEF ClientInv, TypeOK
<1> QED BY <1>1, <1>2, <1>3, PTL DEF Spec
=============================================================================
