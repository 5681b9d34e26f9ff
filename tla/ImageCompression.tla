-------------------------- MODULE ImageCompression --------------------------
(* The browser's image compression service: one Web Worker shared by every    *)
(* caller, the map of jobs that await its answer, and the timer that stops    *)
(* an idle worker.  A job is named by the call of compressViaWorker it stands *)
(* for; its caller continues in the same turn of the event loop in which the  *)
(* answer is delivered, so the pages below compose these operators with       *)
(* their own continuation.                                                    *)
EXTENDS OrderedLists, SequencesExt

CONSTANT Jobs

VARIABLE service

Services ==
  [alive : BOOLEAN,          \* worker # null
   pending : Seq(Jobs),      \* pendingJobs, in insertion order
   posted : SUBSET Jobs,     \* jobs the living worker has received and not answered
   timer : BOOLEAN,          \* idleTimer is armed
   rejected : Seq(Jobs)]     \* jobs whose rejection is still to be delivered

ServiceInit ==
  service = [alive |-> FALSE, pending |-> <<>>, posted |-> {}, timer |-> FALSE, rejected |-> <<>>]

\* Promise callbacks run before the next event of the page.
Quiet == service.rejected = <<>>

Without(seq, j) == Filtered(seq, {n \in DOMAIN seq : seq[n] # j})

\* compressViaWorker: registers the job, stops the timer, starts a worker if
\* there is none, and posts.
Posted(s, j) ==
  [s EXCEPT !.alive = TRUE, !.pending = Append(@, j), !.posted = @ \cup {j}, !.timer = FALSE]

\* worker.onmessage: the last answer arms the idle timer.
Answered(s, j) ==
  [s EXCEPT !.pending = Without(@, j), !.posted = @ \ {j},
            !.timer = @ \/ Without(s.pending, j) = <<>>]

\* worker.onerror that forgets the callers
FailedSilently(s) == [s EXCEPT !.alive = FALSE, !.posted = {}]

\* worker.onerror: every awaiting caller is rejected, the worker is discarded.
Failed(s) ==
  [s EXCEPT !.alive = FALSE, !.posted = {}, !.pending = <<>>, !.rejected = s.pending]

\* The idle timer fires.
TimedOut(s) ==
  IF s.pending = <<>> THEN [s EXCEPT !.alive = FALSE, !.posted = {}, !.timer = FALSE]
  ELSE [s EXCEPT !.timer = FALSE]

CanAnswer(j) == Quiet /\ j \in service.posted

\* The rejection of the first job of failAllPending reaches its caller.
CanReject(j) == ~Quiet /\ j = Head(service.rejected)
Rejected(s) == [s EXCEPT !.rejected = Tail(@)]

WorkerFails == Quiet /\ service.alive /\ service' = Failed(service)

IdleTimeout == Quiet /\ service.timer /\ service' = TimedOut(service)

-----------------------------------------------------------------------------
(* Every job that a caller awaits is with the living worker, or its rejection *)
(* is on its way: neither a crash nor the idle shutdown, which may meet new   *)
(* work in any order, leaves a caller waiting for ever.                       *)
NoJobLost ==
  /\ \A i \in 1..Len(service.pending) : service.pending[i] \in service.posted
  /\ service.posted # {} => service.alive
=============================================================================
