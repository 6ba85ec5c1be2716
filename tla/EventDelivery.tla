--------------------------- MODULE EventDelivery ---------------------------
(***************************************************************************)
(* How a provider event gets from the webhook endpoint to the worker that  *)
(* applies it: EventIngestionService.ingest inside the transaction of an   *)
(* API request, the RQ queue, the job process_provider_event with its      *)
(* retries and its dead letters, and the hand-over of the follow-up jobs   *)
(* after the commit.  What an event does to payments and cases is          *)
(* CaseRecovery; here it is one effect that must happen once.              *)
(*                                                                         *)
(* The request enqueues before it commits, mark_dead_letter reads the row  *)
(* without a lock and writes it later, and the follow-ups leave the worker *)
(* after the event is PROCESSED: these are steps of their own.             *)
(***************************************************************************)
EXTENDS Naturals, Sequences, FiniteSets

CONSTANTS
    Events,      \* provider events, each with its (provider, event_id)
    Requests,    \* threads of the API that serve webhook requests
    Workers,     \* RQ workers
    MaxRetries,  \* the largest WORKER_MAX_RETRIES that is configured
    MaxQueue,    \* bound on queued jobs: the provider waits when it is reached
    MaxFaults,   \* bound on Redis errors, database errors and crashes
    NULL

ASSUME DeliveryBounds ==
    MaxRetries \in Nat /\ MaxQueue \in Nat /\ MaxFaults \in Nat
ASSUME DeliveryNull == NULL \notin Events

VARIABLES
    retries,      \* WORKER_MAX_RETRIES, fixed when the processes start
    rows,         \* committed status of each webhook_events row
    requests,     \* the transaction of each API thread
    queue,        \* the RQ queue of process_provider_event jobs
    parked,       \* events with a retry in RQ's scheduled registry
    workers,      \* the job of each worker and how far it is
    followups,    \* "none", "due" after the commit, "done" when handed over
    interrupted,  \* history: a worker stopped between commit and hand-over
    effects,      \* history: how often the event was applied
    faults

vars == <<retries, rows, requests, queue, parked, workers, followups,
          interrupted, effects, faults>>

-----------------------------------------------------------------------------
(* State *)

\* PROCESSING and FAILED are only written by transactions that overwrite them
\* or roll back, so no other transaction sees them.
RowStatus == {"ABSENT", "RECEIVED", "PROCESSED", "DEAD_LETTER"}
Settled == {"PROCESSED", "DEAD_LETTER"}

\* enqueue: the row is inserted or found RECEIVED; end: before the commit.
Request == [step: {"idle", "enqueue", "end"}, event: Events \cup {NULL},
            inserts: BOOLEAN]
NoRequest == [step |-> "idle", event |-> NULL, inserts |-> FALSE]

\* find: before the row is locked; process: it is; failed: rolled back; dead:
\* mark_dead_letter has read the row; followups, inline: after the commit.
Step == {"idle", "find", "process", "failed", "dead", "followups", "inline"}
Job == [event: Events, left: 0..MaxRetries]
Worker == [step: Step, event: Events \cup {NULL}, left: 0..MaxRetries]
NoJob == [step |-> "idle", event |-> NULL, left |-> 0]

Init ==
    /\ retries \in 0..MaxRetries
    /\ rows = [e \in Events |-> "ABSENT"]
    /\ requests = [r \in Requests |-> NoRequest]
    /\ queue = <<>>
    /\ parked = {}
    /\ workers = [w \in Workers |-> NoJob]
    /\ followups = [e \in Events |-> "none"]
    /\ interrupted = {}
    /\ effects = [e \in Events |-> 0]
    /\ faults = 0

Fault == faults < MaxFaults /\ faults' = faults + 1

\* Another request has inserted the row and has not committed: the unique key
\* makes a second insert wait for it.
Inserting(e) ==
    \E r \in Requests : requests[r].inserts /\ requests[r].event = e

\* A worker holds the row, by SELECT ... FOR UPDATE.
Locked(e) ==
    \E w \in Workers : workers[w].step = "process" /\ workers[w].event = e

Enqueuing == {r \in Requests : requests[r].step = "enqueue"}

-----------------------------------------------------------------------------
(* The API: ingest, then the commit of get_db_session *)

\* Mutant: an event that is stored is not enqueued again.
ShouldRequeueNever(status) == FALSE

\* _handle_duplicate: whether the existing row goes back to the queue.
should_requeue(status) == status = "RECEIVED"

\* ingest, up to the savepoint that inserts the row or the row it finds.
Ingest(r, e) ==
    /\ requests[r] = NoRequest
    /\ ~Inserting(e)
    /\ Len(queue) + Cardinality(Enqueuing) < MaxQueue
    /\ requests' = [requests EXCEPT ![r] =
         [step |-> IF rows[e] = "ABSENT" \/ should_requeue(rows[e])
                   THEN "enqueue" ELSE "end",
          event |-> e, inserts |-> rows[e] = "ABSENT"]]
    /\ UNCHANGED <<retries, rows, queue, parked, workers, followups,
                   interrupted, effects, faults>>

\* Mutant: the first run of a job is counted as a retry.
FreshJobOneMore(e) == [event |-> e, left |-> retries + 1]

\* RedisEventQueue._enqueue: a job with all its retries.
FreshJob(e) == [event |-> e, left |-> retries]

\* queue.enqueue_process_provider_event, whose failure is logged and ignored.
Enqueue(r) ==
    /\ requests[r].step = "enqueue"
    /\ \/ /\ queue' = Append(queue, FreshJob(requests[r].event))
          /\ UNCHANGED faults
       \/ Fault /\ UNCHANGED queue
    /\ requests' = [requests EXCEPT ![r].step = "end"]
    /\ UNCHANGED <<retries, rows, parked, workers, followups, interrupted,
                   effects>>

CommitRequest(r) ==
    /\ requests[r].step = "end"
    /\ rows' = IF requests[r].inserts
               THEN [rows EXCEPT ![requests[r].event] = "RECEIVED"] ELSE rows
    /\ requests' = [requests EXCEPT ![r] = NoRequest]
    /\ UNCHANGED <<retries, queue, parked, workers, followups, interrupted,
                   effects, faults>>

\* The request fails or the process dies: the job it enqueued stays.
RollbackRequest(r) ==
    /\ requests[r].step # "idle"
    /\ Fault
    /\ requests' = [requests EXCEPT ![r] = NoRequest]
    /\ UNCHANGED <<retries, rows, queue, parked, workers, followups,
                   interrupted, effects>>

-----------------------------------------------------------------------------
(* The worker: process_provider_event *)

GoTo(w, step) == workers' = [workers EXCEPT ![w].step = step]
Finish(w) == workers' = [workers EXCEPT ![w] = NoJob]

Take(w) ==
    /\ workers[w] = NoJob
    /\ queue # <<>>
    /\ workers' = [workers EXCEPT ![w] =
         [step |-> "find", event |-> Head(queue).event,
          left |-> Head(queue).left]]
    /\ queue' = Tail(queue)
    /\ UNCHANGED <<retries, rows, requests, parked, followups, interrupted,
                   effects, faults>>

\* Mutant: the status of the locked row is not looked at.
AlreadyDoneNever(status) == FALSE

\* The early returns of process_webhook_event.
AlreadyDone(status) == status \in Settled

\* process_webhook_event locks the row and looks at its status.  A row that is
\* not committed yet is not found, which is an error.
Find(w) ==
    LET e == workers[w].event IN
    /\ workers[w].step = "find"
    /\ ~Locked(e)
    /\ \/ rows[e] = "ABSENT" /\ GoTo(w, "failed")
       \/ rows[e] # "ABSENT" /\ AlreadyDone(rows[e]) /\ Finish(w)
       \/ rows[e] # "ABSENT" /\ ~AlreadyDone(rows[e]) /\ GoTo(w, "process")
    /\ UNCHANGED <<retries, rows, requests, queue, parked, followups,
                   interrupted, effects, faults>>

CommitProcess(w) ==
    LET e == workers[w].event IN
    /\ workers[w].step = "process"
    /\ rows' = [rows EXCEPT ![e] = "PROCESSED"]
    /\ effects' = [effects EXCEPT ![e] = @ + 1]
    /\ followups' = [followups EXCEPT ![e] = "due"]
    /\ GoTo(w, "followups")
    /\ UNCHANGED <<retries, requests, queue, parked, interrupted, faults>>

\* A permanent DomainError: the row is dead-lettered and no effect is kept.
DeadLetterNow(w) ==
    /\ workers[w].step = "process"
    /\ rows' = [rows EXCEPT ![workers[w].event] = "DEAD_LETTER"]
    /\ Finish(w)
    /\ UNCHANGED <<retries, requests, queue, parked, followups, interrupted,
                   effects, faults>>

\* Any other error, when the row is read or while it is applied: rolled back.
FailProcess(w) ==
    /\ workers[w].step \in {"find", "process"}
    /\ Fault
    /\ GoTo(w, "failed")
    /\ UNCHANGED <<retries, rows, requests, queue, parked, followups,
                   interrupted, effects>>

\* will_retry: the job raises and RQ schedules a retry, with an interval.  The
\* worker runs without a scheduler, so nothing moves it back to the queue.
ParkRetry(w) ==
    /\ workers[w].step = "failed"
    /\ workers[w].left > 0
    /\ parked' = parked \cup {workers[w].event}
    /\ Finish(w)
    /\ UNCHANGED <<retries, rows, requests, queue, followups, interrupted,
                   effects, faults>>

\* No retry is left: mark_dead_letter reads the row, unlocked.
ReadDead(w) ==
    /\ workers[w].step = "failed"
    /\ workers[w].left = 0
    /\ IF rows[workers[w].event] = "RECEIVED"
       THEN GoTo(w, "dead") ELSE Finish(w)
    /\ UNCHANGED <<retries, rows, requests, queue, parked, followups,
                   interrupted, effects, faults>>

WriteDead(w) ==
    /\ workers[w].step = "dead"
    /\ ~Locked(workers[w].event)
    /\ rows' = [rows EXCEPT ![workers[w].event] = "DEAD_LETTER"]
    /\ Finish(w)
    /\ UNCHANGED <<retries, requests, queue, parked, followups, interrupted,
                   effects, faults>>

\* _enqueue_followups.
EnqueueFollowups(w) ==
    /\ workers[w].step = "followups"
    /\ followups' = [followups EXCEPT ![workers[w].event] = "done"]
    /\ Finish(w)
    /\ UNCHANGED <<retries, rows, requests, queue, parked, interrupted,
                   effects, faults>>

\* Mutant: a worker that cannot enqueue the follow-ups gives them up.
EnqueueFailsGivesUp(w) ==
    /\ workers[w].step = "followups"
    /\ Fault
    /\ Finish(w)
    /\ UNCHANGED <<retries, rows, requests, queue, parked, followups,
                   interrupted, effects>>

\* It fails on Redis and returns False.
EnqueueFails(w) ==
    /\ workers[w].step = "followups"
    /\ Fault
    /\ GoTo(w, "inline")
    /\ UNCHANGED <<retries, rows, requests, queue, parked, followups,
                   interrupted, effects>>

\* _apply_followups_now.
ApplyFollowups(w) ==
    /\ workers[w].step = "inline"
    /\ followups' = [followups EXCEPT ![workers[w].event] = "done"]
    /\ Finish(w)
    /\ UNCHANGED <<retries, rows, requests, queue, parked, interrupted,
                   effects, faults>>

\* The worker dies, mark_dead_letter fails or the follow-ups fail inline: the
\* job ends with what it has committed.
Crash(w) ==
    /\ workers[w].step # "idle"
    /\ Fault
    /\ interrupted' = IF workers[w].step \in {"followups", "inline"}
                      THEN interrupted \cup {workers[w].event} ELSE interrupted
    /\ parked' = IF workers[w].left > 0
                 THEN parked \cup {workers[w].event} ELSE parked
    /\ Finish(w)
    /\ UNCHANGED <<retries, rows, requests, queue, followups, effects>>

-----------------------------------------------------------------------------

RequestStep(r) ==
    \/ \E e \in Events : Ingest(r, e)
    \/ Enqueue(r)
    \/ CommitRequest(r)
    \/ RollbackRequest(r)

WorkerStep(w) ==
    \/ Take(w)
    \/ Find(w)
    \/ CommitProcess(w)
    \/ DeadLetterNow(w)
    \/ FailProcess(w)
    \/ ParkRetry(w)
    \/ ReadDead(w)
    \/ WriteDead(w)
    \/ EnqueueFollowups(w)
    \/ EnqueueFails(w)
    \/ ApplyFollowups(w)
    \/ Crash(w)

Next == \/ \E r \in Requests : RequestStep(r)
        \/ \E w \in Workers : WorkerStep(w)

Spec == Init /\ [][Next]_vars

\* Requests and jobs that were started go on, and an idle worker takes the next
\* job.  Nothing is assumed of the provider: it may never send again.
Fairness ==
    /\ \A r \in Requests : WF_vars(Enqueue(r) \/ CommitRequest(r))
    /\ \A w \in Workers : WF_vars(WorkerStep(w))

FairSpec == Spec /\ Fairness

-----------------------------------------------------------------------------
(* Properties *)

\* Every part of the delivery state has its type.
TypeOK ==
    /\ retries \in 0..MaxRetries
    /\ rows \in [Events -> RowStatus]
    /\ requests \in [Requests -> Request]
    /\ queue \in Seq(Job)
    /\ parked \subseteq Events
    /\ workers \in [Workers -> Worker]
    /\ followups \in [Events -> {"none", "due", "done"}]
    /\ interrupted \subseteq Events
    /\ effects \in [Events -> Nat]
    /\ faults \in 0..MaxFaults

\* An event is applied once at most, however often it is delivered, queued,
\* retried or interrupted, and a row that says PROCESSED or RECEIVED says the
\* truth about it (process_webhook_event, under the lock of the row).
EffectsOnce ==
    \A e \in Events :
      /\ effects[e] <= 1
      /\ rows[e] = "PROCESSED" => effects[e] = 1
      /\ rows[e] \in {"ABSENT", "RECEIVED"} => effects[e] = 0

\* An event that the provider keeps sending does not stay RECEIVED: whatever
\* was lost (a job taken before its row was committed, a Redis error, a retry
\* that is never run), another delivery enqueues it again (_handle_duplicate).
Delivering(e) == \E r \in Requests : requests[r].event = e
RedeliverySettles ==
    \A e \in Events :
      []<>Delivering(e) => (rows[e] = "RECEIVED" ~> rows[e] \in Settled)

\* The follow-up jobs of an applied event are handed over, to the queue or by
\* running them in the worker, unless the worker is interrupted in between.
FollowupsHandedOver ==
    \A e \in Events :
      followups[e] = "due" ~> (followups[e] = "done" \/ e \in interrupted)

\* A second run of a processed event is a no-op: the row stays PROCESSED
\* (process_webhook_event, mark_dead_letter).
ProcessedStays ==
    [][\A e \in Events : rows[e] = "PROCESSED" => rows'[e] = "PROCESSED"]_vars

\* A job that failed and may be retried settles its event: it is retried until
\* it succeeds or the event is dead-lettered (will_retry, mark_dead_letter).
RetrySettles ==
    \A e \in Events :
      (e \in parked /\ rows[e] = "RECEIVED") ~> rows[e] \in Settled
=============================================================================
