------------------------ MODULE EventDeliveryProofs ------------------------
(***************************************************************************)
(* An event is applied once at most, for any number of events, API         *)
(* threads, workers and retries, and any number of faults.                 *)
(***************************************************************************)
EXTENDS EventDelivery, TLAPS

\* A transaction that inserts a row is the only one, and the row is not there.
InsertsAlone ==
    \A r \in Requests :
      /\ requests[r].step # "idle" => requests[r].event \in Events
      /\ requests[r].inserts =>
           /\ requests[r].step # "idle"
           /\ rows[requests[r].event] = "ABSENT"
           /\ \A q \in Requests :
                requests[q].inserts /\ requests[q].event = requests[r].event
                  => q = r

\* A worker that holds a row is alone, the row says RECEIVED until it commits,
\* and what a worker dead-letters is there.
HoldsAlone ==
    \A w \in Workers :
      LET e == workers[w].event IN
      /\ workers[w].step # "idle" => e \in Events
      /\ workers[w].step = "process" =>
           /\ rows[e] = "RECEIVED"
           /\ \A v \in Workers :
                workers[v].step = "process" /\ workers[v].event = e => v = w
      /\ workers[w].step = "dead" => rows[e] # "ABSENT"

DeliveryInv == TypeOK /\ InsertsAlone /\ HoldsAlone /\ EffectsOnce

-----------------------------------------------------------------------------
(* The invariant is inductive *)

\* The initial state satisfies the invariant.
LEMMA DeliveryInit == Init => DeliveryInv
  <1> SUFFICES ASSUME Init PROVE DeliveryInv
    OBVIOUS
  <1>1. TypeOK
    BY DeliveryBounds
    DEF Init, TypeOK, RowStatus, Request, NoRequest, Worker, NoJob, Step
  <1>2. InsertsAlone /\ HoldsAlone /\ EffectsOnce
    BY DEF Init, InsertsAlone, HoldsAlone, EffectsOnce, NoRequest, NoJob
  <1> QED BY <1>1, <1>2 DEF DeliveryInv

\* The steps of an API request keep the invariant.
LEMMA RequestKeeps ==
    ASSUME DeliveryInv, NEW r \in Requests, RequestStep(r)
    PROVE  DeliveryInv'
  <1> USE DEF DeliveryInv
  <1>1. ASSUME NEW e \in Events, Ingest(r, e)
        PROVE  DeliveryInv'
    <2>1. /\ rows[e] \in RowStatus
          /\ requests'[r].event = e
          /\ requests'[r].step \in {"enqueue", "end"}
          /\ requests'[r].inserts \in BOOLEAN
          /\ requests'[r].inserts => rows[e] = "ABSENT"
          /\ \A q \in Requests \ {r} : requests'[q] = requests[q]
          /\ requests' \in [Requests -> Request]
      BY <1>1 DEF Ingest, TypeOK, Request
    <2>2. TypeOK'
      BY <1>1, <2>1 DEF Ingest, TypeOK
    <2>3. InsertsAlone'
      BY <1>1, <2>1 DEF Ingest, InsertsAlone, Inserting
    <2>4. HoldsAlone' /\ EffectsOnce'
      BY <1>1 DEF Ingest, HoldsAlone, EffectsOnce
    <2> QED BY <2>2, <2>3, <2>4
  <1>2. CASE Enqueue(r)
    <2>1. requests[r] \in Request /\ requests[r].event \in Events
      BY <1>2 DEF Enqueue, TypeOK, InsertsAlone
    <2>2. requests' \in [Requests -> Request]
      BY <1>2, <2>1 DEF Enqueue, TypeOK, Request
    <2>3. FreshJob(requests[r].event) \in Job
      BY <2>1, DeliveryBounds DEF FreshJob, Job, TypeOK
    <2>4. queue' \in Seq(Job)
      <3>1. queue \in Seq(Job)
        BY DEF TypeOK
      <3>2. Append(queue, FreshJob(requests[r].event)) \in Seq(Job)
        BY <2>3, <3>1
      <3> QED BY <1>2, <3>1, <3>2 DEF Enqueue
    <2>5. faults' \in 0..MaxFaults
      BY <1>2, DeliveryBounds DEF Enqueue, TypeOK, Fault
    <2>6. TypeOK'
      BY <1>2, <2>2, <2>4, <2>5 DEF Enqueue, TypeOK
    <2>7. \A q \in Requests : /\ requests'[q].event = requests[q].event
                              /\ requests'[q].inserts = requests[q].inserts
                              /\ requests'[q].step # "idle"
                                   <=> requests[q].step # "idle"
      BY <1>2 DEF Enqueue, TypeOK, Request
    <2>8. InsertsAlone'
      BY <1>2, <2>7 DEF Enqueue, InsertsAlone
    <2>9. HoldsAlone' /\ EffectsOnce'
      BY <1>2 DEF Enqueue, HoldsAlone, EffectsOnce
    <2> QED BY <2>6, <2>8, <2>9
  <1>3. CASE CommitRequest(r)
    <2> DEFINE e == requests[r].event
    <2>1. e \in Events /\ requests[r].inserts \in BOOLEAN
      BY <1>3 DEF CommitRequest, TypeOK, InsertsAlone, Request
    <2>2. requests' \in [Requests -> Request]
      BY <1>3 DEF CommitRequest, TypeOK, Request, NoRequest
    <2>3. TypeOK'
      BY <1>3, <2>1, <2>2 DEF CommitRequest, TypeOK, RowStatus
    <2>4. /\ requests'[r] = NoRequest
          /\ \A q \in Requests \ {r} : requests'[q] = requests[q]
      BY <1>3 DEF CommitRequest, TypeOK
    <2>5. \/ rows' = rows
          \/ /\ requests[r].inserts /\ rows[e] = "ABSENT"
             /\ rows' = [rows EXCEPT ![e] = "RECEIVED"]
      BY <1>3 DEF CommitRequest, InsertsAlone
    <2>6. InsertsAlone'
      <3>1. \A q \in Requests : requests'[q].inserts =>
              q # r /\ requests'[q] = requests[q] /\ requests[q].inserts
        BY <2>4 DEF NoRequest
      <3>2. \A q \in Requests \ {r} :
              requests[q].inserts /\ requests[r].inserts
                => requests[q].event # e
        BY DEF InsertsAlone
      <3>3. \A q \in Requests \ {r} : requests[q].inserts =>
              /\ requests[q].event \in Events
              /\ rows'[requests[q].event] = "ABSENT"
        BY <2>1, <2>5, <3>2 DEF InsertsAlone, TypeOK
      <3>4. \A q \in Requests : requests'[q].step # "idle" =>
              requests'[q].event \in Events
        BY <2>4 DEF InsertsAlone, NoRequest
      <3> QED BY <3>1, <3>3, <3>4 DEF InsertsAlone
    <2>7. HoldsAlone'
      BY <1>3, <2>1, <2>5 DEF CommitRequest, HoldsAlone, TypeOK
    <2>8. EffectsOnce'
      BY <1>3, <2>1, <2>5 DEF CommitRequest, EffectsOnce, TypeOK
    <2> QED BY <2>3, <2>6, <2>7, <2>8
  <1>4. CASE RollbackRequest(r)
    <2>1. requests' \in [Requests -> Request]
      BY <1>4 DEF RollbackRequest, TypeOK, Request, NoRequest
    <2>2. faults' \in 0..MaxFaults
      BY <1>4, DeliveryBounds DEF RollbackRequest, TypeOK, Fault
    <2>3. TypeOK'
      BY <1>4, <2>1, <2>2 DEF RollbackRequest, TypeOK
    <2>4. InsertsAlone'
      BY <1>4 DEF RollbackRequest, InsertsAlone, NoRequest, TypeOK
    <2>5. HoldsAlone' /\ EffectsOnce'
      BY <1>4 DEF RollbackRequest, HoldsAlone, EffectsOnce
    <2> QED BY <2>3, <2>4, <2>5
  <1> QED BY <1>1, <1>2, <1>3, <1>4 DEF RequestStep

\* A row that is there is not the one a request inserts.
LEMMA OtherInserts ==
    ASSUME TypeOK, InsertsAlone, NEW e \in Events, rows[e] # "ABSENT",
           NEW status, rows' = [rows EXCEPT ![e] = status],
           UNCHANGED requests
    PROVE  InsertsAlone'
  <1>1. \A q \in Requests : requests[q].inserts =>
          /\ requests[q].step # "idle"
          /\ requests[q].event \in Events
          /\ rows[requests[q].event] = "ABSENT"
    BY DEF InsertsAlone
  <1>2. \A q \in Requests : requests[q].inserts =>
          rows'[requests[q].event] = "ABSENT"
    BY <1>1 DEF TypeOK
  <1> QED BY <1>2 DEF InsertsAlone

\* What the steps of a worker do to the workers: one changes, to nothing, or to
\* another step of its job.
Goes(w, step) ==
    /\ workers' \in [Workers -> Worker]
    /\ workers'[w].step = step
    /\ workers'[w].event = workers[w].event
    /\ \A v \in Workers \ {w} : workers'[v] = workers[v]
Ends(w) ==
    /\ workers' \in [Workers -> Worker]
    /\ workers'[w].step = "idle"
    /\ \A v \in Workers \ {w} : workers'[v] = workers[v]

\* GoTo and Finish change one worker, and keep its type.
LEMMA WorkerMoves ==
    ASSUME TypeOK, NEW w \in Workers
    PROVE  /\ \A step \in Step : GoTo(w, step) => Goes(w, step)
           /\ Finish(w) => Ends(w)
  <1>1. workers \in [Workers -> Worker]
    BY DEF TypeOK
  <1>2. ASSUME NEW step \in Step, GoTo(w, step)
        PROVE  Goes(w, step)
    BY <1>1, <1>2 DEF GoTo, Goes, Worker
  <1>3. NoJob \in Worker
    BY DeliveryBounds DEF NoJob, Worker, Step
  <1>4. ASSUME Finish(w)
        PROVE  Ends(w)
    BY <1>1, <1>3, <1>4 DEF Finish, Ends, NoJob
  <1> QED BY <1>2, <1>4

\* A worker that lets go of a row and writes it leaves the others as they are.
LEMMA OtherHolds ==
    ASSUME TypeOK, HoldsAlone, NEW w \in Workers,
           NEW e \in Events, NEW status, status # "ABSENT",
           rows' = [rows EXCEPT ![e] = status],
           \A v \in Workers \ {w} : workers'[v] = workers[v],
           workers'[w].step \notin {"process", "dead"},
           workers'[w].step # "idle" => workers'[w].event \in Events,
           \A v \in Workers \ {w} :
             ~(workers[v].step = "process" /\ workers[v].event = e)
    PROVE  HoldsAlone'
  <1>1. \A v \in Workers \ {w} :
          /\ workers[v].step # "idle" => workers[v].event \in Events
          /\ workers[v].step = "process" =>
               /\ rows[workers[v].event] = "RECEIVED"
               /\ workers[v].event # e
          /\ workers[v].step = "dead" => rows[workers[v].event] # "ABSENT"
    BY DEF HoldsAlone
  <1>2. \A v \in Workers \ {w} :
          /\ workers[v].step = "process" =>
               rows'[workers[v].event] = "RECEIVED"
          /\ workers[v].step = "dead" => rows'[workers[v].event] # "ABSENT"
    BY <1>1 DEF TypeOK
  <1>3. \A v, u \in Workers \ {w} :
          /\ workers[v].step = "process" /\ workers[u].step = "process"
          /\ workers[u].event = workers[v].event
          => u = v
    BY DEF HoldsAlone
  <1> QED BY <1>1, <1>2, <1>3 DEF HoldsAlone

\* The steps of a job before it locks the row, and after it fails or commits,
\* change no row but for the dead letter, and keep the invariant.
LEMMA WorkerKeeps ==
    ASSUME DeliveryInv, NEW w \in Workers, WorkerStep(w)
    PROVE  DeliveryInv'
  <1> USE DEF DeliveryInv
  <1> DEFINE e == workers[w].event
  <1>0. workers[w].step # "idle" => e \in Events
    BY DEF HoldsAlone
  <1>1. CASE Take(w)
    <2>1. queue \in Seq(Job) /\ queue # <<>>
      BY <1>1 DEF Take, TypeOK
    <2>2. Head(queue) \in Job /\ Tail(queue) \in Seq(Job)
      BY <2>1
    <2>3. /\ workers' \in [Workers -> Worker]
          /\ workers'[w].step = "find" /\ workers'[w].event \in Events
          /\ \A v \in Workers \ {w} : workers'[v] = workers[v]
      BY <1>1, <2>2 DEF Take, TypeOK, Worker, Job, Step
    <2>4. TypeOK'
      BY <1>1, <2>2, <2>3 DEF Take, TypeOK
    <2>5. HoldsAlone'
      BY <1>1, <2>3 DEF Take, HoldsAlone
    <2>6. InsertsAlone' /\ EffectsOnce'
      BY <1>1 DEF Take, InsertsAlone, EffectsOnce
    <2> QED BY <2>4, <2>5, <2>6
  <1>2. CASE Find(w)
    <2>1. \/ Goes(w, "failed") \/ Ends(w)
          \/ Goes(w, "process") /\ rows[e] = "RECEIVED"
      BY <1>2, WorkerMoves DEF Find, Step, AlreadyDone, Settled, TypeOK, RowStatus,
         HoldsAlone
    <2>2. TypeOK'
      BY <1>2, <2>1 DEF Find, TypeOK, Goes, Ends
    <2>3. HoldsAlone'
      BY <1>0, <1>2, <2>1 DEF Find, HoldsAlone, Goes, Ends, Locked
    <2>4. InsertsAlone' /\ EffectsOnce'
      BY <1>2 DEF Find, InsertsAlone, EffectsOnce
    <2> QED BY <2>2, <2>3, <2>4
  <1>3. CASE CommitProcess(w)
    <2>1. Goes(w, "followups") /\ e \in Events /\ rows[e] = "RECEIVED"
      BY <1>0, <1>3, WorkerMoves DEF CommitProcess, Step, HoldsAlone
    <2>2. TypeOK'
      BY <1>3, <2>1 DEF CommitProcess, TypeOK, Goes, RowStatus
    <2>3. rows' = [rows EXCEPT ![e] = "PROCESSED"]
      BY <1>3 DEF CommitProcess
    <2>4. HoldsAlone'
      <3>1. \A v \in Workers \ {w} :
              ~(workers[v].step = "process" /\ workers[v].event = e)
        BY <1>3 DEF CommitProcess, HoldsAlone
      <3>2. /\ workers'[w].step = "followups" /\ workers'[w].event = e
            /\ \A v \in Workers \ {w} : workers'[v] = workers[v]
        BY <2>1 DEF Goes
      <3>3. PICK d \in Events : d = e
        BY <2>1
      <3>4. /\ rows' = [rows EXCEPT ![d] = "PROCESSED"]
            /\ workers'[w].event = d
            /\ \A v \in Workers \ {w} :
                 ~(workers[v].step = "process" /\ workers[v].event = d)
        BY <2>3, <3>1, <3>2, <3>3
      <3>5. TypeOK /\ HoldsAlone
        OBVIOUS
      <3> HIDE DEF DeliveryInv, e
      <3> QED BY <3>2, <3>4, <3>5, OtherHolds
    <2>5. InsertsAlone'
      <3>1. TypeOK /\ InsertsAlone /\ rows[e] # "ABSENT" /\ UNCHANGED requests
        BY <1>3, <2>1 DEF CommitProcess
      <3> QED BY <2>1, <2>3, <3>1, OtherInserts
    <2>6. EffectsOnce'
      BY <1>3, <2>1, <2>3 DEF CommitProcess, EffectsOnce, TypeOK
    <2> QED BY <2>2, <2>4, <2>5, <2>6
  <1>4. CASE DeadLetterNow(w) \/ WriteDead(w)
    <2>1. Ends(w) /\ e \in Events /\ rows[e] # "ABSENT"
      BY <1>0, <1>4, WorkerMoves DEF DeadLetterNow, WriteDead, HoldsAlone
    <2>2. /\ rows' = [rows EXCEPT ![e] = "DEAD_LETTER"]
          /\ UNCHANGED <<retries, requests, queue, parked, followups,
                         interrupted, effects, faults>>
      BY <1>4 DEF DeadLetterNow, WriteDead
    <2>3. \A v \in Workers \ {w} :
            ~(workers[v].step = "process" /\ workers[v].event = e)
      BY <1>4 DEF DeadLetterNow, WriteDead, HoldsAlone, Locked
    <2>4. TypeOK'
      BY <2>1, <2>2 DEF TypeOK, Ends, RowStatus
    <2>5. HoldsAlone'
      <3>1. /\ workers'[w].step = "idle"
            /\ \A v \in Workers \ {w} : workers'[v] = workers[v]
        BY <2>1 DEF Ends
      <3>2. PICK d \in Events : d = e
        BY <2>1
      <3>3. /\ rows' = [rows EXCEPT ![d] = "DEAD_LETTER"]
            /\ \A v \in Workers \ {w} :
                 ~(workers[v].step = "process" /\ workers[v].event = d)
        BY <2>2, <2>3, <3>2
      <3>4. TypeOK /\ HoldsAlone
        OBVIOUS
      <3> QED BY <3>1, <3>3, <3>4, OtherHolds
    <2>6. InsertsAlone'
      <3>1. TypeOK /\ InsertsAlone /\ UNCHANGED requests
        BY <2>2
      <3> QED BY <2>1, <2>2, <3>1, OtherInserts
    <2>7. EffectsOnce'
      BY <2>1, <2>2 DEF EffectsOnce, TypeOK
    <2> QED BY <2>4, <2>5, <2>6, <2>7
  <1>5. ASSUME UNCHANGED <<retries, rows, requests, queue, effects>>,
               parked' \subseteq Events, interrupted' \subseteq Events,
               followups' \in [Events -> {"none", "due", "done"}],
               faults' \in 0..MaxFaults,
               \/ Ends(w)
               \/ Goes(w, "failed") /\ e \in Events
               \/ Goes(w, "inline") /\ e \in Events
               \/ Goes(w, "dead") /\ e \in Events /\ rows[e] # "ABSENT"
        PROVE  DeliveryInv'
    <2>1. TypeOK'
      BY <1>5 DEF TypeOK, Ends, Goes
    <2>2. HoldsAlone'
      BY <1>5 DEF HoldsAlone, Ends, Goes
    <2>3. InsertsAlone' /\ EffectsOnce'
      BY <1>5 DEF InsertsAlone, EffectsOnce
    <2> QED BY <2>1, <2>2, <2>3
  <1>6. Fault => faults' \in 0..MaxFaults
    BY DeliveryBounds DEF Fault, TypeOK
  <1>7. CASE FailProcess(w) \/ EnqueueFails(w)
    BY <1>0, <1>5, <1>6, <1>7, WorkerMoves
    DEF FailProcess, EnqueueFails, Step, TypeOK
  <1>8. CASE ParkRetry(w) \/ Crash(w)
    BY <1>0, <1>5, <1>6, <1>8, WorkerMoves DEF ParkRetry, Crash, TypeOK
  <1>9. CASE ReadDead(w)
    BY <1>0, <1>5, <1>9, WorkerMoves DEF ReadDead, Step, TypeOK
  <1>10. CASE EnqueueFollowups(w) \/ ApplyFollowups(w)
    <2>1. followups' \in [Events -> {"none", "due", "done"}]
      BY <1>10 DEF EnqueueFollowups, ApplyFollowups, TypeOK
    <2> QED BY <1>5, <1>10, <2>1, WorkerMoves
            DEF EnqueueFollowups, ApplyFollowups, TypeOK
  <1> QED BY <1>1, <1>2, <1>3, <1>4, <1>7, <1>8, <1>9, <1>10 DEF WorkerStep

\* The invariant holds in every reachable state.
LEMMA DeliveryInvariance == Spec => []DeliveryInv
  <1>1. DeliveryInv /\ [Next]_vars => DeliveryInv'
    <2> SUFFICES ASSUME DeliveryInv, [Next]_vars PROVE DeliveryInv'
      OBVIOUS
    <2>1. CASE Next
      BY <2>1, RequestKeeps, WorkerKeeps DEF Next
    <2>2. CASE UNCHANGED vars
      BY <2>2 DEF DeliveryInv, TypeOK, InsertsAlone, HoldsAlone, EffectsOnce, vars
    <2> QED BY <2>1, <2>2
  <1> QED BY <1>1, DeliveryInit, PTL DEF Spec

\* However often an event is delivered, queued twice, retried, dead-lettered or
\* interrupted, process_webhook_event applies it once at most, and the row says
\* PROCESSED or RECEIVED truthfully.
THEOREM AppliedOnce == Spec => []EffectsOnce
  <1>1. DeliveryInv => EffectsOnce
    BY DEF DeliveryInv
  <1> QED BY <1>1, DeliveryInvariance, PTL

\* The delivery state keeps its types.
THEOREM DeliveryTypes == Spec => []TypeOK
  <1>1. DeliveryInv => TypeOK
    BY DEF DeliveryInv
  <1> QED BY <1>1, DeliveryInvariance, PTL

-----------------------------------------------------------------------------
(* The follow-ups of an applied event *)

\* Follow-ups that are due have a worker that hands them over, or one that was
\* interrupted.
FollowupsOwned ==
    \A e \in Events :
      followups[e] = "due" =>
        \/ e \in interrupted
        \/ \E w \in Workers : /\ workers[w].event = e
                              /\ workers[w].step \in {"followups", "inline"}

\* A worker at another step than the follow-ups' owns none of them.
LEMMA OwnersStay ==
    ASSUME FollowupsOwned, NEW w \in Workers,
           \A v \in Workers \ {w} : workers'[v] = workers[v],
           workers[w].step \notin {"followups", "inline"},
           UNCHANGED <<followups, interrupted>>
    PROVE  FollowupsOwned'
  BY DEF FollowupsOwned

\* _enqueue_followups fails over to _apply_followups_now, and a process that
\* dies between the commit of the event and either of them is the only thing
\* that loses them: no other step, fault or redelivery does.
THEOREM FollowupsHaveOwner == Spec => []FollowupsOwned
  <1>1. Init => FollowupsOwned
    BY DEF Init, FollowupsOwned
  <1>2. ASSUME DeliveryInv, FollowupsOwned, NEW w \in Workers, WorkerStep(w)
        PROVE  FollowupsOwned'
    <2>1. /\ workers \in [Workers -> Worker]
          /\ followups \in [Events -> {"none", "due", "done"}]
          /\ workers[w].step # "idle" => workers[w].event \in Events
      BY <1>2 DEF DeliveryInv, TypeOK, HoldsAlone
    <2>2. \A v \in Workers \ {w} : workers'[v] = workers[v]
      BY <1>2, <2>1 DEF WorkerStep, Take, Find, CommitProcess, DeadLetterNow,
         FailProcess, ParkRetry, ReadDead, WriteDead, EnqueueFollowups,
         EnqueueFails, ApplyFollowups, Crash, GoTo, Finish
    <2>3. CASE \/ Take(w) \/ Find(w) \/ DeadLetterNow(w) \/ FailProcess(w)
               \/ ParkRetry(w) \/ ReadDead(w) \/ WriteDead(w)
      <3>1. /\ workers[w].step \notin {"followups", "inline"}
            /\ UNCHANGED <<followups, interrupted>>
        BY <2>3 DEF Take, Find, DeadLetterNow, FailProcess, ParkRetry,
           ReadDead, WriteDead, NoJob
      <3> QED BY <1>2, <2>2, <3>1, OwnersStay
    <2>4. CASE CommitProcess(w)
      <3>1. /\ workers'[w].step = "followups"
            /\ workers'[w].event = workers[w].event
            /\ workers[w].step = "process"
            /\ UNCHANGED interrupted
        BY <2>1, <2>4 DEF CommitProcess, GoTo, Worker
      <3>2. \A e \in Events \ {workers[w].event} : followups'[e] = followups[e]
        BY <2>1, <2>4 DEF CommitProcess
      <3> QED BY <1>2, <2>2, <3>1, <3>2 DEF FollowupsOwned
    <2>5. CASE EnqueueFollowups(w) \/ ApplyFollowups(w)
      <3>1. /\ followups'[workers[w].event] = "done"
            /\ \A e \in Events \ {workers[w].event} :
                 followups'[e] = followups[e]
            /\ UNCHANGED interrupted
        BY <2>1, <2>5 DEF EnqueueFollowups, ApplyFollowups
      <3> QED BY <1>2, <2>2, <3>1 DEF FollowupsOwned
    <2>6. CASE EnqueueFails(w)
      <3>1. /\ workers'[w].step = "inline"
            /\ workers'[w].event = workers[w].event
            /\ UNCHANGED <<followups, interrupted>>
        BY <2>1, <2>6 DEF EnqueueFails, GoTo, Worker
      <3> QED BY <1>2, <2>2, <3>1 DEF FollowupsOwned
    <2>7. CASE Crash(w)
      <3>1. /\ interrupted \subseteq interrupted'
            /\ workers[w].step \in {"followups", "inline"} =>
                 workers[w].event \in interrupted'
            /\ UNCHANGED followups
        BY <2>7 DEF Crash
      <3> QED BY <1>2, <2>2, <3>1 DEF FollowupsOwned
    <2> QED BY <1>2, <2>3, <2>4, <2>5, <2>6, <2>7 DEF WorkerStep
  <1>3. ASSUME FollowupsOwned, NEW r \in Requests, RequestStep(r)
        PROVE  FollowupsOwned'
    BY <1>3 DEF RequestStep, Ingest, Enqueue, CommitRequest, RollbackRequest,
                FollowupsOwned
  <1>4. DeliveryInv /\ FollowupsOwned /\ [Next]_vars => FollowupsOwned'
    <2>1. FollowupsOwned /\ UNCHANGED vars => FollowupsOwned'
      BY DEF FollowupsOwned, vars
    <2> QED BY <1>2, <1>3, <2>1 DEF Next
  <1> QED BY <1>1, <1>4, DeliveryInvariance, PTL DEF Spec

-----------------------------------------------------------------------------
(* When a processed row stays processed *)

\* What mark_dead_letter read is still so when it writes.
DeadIsFresh ==
    \A w \in Workers :
      workers[w].step = "dead" => rows[workers[w].event] = "RECEIVED"

\* Only a stale dead letter sets a processed row back.
LEMMA ProcessedRow ==
    ASSUME DeliveryInv, DeadIsFresh, [Next]_vars, NEW e \in Events,
           rows[e] = "PROCESSED"
    PROVE  rows'[e] = "PROCESSED"
  <1>1. rows \in [Events -> RowStatus]
    BY DEF DeliveryInv, TypeOK
  <1>2. ASSUME NEW r \in Requests, RequestStep(r)
        PROVE  rows'[e] = "PROCESSED"
    <2>1. requests[r].inserts => requests[r].event # e
      BY DEF DeliveryInv, InsertsAlone
    <2> QED BY <1>1, <1>2, <2>1
            DEF RequestStep, Ingest, Enqueue, CommitRequest, RollbackRequest
  <1>3. ASSUME NEW w \in Workers, WorkerStep(w)
        PROVE  rows'[e] = "PROCESSED"
    <2>1. CASE DeadLetterNow(w) \/ WriteDead(w)
      <3>1. workers[w].event # e
        BY <2>1 DEF DeliveryInv, HoldsAlone, DeadIsFresh, DeadLetterNow,
                    WriteDead
      <3> QED BY <1>1, <2>1, <3>1 DEF DeadLetterNow, WriteDead
    <2>2. CASE CommitProcess(w)
      BY <1>1, <2>2 DEF CommitProcess
    <2> QED BY <1>3, <2>1, <2>2
            DEF WorkerStep, Take, Find, FailProcess, ParkRetry, ReadDead,
                EnqueueFollowups, EnqueueFails, ApplyFollowups, Crash
  <1> QED BY <1>2, <1>3 DEF Next, vars

\* No retry is ever run, so a job has all of its retries left.
AllLeft ==
    /\ \A i \in 1..Len(queue) : queue[i].left = retries
    /\ \A w \in Workers : workers[w].step # "idle" => workers[w].left = retries
    /\ \A w \in Workers : workers[w].step = "dead" => retries = 0

\* A worker that goes on with its job keeps its retries.
LEMMA AllLeftNext ==
    ASSUME DeliveryInv, AllLeft, [Next]_vars
    PROVE  AllLeft' /\ retries' = retries
  <1>1. /\ queue \in Seq(Job) /\ workers \in [Workers -> Worker]
        /\ requests \in [Requests -> Request]
    BY DEF DeliveryInv, TypeOK
  <1>2. ASSUME NEW r \in Requests, RequestStep(r)
        PROVE  AllLeft' /\ retries' = retries
    <2>1. UNCHANGED <<workers, retries>>
      BY <1>2 DEF RequestStep, Ingest, Enqueue, CommitRequest, RollbackRequest
    <2>2. CASE UNCHANGED queue
      BY <2>1, <2>2 DEF AllLeft
    <2>3. ASSUME NEW j, j.left = retries, queue' = Append(queue, j)
          PROVE  \A i \in 1..Len(queue') : queue'[i].left = retries
      <3>1. /\ Len(queue') = Len(queue) + 1
            /\ queue'[Len(queue) + 1] = j
            /\ \A i \in 1..Len(queue) : queue'[i] = queue[i]
        BY <1>1, <2>3
      <3>2. Len(queue) \in Nat
        BY <1>1
      <3> QED BY <2>3, <3>1, <3>2 DEF AllLeft
    <2>4. CASE Enqueue(r)
      <3>1. FreshJob(requests[r].event).left = retries
        BY DEF FreshJob
      <3> QED BY <2>1, <2>2, <2>3, <2>4, <3>1 DEF Enqueue, AllLeft
    <2> QED BY <1>2, <2>1, <2>2, <2>4
            DEF RequestStep, Ingest, CommitRequest, RollbackRequest
  <1>3. ASSUME NEW w \in Workers, WorkerStep(w)
        PROVE  AllLeft' /\ retries' = retries
    <2>1. UNCHANGED retries
      BY <1>3 DEF WorkerStep, Take, Find, CommitProcess, DeadLetterNow,
         FailProcess, ParkRetry, ReadDead, WriteDead, EnqueueFollowups,
         EnqueueFails, ApplyFollowups, Crash
    <2>2. CASE Take(w)
      <3>1. /\ queue # <<>> /\ queue' = Tail(queue)
            /\ workers'[w].step = "find" /\ workers'[w].left = queue[1].left
            /\ \A v \in Workers \ {w} : workers'[v] = workers[v]
        BY <1>1, <2>2 DEF Take
      <3>2. /\ Len(queue) \in Nat \ {0}
            /\ Len(queue') = Len(queue) - 1
            /\ \A i \in 1..Len(queue') : queue'[i] = queue[i + 1]
        BY <1>1, <3>1
      <3>3. \A i \in 1..Len(queue') : queue'[i].left = retries
        BY <3>2 DEF AllLeft
      <3>4. queue[1].left = retries
        BY <3>2 DEF AllLeft
      <3> QED BY <2>1, <3>1, <3>3, <3>4 DEF AllLeft
    <2>3. CASE ~Take(w)
      <3>1. UNCHANGED queue
        BY <1>3, <2>3 DEF WorkerStep, Find, CommitProcess, DeadLetterNow,
           FailProcess, ParkRetry, ReadDead, WriteDead, EnqueueFollowups,
           EnqueueFails, ApplyFollowups, Crash
      <3>2. \/ workers' = [workers EXCEPT ![w] = NoJob]
            \/ \E step \in Step : /\ workers' = [workers EXCEPT ![w].step = step]
                                  /\ workers[w].step # "idle"
                                  /\ step = "dead" => workers[w].left = 0
        BY <1>3, <2>3 DEF WorkerStep, Find, CommitProcess, DeadLetterNow,
           FailProcess, ParkRetry, ReadDead, WriteDead, EnqueueFollowups,
           EnqueueFails, ApplyFollowups, Crash, GoTo, Finish, Step
      <3>3. \A v \in Workers :
              \/ workers'[v] = workers[v]
              \/ workers'[v].step = "idle"
              \/ /\ workers'[v].left = workers[v].left
                 /\ workers[v].step # "idle"
                 /\ workers'[v].step = "dead" => workers[v].left = 0
        BY <1>1, <3>2 DEF NoJob, Worker
      <3> QED BY <2>1, <3>1, <3>3 DEF AllLeft
    <2> QED BY <2>2, <2>3
  <1>4. CASE UNCHANGED vars
    BY <1>4 DEF vars, AllLeft
  <1> QED BY <1>2, <1>3, <1>4 DEF Next

\* WORKER_MAX_RETRIES is not 0.
Retrying == retries > 0

\* With retries configured, as they are by default, a processed row stays so:
\* a failed job is parked for a retry that no scheduler runs, and never comes
\* to mark_dead_letter.  The run DeadLetterRace needs WORKER_MAX_RETRIES = 0.
THEOREM ProcessedStaysWithRetries ==
    Spec /\ Retrying => ProcessedStays
  <1>1. Init => AllLeft
    BY DEF Init, AllLeft, NoJob
  <1>2. DeliveryInv /\ AllLeft /\ Retrying => DeadIsFresh
    BY DEF DeliveryInv, TypeOK, AllLeft, DeadIsFresh, Retrying
  <1>3. DeliveryInv /\ AllLeft /\ Retrying /\ [Next]_vars
        => AllLeft' /\ Retrying'
    BY AllLeftNext DEF Retrying
  <1>4. DeliveryInv /\ AllLeft /\ Retrying /\ [Next]_vars =>
          [\A e \in Events : rows[e] = "PROCESSED" =>
             rows'[e] = "PROCESSED"]_vars
    BY <1>2, ProcessedRow
  <1> QED BY <1>1, <1>3, <1>4, DeliveryInvariance, PTL
          DEF Spec, ProcessedStays

\* With one worker it stays so whatever is configured: nothing runs between
\* what mark_dead_letter reads and writes.
THEOREM ProcessedStaysWithOneWorker ==
    ASSUME \A v, w \in Workers : v = w
    PROVE  Spec => ProcessedStays
  <1>1. Init => DeadIsFresh
    BY DEF Init, DeadIsFresh, NoJob
  <1>2. ASSUME DeliveryInv, DeadIsFresh, [Next]_vars
        PROVE  DeadIsFresh'
    <2> SUFFICES ASSUME NEW w \in Workers, workers'[w].step = "dead"
                 PROVE  rows'[workers'[w].event] = "RECEIVED"
      BY DEF DeadIsFresh
    <2>1. /\ workers \in [Workers -> Worker]
          /\ rows \in [Events -> RowStatus]
          /\ workers[w].step # "idle" => workers[w].event \in Events
      BY <1>2 DEF DeliveryInv, TypeOK, HoldsAlone
    <2>2. ASSUME NEW r \in Requests, RequestStep(r)
          PROVE  rows'[workers'[w].event] = "RECEIVED"
      <3>1. /\ workers' = workers
            /\ rows[workers[w].event] = "RECEIVED"
            /\ requests[r].inserts =>
                 rows[requests[r].event] = "ABSENT"
        BY <1>2, <2>2 DEF RequestStep, Ingest, Enqueue, CommitRequest,
           RollbackRequest, DeadIsFresh, DeliveryInv, InsertsAlone
      <3> QED BY <2>1, <2>2, <3>1 DEF RequestStep, Ingest, Enqueue,
              CommitRequest, RollbackRequest
    <2>3. ASSUME WorkerStep(w)
          PROVE  rows'[workers'[w].event] = "RECEIVED"
      <3>1. /\ ~Finish(w)
            /\ \A step \in Step \ {"dead"} : ~GoTo(w, step)
            /\ ~Take(w)
        BY <2>1 DEF GoTo, Finish, NoJob, Take, Worker
      <3>2. ReadDead(w)
        BY <2>3, <3>1 DEF WorkerStep, Find, CommitProcess, DeadLetterNow,
           FailProcess, ParkRetry, WriteDead, EnqueueFollowups, EnqueueFails,
           ApplyFollowups, Crash, Step
      <3> QED BY <2>1, <3>2 DEF ReadDead, GoTo, Finish, NoJob, Worker
    <2>4. CASE UNCHANGED vars
      BY <1>2, <2>4 DEF vars, DeadIsFresh
    <2> QED BY <1>2, <2>2, <2>3, <2>4 DEF Next
  <1>3. DeliveryInv /\ DeadIsFresh /\ [Next]_vars =>
          [\A e \in Events : rows[e] = "PROCESSED" =>
             rows'[e] = "PROCESSED"]_vars
    BY ProcessedRow
  <1> QED BY <1>1, <1>2, <1>3, DeliveryInvariance, PTL
          DEF Spec, ProcessedStays
=============================================================================
