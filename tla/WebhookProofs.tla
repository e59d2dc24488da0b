---------------------------- MODULE WebhookProofs ----------------------------
(***************************************************************************)
(* Safety of WebhookDispatcher for every set of jobs, every schedule, any  *)
(* capacity of the semaphore and any number of exceptions and crashes.     *)
(*                                                                         *)
(* What the properties say about rows, attempts and posts follows from     *)
(* what each stage of a task knows of them: the attempt it works on is the *)
(* last of the log, its status is the one the stage before it wrote, and   *)
(* the row it was started with is still the row of the table.              *)
(***************************************************************************)
EXTENDS WebhookDispatcher, FiniteSetTheorems, TLAPS

-----------------------------------------------------------------------------
(* The inductive invariant.                                                *)

Past == {"create", "deliver", "send", "close", "publish"}
Open == {"deliver", "send", "close", "publish"}

\* The attempts of a job: the log is bounded and only its last entry may be
\* open or succeeded; a recorded success was answered with 2xx.
LogOf(j) ==
    /\ Len(attempts[j]) <= Len(Schedule)
    /\ \A i \in 1..Len(attempts[j]) :
          i < Len(attempts[j]) => attempts[j][i].status = "failed"
    /\ Len(posts[j]) <= Len(attempts[j])
    /\ \A i \in 1..Len(attempts[j]) : attempts[j][i].status = "succeeded" => Accepted(j)

\* The task of a job against the log.
TaskOf(j) ==
    /\ task[j].stage \in Open => attempts[j] # <<>>
    /\ task[j].stage = "create" /\ attempts[j] # <<>> => Latest(j).status = "failed"
    /\ task[j].stage = "deliver" => Latest(j).status = "pending"
    /\ task[j].stage \in {"send", "close"} => Latest(j).status = "delivering"
    /\ task[j].stage \in {"deliver", "send"} => Len(posts[j]) < Len(attempts[j])
    /\ task[j].stage \in {"close", "publish"} => task[j].verdict # "none"
    /\ task[j].stage = "publish" => Latest(j).status = task[j].verdict
    /\ task[j].stage \in {"close", "publish"} /\ task[j].verdict = "succeeded" => Accepted(j)

\* The task of a job against its row: the row is still a candidate, with the
\* mode and mark it was read with, and is not one to suppress.
RowOf(j) ==
    /\ task[j].stage # "none" =>
          /\ IsWebhookCandidate(rows[j])
          /\ rows[j].mode = task[j].seen.mode
          /\ rows[j].response_delivered = task[j].seen.response_delivered
    /\ task[j].stage \in Past => ~Suppresses(j)
    /\ posts[j] # <<>> =>
          rows[j].webhook_handover /\ ~(rows[j].mode = "sync" /\ rows[j].response_delivered)

\* The status a row publishes.
PublishedOf(j) ==
    /\ rows[j].webhook_delivery_status = "succeeded" => Accepted(j)
    /\ rows[j].webhook_delivery_status = "suppressed" => posts[j] = <<>>
    /\ rows[j].webhook_delivery_status = "failed" =>
          \A i \in 1..Len(attempts[j]) : attempts[j][i].status # "succeeded"

Semaphore == IsFiniteSet(InFlight) /\ Cardinality(InFlight) <= MaxInFlight

JobInv(j) == LogOf(j) /\ TaskOf(j) /\ RowOf(j) /\ PublishedOf(j)

IInv == TypeOK /\ Semaphore /\ \A j \in JobIds : JobInv(j)

-----------------------------------------------------------------------------
(* Sequences and rows.                                                     *)

\* A write to the last attempt of a log leaves the others alone.
LEMMA LastWrite ==
    ASSUME NEW s \in Seq(Attempt), s # <<>>, NEW e \in Attempt, NEW t,
           t = [s EXCEPT ![Len(s)] = e]
    PROVE  /\ t \in Seq(Attempt) /\ Len(t) = Len(s) /\ t # <<>>
           /\ Len(s) \in 1..Len(s) /\ t[Len(s)] = e
           /\ \A i \in 1..Len(s) : i < Len(s) => t[i] = s[i]
OBVIOUS

\* A new attempt is the last one and leaves the others alone.
LEMMA LogGrows ==
    ASSUME NEW s \in Seq(Attempt), NEW e \in Attempt, NEW t, t = Append(s, e)
    PROVE  /\ t \in Seq(Attempt) /\ Len(t) = Len(s) + 1 /\ t # <<>>
           /\ t[Len(t)] = e
           /\ \A i \in 1..Len(s) : t[i] = s[i]
OBVIOUS

\* The next retry is one of the delays.
LEMMA NextRetryType ==
    ASSUME NEW n \in Nat
    PROVE  next_retry_at(n) \in Delays
BY DispatcherAssumption DEF next_retry_at, Delays

\* The writes of the rest of the service keep rows typed.
LEMMA RowWrites ==
    ASSUME NEW r \in Row
    PROVE  /\ set_completed(r) \in Row
           /\ set_failed(r, "comfy_error") \in Row
           /\ mark_response_delivered(r) \in Row
           /\ mark_async_with_handover(r) \in Row
           /\ \A d \in DeliveryStatuses : set_webhook_delivery_status(r, d) \in Row
<1>1. set_completed(r) \in Row
  BY DEF Row, set_completed, Statuses
<1>2. set_failed(r, "comfy_error") \in Row
  BY DEF Row, set_failed, Statuses, ErrorCodes
<1>3. mark_response_delivered(r) \in Row
  BY DEF Row, mark_response_delivered
<1>4. mark_async_with_handover(r) \in Row
  BY DEF Row, mark_async_with_handover, Modes
<1>5. \A d \in DeliveryStatuses : set_webhook_delivery_status(r, d) \in Row
  BY DEF Row, set_webhook_delivery_status
<1> QED BY <1>1, <1>2, <1>3, <1>4, <1>5

\* A published status leaves everything else of a row alone.
LEMMA PublishedRow ==
    ASSUME NEW r \in Row, NEW d \in DeliveryStatuses, NEW new,
           new = set_webhook_delivery_status(r, d)
    PROVE  /\ new \in Row /\ new.webhook_delivery_status = d
           /\ new.webhook_handover = r.webhook_handover /\ new.status = r.status
           /\ new.mode = r.mode /\ new.response_delivered = r.response_delivered
BY DEF Row, set_webhook_delivery_status

-----------------------------------------------------------------------------
(* Frames.                                                                 *)

\* A job of which no step touches anything keeps its part of the invariant.
LEMMA JobFrame ==
    ASSUME NEW j \in JobIds, JobInv(j),
           rows'[j] = rows[j], attempts'[j] = attempts[j],
           task'[j] = task[j], posts'[j] = posts[j]
    PROVE  JobInv(j)'
BY DEF JobInv, LogOf, TaskOf, RowOf, PublishedOf, Accepted, Latest, Suppresses

\* A job without a task, after a step that left its row, log and posts alone.
LEMMA JobStops ==
    ASSUME NEW j \in JobIds, JobInv(j),
           rows'[j] = rows[j], attempts'[j] = attempts[j],
           task'[j].stage = "none", posts'[j] = posts[j]
    PROVE  JobInv(j)'
BY DEF JobInv, LogOf, TaskOf, RowOf, PublishedOf, Accepted, Past, Open

\* The semaphore after a step of the task of j that stays inside it, or leaves
\* it, and of no other task.
LEMMA SemaphoreFrame ==
    ASSUME Semaphore, NEW j \in JobIds,
           \A k \in JobIds : k # j => task'[k] = task[k],
           task[j].stage \notin {"none", "waiting"} \/ task'[j].stage \in {"none", "waiting"}
    PROVE  Semaphore'
<1>1. InFlight' \subseteq InFlight
  BY DEF InFlight
<1>2. /\ IsFiniteSet(InFlight')
      /\ Cardinality(InFlight') <= Cardinality(InFlight)
  BY <1>1, FS_Subset DEF Semaphore
<1>3. Cardinality(InFlight) \in Nat /\ Cardinality(InFlight') \in Nat
  BY <1>2, FS_CardinalityType DEF Semaphore
<1> QED BY <1>2, <1>3, DispatcherAssumption DEF Semaphore

\* A step that leaves the tasks alone leaves the semaphore alone.
LEMMA SemaphoreUntouched ==
    ASSUME Semaphore, UNCHANGED task
    PROVE  Semaphore'
<1>1. InFlight' = InFlight
  BY DEF InFlight
<1> QED BY <1>1 DEF Semaphore

\* A step of the task of j that touches nothing of another job.
OnlyJob(j) ==
    \A k \in JobIds : k # j =>
        /\ rows'[k] = rows[k] /\ attempts'[k] = attempts[k]
        /\ task'[k] = task[k] /\ posts'[k] = posts[k]

\* What remains to be shown of such a step.
LEMMA OneJobStep ==
    ASSUME IInv, NEW j \in JobIds, OnlyJob(j), TypeOK', JobInv(j)',
           task[j].stage \notin {"none", "waiting"} \/ task'[j].stage \in {"none", "waiting"}
    PROVE  IInv'
<1>1. Semaphore'
  BY SemaphoreFrame DEF IInv, OnlyJob
<1>2. \A k \in JobIds : k # j => JobInv(k)'
  BY JobFrame DEF IInv, OnlyJob
<1> QED BY <1>1, <1>2 DEF IInv

-----------------------------------------------------------------------------
(* The rest of the service, and time.                                      *)

LEMMA FinishStep ==
    ASSUME IInv, NEW j \in JobIds, Finish(j)
    PROVE  IInv'
<1>0. rows[j] \in Row /\ JobInv(j) /\ task[j] \in Tasks
  BY DEF IInv, TypeOK
<1>1. PICK new \in Row :
          /\ rows' = [rows EXCEPT ![j] = new]
          /\ new.webhook_handover = rows[j].webhook_handover /\ new.mode = rows[j].mode
          /\ new.response_delivered = rows[j].response_delivered
          /\ new.webhook_delivery_status = rows[j].webhook_delivery_status
  <2>1. CASE rows' = [rows EXCEPT ![j] = set_completed(rows[j])]
    <3> DEFINE new == set_completed(rows[j])
    <3>1. /\ new.webhook_handover = rows[j].webhook_handover /\ new.mode = rows[j].mode
          /\ new.response_delivered = rows[j].response_delivered
          /\ new.webhook_delivery_status = rows[j].webhook_delivery_status
      BY <1>0 DEF set_completed, Row
    <3> QED BY <1>0, <2>1, <3>1, RowWrites
  <2>2. CASE rows' = [rows EXCEPT ![j] = set_failed(rows[j], "comfy_error")]
    <3> DEFINE new == set_failed(rows[j], "comfy_error")
    <3>1. /\ new.webhook_handover = rows[j].webhook_handover /\ new.mode = rows[j].mode
          /\ new.response_delivered = rows[j].response_delivered
          /\ new.webhook_delivery_status = rows[j].webhook_delivery_status
      BY <1>0 DEF set_failed, Row
    <3> QED BY <1>0, <2>2, <3>1, RowWrites
  <2> QED BY <2>1, <2>2 DEF Finish
<1>2. /\ rows[j].status = "running"
      /\ UNCHANGED <<up, attempts, task, posts, faults, crashes>>
  BY DEF Finish
<1>3. TypeOK'
  BY <1>1, <1>2 DEF IInv, TypeOK
<1>4. OnlyJob(j)
  BY <1>1, <1>2 DEF OnlyJob, IInv, TypeOK
<1>5. task[j].stage = "none"
  BY <1>0, <1>2 DEF JobInv, RowOf, IsWebhookCandidate, IsTerminal, Terminal
<1>6. JobInv(j)'
  BY <1>0, <1>1, <1>2, <1>5 DEF JobInv, LogOf, TaskOf, RowOf, PublishedOf, Accepted, Past, Open,
                               IInv, TypeOK
<1> QED BY <1>2, <1>3, <1>4, <1>5, <1>6, OneJobStep

LEMMA HandOverStep ==
    ASSUME IInv, NEW j \in JobIds, HandOver(j)
    PROVE  IInv'
<1>0. rows[j] \in Row /\ JobInv(j) /\ task[j] \in Tasks
  BY DEF IInv, TypeOK
<1>1. PICK new \in Row :
          /\ rows' = [rows EXCEPT ![j] = new]
          /\ new.webhook_delivery_status = rows[j].webhook_delivery_status
  <2>1. /\ mark_response_delivered(rows[j]).webhook_delivery_status
               = rows[j].webhook_delivery_status
        /\ mark_async_with_handover(rows[j]).webhook_delivery_status
               = rows[j].webhook_delivery_status
    BY <1>0 DEF mark_response_delivered, mark_async_with_handover, Row
  <2> QED BY <1>0, <2>1, RowWrites DEF HandOver
<1>2. /\ ~rows[j].webhook_handover
      /\ UNCHANGED <<up, attempts, task, posts, faults, crashes>>
  BY DEF HandOver
<1>3. TypeOK'
  BY <1>1, <1>2 DEF IInv, TypeOK
<1>4. OnlyJob(j)
  BY <1>1, <1>2 DEF OnlyJob, IInv, TypeOK
<1>5. task[j].stage = "none" /\ posts[j] = <<>>
  BY <1>0, <1>2 DEF JobInv, RowOf, IsWebhookCandidate
<1>6. JobInv(j)'
  BY <1>0, <1>1, <1>2, <1>5 DEF JobInv, LogOf, TaskOf, RowOf, PublishedOf, Accepted, Past, Open,
                               IInv, TypeOK
<1> QED BY <1>2, <1>3, <1>4, <1>5, <1>6, OneJobStep

LEMMA ElapseStep ==
    ASSUME IInv, NEW j \in JobIds, Elapse(j)
    PROVE  IInv'
<1> DEFINE s == attempts[j]
           e == [s[Len(s)] EXCEPT !.due = TRUE]
<1>0. s \in Seq(Attempt) /\ JobInv(j) /\ s # <<>>
  BY DEF IInv, TypeOK, Elapse
<1>1. s[Len(s)] \in Attempt /\ e \in Attempt /\ e.status = s[Len(s)].status
  <2>1. s[Len(s)] \in Attempt
    BY <1>0
  <2> QED BY <2>1 DEF Attempt
<1>2. /\ attempts' = [attempts EXCEPT ![j] = [s EXCEPT ![Len(s)] = e]]
      /\ UNCHANGED <<up, rows, task, posts, faults, crashes>>
  BY DEF Elapse
<1>3. attempts'[j] = [s EXCEPT ![Len(s)] = e]
  BY <1>2 DEF IInv, TypeOK
<1> HIDE DEF e
<1>4. /\ attempts'[j] \in Seq(Attempt) /\ Len(attempts'[j]) = Len(s) /\ attempts'[j] # <<>>
      /\ attempts'[j][Len(s)] = e /\ Len(s) \in 1..Len(s)
      /\ \A i \in 1..Len(s) : i < Len(s) => attempts'[j][i] = s[i]
  BY <1>0, <1>1, <1>3, LastWrite
<1>5. \A i \in 1..Len(s) : attempts'[j][i].status = s[i].status
  <2> TAKE i \in 1..Len(s)
  <2>1. i < Len(s) \/ i = Len(s)
    BY <1>0
  <2> QED BY <1>1, <1>4, <2>1
<1>6. TypeOK'
  BY <1>2, <1>4 DEF IInv, TypeOK
<1>7. \A k \in JobIds : k # j => JobInv(k)'
  BY <1>2, JobFrame DEF IInv, TypeOK
<1>8. JobInv(j)'
  BY <1>0, <1>2, <1>4, <1>5 DEF JobInv, LogOf, TaskOf, RowOf, PublishedOf, Accepted, Latest,
                               Suppresses
<1>9. Semaphore'
  BY <1>2, SemaphoreUntouched DEF IInv
<1> QED BY <1>6, <1>7, <1>8, <1>9 DEF IInv

-----------------------------------------------------------------------------
(* The dispatcher.                                                         *)

LEMMA TickStep ==
    ASSUME IInv, Tick
    PROVE  IInv'
<1>1. UNCHANGED <<up, rows, attempts, posts, faults, crashes>>
  BY DEF Tick
<1>2. /\ task' \in [JobIds -> Tasks]
      /\ \A j \in JobIds : \/ task'[j].stage = "none"
                           \/ /\ IsWebhookCandidate(rows[j])
                              /\ task'[j].stage = "waiting" /\ task'[j].seen = rows[j]
  <2>1. NoTask \in Tasks
    BY DEF NoTask, Tasks, Stages, NoRow, Row, Modes, Verdicts, Delays, DeliveryStatuses
  <2>2. ASSUME NEW row \in Row
        PROVE  LET t == [NoTask EXCEPT !.stage = "waiting", !.seen = row]
               IN  t \in Tasks /\ t.stage = "waiting" /\ t.seen = row
    BY <2>1 DEF Tasks, Stages
  <2>3. NoTask.stage = "none"
    BY DEF NoTask
  <2> QED BY <2>1, <2>2, <2>3 DEF Tick, Candidates, IInv, TypeOK
<1>3. TypeOK'
  BY <1>1, <1>2 DEF IInv, TypeOK
<1>4. ASSUME NEW j \in JobIds
      PROVE  JobInv(j)'
  <2>1. /\ task'[j].stage \in {"none", "waiting"}
        /\ task'[j].stage = "waiting" => IsWebhookCandidate(rows[j]) /\ task'[j].seen = rows[j]
    BY <1>2
  <2>2. JobInv(j)
    BY DEF IInv
  <2> QED BY <1>1, <2>1, <2>2 DEF JobInv, LogOf, TaskOf, RowOf, PublishedOf, Accepted, Past, Open
<1>5. Semaphore'
  <2>1. InFlight' = {}
    BY <1>2 DEF InFlight
  <2> QED BY <2>1, FS_EmptySet, DispatcherAssumption DEF Semaphore
<1> QED BY <1>3, <1>4, <1>5 DEF IInv

LEMMA AcquireStep ==
    ASSUME IInv, NEW j \in JobIds, Acquire(j)
    PROVE  IInv'
<1>0. JobInv(j) /\ task[j] \in Tasks
  BY DEF IInv, TypeOK
<1>1. /\ task[j].stage = "waiting" /\ Cardinality(InFlight) < MaxInFlight
      /\ task' = [task EXCEPT ![j] = [task[j] EXCEPT !.stage = "decide"]]
      /\ UNCHANGED <<up, rows, attempts, posts, faults, crashes>>
  BY DEF Acquire
<1>2. /\ task'[j].stage = "decide" /\ task'[j].seen = task[j].seen /\ task'[j] \in Tasks
      /\ \A k \in JobIds : k # j => task'[k] = task[k]
  BY <1>0, <1>1 DEF IInv, TypeOK, Tasks, Stages
<1>3. TypeOK'
  BY <1>1, <1>2 DEF IInv, TypeOK
<1>4. JobInv(j)'
  BY <1>0, <1>1, <1>2 DEF JobInv, LogOf, TaskOf, RowOf, PublishedOf, Accepted, Past, Open
<1>5. \A k \in JobIds : k # j => JobInv(k)'
  BY <1>1, <1>2, JobFrame DEF IInv
<1>6. Semaphore'
  <2>1. InFlight' = InFlight \cup {j} /\ j \notin InFlight
    BY <1>1, <1>2 DEF InFlight
  <2>2. /\ IsFiniteSet(InFlight')
        /\ Cardinality(InFlight') = Cardinality(InFlight) + 1
    BY <2>1, FS_AddElement DEF IInv, Semaphore
  <2>3. Cardinality(InFlight) \in Nat
    BY FS_CardinalityType DEF IInv, Semaphore
  <2> QED BY <1>1, <2>2, <2>3, DispatcherAssumption DEF Semaphore
<1> QED BY <1>3, <1>4, <1>5, <1>6 DEF IInv

\* The task is over and the row gets a published status.
LEMMA PublishStep ==
    ASSUME IInv, NEW j \in JobIds, NEW d \in DeliveryStatuses,
           task[j].stage \notin {"none", "waiting"},
           rows' = [rows EXCEPT ![j] = set_webhook_delivery_status(rows[j], d)],
           task' = [task EXCEPT ![j] = NoTask],
           UNCHANGED <<up, attempts, posts, faults, crashes>>,
           d = "succeeded" => Accepted(j),
           d = "suppressed" => posts[j] = <<>>,
           d = "failed" => \A i \in 1..Len(attempts[j]) : attempts[j][i].status # "succeeded"
    PROVE  IInv'
<1>0. rows[j] \in Row /\ JobInv(j)
  BY DEF IInv, TypeOK
<1>1. NoTask \in Tasks /\ NoTask.stage = "none"
  BY DEF NoTask, Tasks, Stages, NoRow, Row, Modes, Verdicts, Delays, DeliveryStatuses
<1>2. /\ rows'[j] \in Row /\ rows'[j].webhook_delivery_status = d
      /\ rows'[j].webhook_handover = rows[j].webhook_handover
      /\ rows'[j].mode = rows[j].mode
      /\ rows'[j].response_delivered = rows[j].response_delivered
  BY <1>0, PublishedRow DEF IInv, TypeOK
<1>3. TypeOK'
  BY <1>1, <1>2 DEF IInv, TypeOK
<1>4. OnlyJob(j)
  BY DEF OnlyJob, IInv, TypeOK
<1>5. task'[j].stage = "none"
  BY <1>1 DEF IInv, TypeOK
<1>6. JobInv(j)'
  BY <1>0, <1>2, <1>5 DEF JobInv, LogOf, TaskOf, RowOf, PublishedOf, Accepted, Past, Open
<1> QED BY <1>3, <1>4, <1>5, <1>6, OneJobStep

\* The log is all failed when its last attempt is.
LEMMA AllFailed ==
    ASSUME NEW j \in JobIds, attempts[j] \in Seq(Attempt), LogOf(j), attempts[j] # <<>>,
           Latest(j).status # "succeeded"
    PROVE  \A i \in 1..Len(attempts[j]) : attempts[j][i].status # "succeeded"
<1>1. \A i \in 1..Len(attempts[j]) : i < Len(attempts[j]) \/ i = Len(attempts[j])
  OBVIOUS
<1> QED BY <1>1 DEF LogOf, Latest

LEMMA DecideStep ==
    ASSUME IInv, NEW j \in JobIds, Decide(j)
    PROVE  IInv'
<1> DEFINE s == attempts[j]
<1>0. /\ rows[j] \in Row /\ JobInv(j) /\ task[j] \in Tasks /\ s \in Seq(Attempt)
      /\ task[j].stage = "decide"
      /\ UNCHANGED <<up, posts, faults, crashes>>
  BY DEF IInv, TypeOK, Decide
<1>1. CASE /\ Suppresses(j)
           /\ rows' = [rows EXCEPT ![j] = set_webhook_delivery_status(rows[j], "suppressed")]
           /\ task' = [task EXCEPT ![j] = NoTask]
           /\ UNCHANGED attempts
  <2>1. posts[j] = <<>>
    BY <1>0, <1>1 DEF JobInv, RowOf, Suppresses
  <2> QED BY <1>0, <1>1, <2>1, PublishStep DEF DeliveryStatuses
<1>2. ASSUME s # <<>>, Latest(j).status = "succeeded",
             rows' = [rows EXCEPT ![j] = set_webhook_delivery_status(rows[j], "succeeded")],
             task' = [task EXCEPT ![j] = NoTask],
             UNCHANGED attempts
      PROVE  IInv'
  <2>1. Len(s) \in 1..Len(s)
    BY <1>0, <1>2
  <2>2. Accepted(j)
    BY <1>0, <1>2, <2>1 DEF JobInv, LogOf, Latest
  <2> QED BY <1>0, <1>2, <2>2, PublishStep DEF DeliveryStatuses
<1>3. ASSUME ~Suppresses(j),
             s # <<>> => Latest(j).status = "failed",
             task' = [task EXCEPT ![j].stage = "create"],
             UNCHANGED <<rows, attempts>>
      PROVE  IInv'
  <2>1. task'[j].stage = "create" /\ task'[j].seen = task[j].seen /\ task'[j] \in Tasks
    BY <1>0, <1>3 DEF IInv, TypeOK, Tasks, Stages
  <2>2. TypeOK'
    BY <1>0, <1>3, <2>1 DEF IInv, TypeOK
  <2>3. OnlyJob(j)
    BY <1>0, <1>3 DEF OnlyJob, IInv, TypeOK
  <2>4. JobInv(j)'
    BY <1>0, <1>3, <2>1 DEF JobInv, LogOf, TaskOf, RowOf, PublishedOf, Accepted, Past, Open,
                             Suppresses, Latest
  <2> QED BY <1>0, <2>2, <2>3, <2>4, OneJobStep
<1>4. ASSUME s # <<>>, task' = [task EXCEPT ![j] = NoTask], UNCHANGED <<rows, attempts>>
      PROVE  IInv'
  <2>1. NoTask \in Tasks /\ NoTask.stage = "none"
    BY DEF NoTask, Tasks, Stages, NoRow, Row, Modes, Verdicts, Delays, DeliveryStatuses
  <2>2. TypeOK'
    BY <1>0, <1>4, <2>1 DEF IInv, TypeOK
  <2>3. OnlyJob(j)
    BY <1>0, <1>4 DEF OnlyJob, IInv, TypeOK
  <2>4. task'[j].stage = "none"
    BY <1>4, <2>1 DEF IInv, TypeOK
  <2>5. JobInv(j)'
    BY <1>0, <1>4, <2>4, JobStops
  <2> QED BY <1>0, <2>2, <2>3, <2>5, OneJobStep
<1>5. ASSUME ~Suppresses(j), s # <<>>,
             Latest(j).status \in {"pending", "delivering"},
             attempts' = [attempts EXCEPT ![j][Len(attempts[j])].status = "failed"],
             task' = [task EXCEPT ![j].stage = "create"],
             UNCHANGED rows
      PROVE  IInv'
  <2> DEFINE e == [s[Len(s)] EXCEPT !.status = "failed"]
  <2>1. e \in Attempt /\ e.status = "failed"
    <3>1. s[Len(s)] \in Attempt
      BY <1>0, <1>5
    <3> QED BY <3>1 DEF Attempt, AttemptStatuses
  <2>2. attempts' = [attempts EXCEPT ![j] = [s EXCEPT ![Len(s)] = e]]
    BY <1>5
  <2>3. attempts'[j] = [s EXCEPT ![Len(s)] = e]
    BY <2>2 DEF IInv, TypeOK
  <2> HIDE DEF e
  <2>4. /\ attempts'[j] \in Seq(Attempt) /\ Len(attempts'[j]) = Len(s)
        /\ attempts'[j] # <<>> /\ attempts'[j][Len(s)] = e
        /\ \A i \in 1..Len(s) : i < Len(s) => attempts'[j][i] = s[i]
    <3>1. s \in Seq(Attempt) /\ s # <<>>
      BY <1>0, <1>5
    <3> HIDE DEF s
    <3> QED BY <2>1, <2>3, <3>1, LastWrite
  <2>5. \A i \in 1..Len(s) : attempts'[j][i].status = "failed"
    <3> TAKE i \in 1..Len(s)
    <3>1. i < Len(s) \/ i = Len(s)
      BY <1>0
    <3> QED BY <1>0, <2>1, <2>4, <3>1 DEF JobInv, LogOf
  <2>6. task'[j].stage = "create" /\ task'[j].seen = task[j].seen /\ task'[j] \in Tasks
    BY <1>0, <1>5 DEF IInv, TypeOK, Tasks, Stages
  <2>7. TypeOK'
    BY <1>0, <1>5, <2>2, <2>4, <2>6 DEF IInv, TypeOK
  <2>8. OnlyJob(j)
    BY <1>0, <1>5, <2>2 DEF OnlyJob, IInv, TypeOK
  <2>9. JobInv(j)'
    <3>1. Latest(j)'.status = "failed"
      BY <2>1, <2>4 DEF Latest
    <3> QED BY <1>0, <1>5, <2>4, <2>5, <2>6, <3>1
            DEF JobInv, LogOf, TaskOf, RowOf, PublishedOf, Accepted, Past, Open, Suppresses
  <2> QED BY <1>0, <2>7, <2>8, <2>9, OneJobStep
<1>6. CASE ~Suppresses(j) /\ s = <<>>
  BY <1>3, <1>6 DEF Decide
<1>7. CASE ~Suppresses(j) /\ s # <<>>
  BY <1>2, <1>3, <1>4, <1>5, <1>7 DEF Decide
<1> QED BY <1>1, <1>6, <1>7 DEF Decide

\* A task that ends without a write.
LEMMA EndStep ==
    ASSUME IInv, NEW j \in JobIds, faults' \in 0..MaxFaults,
           task' = [task EXCEPT ![j] = NoTask],
           UNCHANGED <<up, rows, attempts, posts, crashes>>
    PROVE  IInv'
<1>1. NoTask \in Tasks /\ NoTask.stage = "none"
  BY DEF NoTask, Tasks, Stages, NoRow, Row, Modes, Verdicts, Delays, DeliveryStatuses
<1>2. TypeOK'
  BY <1>1 DEF IInv, TypeOK
<1>3. OnlyJob(j)
  BY DEF OnlyJob, IInv, TypeOK
<1>4. task'[j].stage = "none"
  BY <1>1 DEF IInv, TypeOK
<1>5. JobInv(j)'
  BY <1>4, JobStops DEF IInv
<1> QED BY <1>2, <1>3, <1>4, <1>5, OneJobStep

LEMMA CreateStep ==
    ASSUME IInv, NEW j \in JobIds, Create(j)
    PROVE  IInv'
<1> DEFINE s == attempts[j]
<1>0. /\ JobInv(j) /\ task[j] \in Tasks /\ s \in Seq(Attempt) /\ posts[j] \in Seq(Answers)
      /\ task[j].stage = "create"
      /\ UNCHANGED <<up, rows, posts, faults, crashes>>
  BY DEF IInv, TypeOK, Create
<1>1. CASE Len(s) >= Len(Schedule)
  <2>1. task' = [task EXCEPT ![j] = NoTask] /\ UNCHANGED attempts
    BY <1>0, <1>1, DispatcherAssumption DEF Create
  <2> QED BY <1>0, <2>1, EndStep DEF IInv, TypeOK
<1>2. CASE Len(s) < Len(Schedule)
  <2> DEFINE e == [status |-> "pending", delay |-> 0, due |-> FALSE, answer |-> "none"]
  <2>1. e \in Attempt /\ e.status = "pending"
    BY DEF Attempt, AttemptStatuses, Delays
  <2>2. /\ attempts' = [attempts EXCEPT ![j] = Append(s, e)]
        /\ task' = [task EXCEPT ![j].stage = "deliver"]
    BY <1>2 DEF Create
  <2>3. attempts'[j] = Append(s, e)
    BY <2>2 DEF IInv, TypeOK
  <2> HIDE DEF e
  <2>4. /\ attempts'[j] \in Seq(Attempt) /\ Len(attempts'[j]) = Len(s) + 1
        /\ attempts'[j] # <<>> /\ attempts'[j][Len(attempts'[j])] = e
        /\ \A i \in 1..Len(s) : attempts'[j][i] = s[i]
    BY <1>0, <2>1, <2>3, LogGrows
  <2>5. \A i \in 1..Len(s) : s[i].status = "failed"
    <3> TAKE i \in 1..Len(s)
    <3>1. s # <<>> /\ (i < Len(s) \/ i = Len(s))
      BY <1>0
    <3> QED BY <1>0, <3>1 DEF JobInv, LogOf, TaskOf, Latest
  <2>6. task'[j] \in Tasks /\ task'[j].stage = "deliver" /\ task'[j].seen = task[j].seen
    BY <1>0, <2>2 DEF IInv, TypeOK, Tasks, Stages
  <2>7. TypeOK'
    BY <1>0, <2>2, <2>4, <2>6 DEF IInv, TypeOK
  <2>8. OnlyJob(j)
    BY <1>0, <2>2 DEF OnlyJob, IInv, TypeOK
  <2>9. Len(s) \in Nat /\ Len(posts[j]) \in Nat /\ Len(Schedule) \in Nat
    BY <1>0, DispatcherAssumption
  <2>10. \A i \in 1..Len(attempts'[j]) :
            \/ i \in 1..Len(s) /\ attempts'[j][i].status = "failed"
            \/ i = Len(attempts'[j]) /\ attempts'[j][i].status = "pending"
    BY <2>1, <2>4, <2>5, <2>9
  <2>11. Latest(j)'.status = "pending"
    BY <2>1, <2>4 DEF Latest
  <2>12. LogOf(j)'
    BY <1>0, <1>2, <2>4, <2>9, <2>10 DEF JobInv, LogOf, Accepted
  <2>13. TaskOf(j)'
    BY <1>0, <2>4, <2>6, <2>9, <2>11 DEF JobInv, LogOf, TaskOf, Open
  <2>14. RowOf(j)'
    BY <1>0, <2>6 DEF JobInv, RowOf, Past, Suppresses
  <2>15. PublishedOf(j)'
    BY <1>0, <2>10 DEF JobInv, RowOf, PublishedOf, Accepted, IsWebhookCandidate
  <2> QED BY <1>0, <2>7, <2>8, <2>12, <2>13, <2>14, <2>15, OneJobStep DEF JobInv
<1>3. Len(s) \in Nat /\ Len(Schedule) \in Nat
  BY <1>0, DispatcherAssumption
<1> QED BY <1>1, <1>2, <1>3

\* A step inside an attempt that rewrites its last row with status st.
LEMMA AttemptWrite ==
    ASSUME IInv, NEW j \in JobIds, NEW e \in Attempt, NEW t \in Tasks,
           task[j].stage \in Open, t.stage \in Open, t.seen = task[j].seen,
           attempts' = [attempts EXCEPT ![j] = [attempts[j] EXCEPT ![Len(attempts[j])] = e]],
           task' = [task EXCEPT ![j] = t],
           UNCHANGED <<up, rows, posts, faults, crashes>>,
           e.status = "succeeded" => Accepted(j),
           t.stage = "send" => e.status = "delivering" /\ Len(posts[j]) < Len(attempts[j]),
           t.stage = "publish" =>
              t.verdict # "none" /\ e.status = t.verdict /\
              (t.verdict = "succeeded" => Accepted(j)),
           t.stage \in {"send", "publish"}
    PROVE  IInv'
<1> DEFINE s == attempts[j]
<1>0. /\ JobInv(j) /\ s \in Seq(Attempt) /\ s # <<>>
      /\ task'[j] = t /\ attempts'[j] = [s EXCEPT ![Len(s)] = e]
  BY DEF IInv, TypeOK, JobInv, TaskOf
<1>1. /\ attempts'[j] \in Seq(Attempt) /\ Len(attempts'[j]) = Len(s) /\ attempts'[j] # <<>>
      /\ attempts'[j][Len(s)] = e
      /\ \A i \in 1..Len(s) : i < Len(s) => attempts'[j][i] = s[i]
  <2>1. e \in Attempt
    OBVIOUS
  <2> HIDE DEF s
  <2> QED BY ONLY <1>0, <2>1, LastWrite
<1>2. TypeOK'
  BY <1>1 DEF IInv, TypeOK
<1>3. OnlyJob(j)
  BY DEF OnlyJob, IInv, TypeOK
<1>4. task[j].stage \in Past /\ t.stage \in Past
  BY DEF Open, Past
<1>5. Latest(j)' = e
  BY <1>1 DEF Latest
<1>6. LogOf(j)'
  <2>1. ASSUME NEW i \in 1..Len(s), i < Len(s)
        PROVE  attempts'[j][i].status = "failed"
    BY <1>0, <1>1, <2>1 DEF JobInv, LogOf
  <2>2. \A i \in 1..Len(s) : i < Len(s) \/ i = Len(s)
    BY <1>0
  <2> QED BY <1>0, <1>1, <2>1, <2>2 DEF JobInv, LogOf, Accepted
<1>7. TaskOf(j)'
  BY <1>0, <1>1, <1>5 DEF TaskOf, Accepted
<1>8. RowOf(j)'
  BY <1>0, <1>4 DEF JobInv, RowOf, Suppresses, Past
<1>9. PublishedOf(j)'
  BY <1>0, <1>4 DEF JobInv, RowOf, PublishedOf, IsWebhookCandidate, Past, Accepted
<1>10. task[j].stage \notin {"none", "waiting"}
  BY DEF Open
<1> QED BY <1>2, <1>3, <1>6, <1>7, <1>8, <1>9, <1>10, OneJobStep DEF JobInv

LEMMA DeliverStep ==
    ASSUME IInv, NEW j \in JobIds, Deliver(j)
    PROVE  IInv'
<1> DEFINE s == attempts[j]
           e == [s[Len(s)] EXCEPT !.status = "delivering"]
           t == [task[j] EXCEPT !.stage = "send"]
<1>0. /\ JobInv(j) /\ task[j] \in Tasks /\ s \in Seq(Attempt)
      /\ task[j].stage = "deliver"
      /\ UNCHANGED <<up, rows, posts, faults, crashes>>
  BY DEF IInv, TypeOK, Deliver
<1>1. s # <<>> /\ Len(posts[j]) < Len(s)
  BY <1>0 DEF JobInv, TaskOf, Open
<1>2. e \in Attempt /\ e.status = "delivering"
  <2>1. s[Len(s)] \in Attempt
    BY <1>0, <1>1
  <2> QED BY <2>1 DEF Attempt, AttemptStatuses
<1>3. t \in Tasks /\ t.stage = "send" /\ t.seen = task[j].seen
  BY <1>0 DEF Tasks, Stages
<1>4. /\ attempts' = [attempts EXCEPT ![j] = [s EXCEPT ![Len(s)] = e]]
      /\ task' = [task EXCEPT ![j] = t]
  BY DEF Deliver
<1>5. task[j].stage \in Open /\ t.stage \in Open
  BY <1>0, <1>3 DEF Open
<1> HIDE DEF e, t
<1> QED BY <1>0, <1>1, <1>2, <1>3, <1>4, <1>5, AttemptWrite

LEMMA CloseStep ==
    ASSUME IInv, NEW j \in JobIds, Close(j)
    PROVE  IInv'
<1> DEFINE s == attempts[j]
           e == [status |-> task[j].verdict, delay |-> task[j].delay, due |-> FALSE,
                 answer |-> task[j].answer]
           t == [task[j] EXCEPT !.stage = "publish"]
<1>0. /\ JobInv(j) /\ task[j] \in Tasks /\ s \in Seq(Attempt)
      /\ task[j].stage = "close"
      /\ UNCHANGED <<up, rows, posts, faults, crashes>>
  BY DEF IInv, TypeOK, Close
<1>1. task[j].verdict # "none" /\ (task[j].verdict = "succeeded" => Accepted(j))
  BY <1>0 DEF JobInv, TaskOf
<1>2. e \in Attempt /\ e.status = task[j].verdict
  BY <1>0, <1>1 DEF Attempt, AttemptStatuses, Tasks, Verdicts
<1>3. /\ t \in Tasks /\ t.stage = "publish" /\ t.seen = task[j].seen
      /\ t.verdict = task[j].verdict
  BY <1>0 DEF Tasks, Stages
<1>4. /\ attempts' = [attempts EXCEPT ![j] = [s EXCEPT ![Len(s)] = e]]
      /\ task' = [task EXCEPT ![j] = t]
  BY DEF Close
<1>5. task[j].stage \in Open /\ t.stage \in Open
  BY <1>0, <1>3 DEF Open
<1> HIDE DEF e, t
<1> QED BY <1>0, <1>1, <1>2, <1>3, <1>4, <1>5, AttemptWrite

\* What a send leaves behind: a verdict, and at most one more answer.
LEMMA SendWrite ==
    ASSUME IInv, NEW j \in JobIds, NEW t \in Tasks, NEW p \in Seq(Answers),
           task[j].stage = "send", UNCHANGED <<up, rows, attempts, faults, crashes>>,
           task' = [task EXCEPT ![j] = t], posts' = [posts EXCEPT ![j] = p],
           t.stage = "close", t.seen = task[j].seen, t.verdict # "none",
           Len(p) <= Len(posts[j]) + 1,
           \A i \in 1..Len(posts[j]) : i \in 1..Len(p) /\ p[i] = posts[j][i],
           t.verdict = "succeeded" => \E i \in 1..Len(p) : p[i] = "ok"
    PROVE  IInv'
<1>0. /\ JobInv(j) /\ task[j] \in Tasks /\ attempts[j] \in Seq(Attempt)
      /\ posts[j] \in Seq(Answers)
  BY DEF IInv, TypeOK
<1>1. /\ Len(posts[j]) < Len(attempts[j]) /\ Latest(j).status = "delivering"
      /\ attempts[j] # <<>>
      /\ IsWebhookCandidate(rows[j]) /\ ~Suppresses(j)
      /\ rows[j].mode = task[j].seen.mode
      /\ rows[j].response_delivered = task[j].seen.response_delivered
  BY <1>0 DEF JobInv, TaskOf, RowOf, Open, Past
<1>3. task'[j] = t /\ posts'[j] = p
  BY DEF IInv, TypeOK
<1>4. TypeOK'
  BY DEF IInv, TypeOK
<1>5. OnlyJob(j)
  BY DEF OnlyJob, IInv, TypeOK
<1>6. Accepted(j) => Accepted(j)'
  BY <1>3 DEF Accepted
<1>7. Len(p) <= Len(attempts[j])
  BY <1>0, <1>1
<1>8. LogOf(j)'
  BY <1>0, <1>3, <1>6, <1>7 DEF JobInv, LogOf
<1>9. TaskOf(j)'
  BY <1>0, <1>1, <1>3 DEF TaskOf, Accepted, Latest
<1>10. RowOf(j)'
  BY <1>0, <1>1, <1>3 DEF RowOf, Suppresses, IsWebhookCandidate
<1>11. PublishedOf(j)'
  BY <1>0, <1>1, <1>3 DEF PublishedOf, IsWebhookCandidate
<1> QED BY <1>0, <1>4, <1>5, <1>8, <1>9, <1>10, <1>11, OneJobStep DEF JobInv

LEMMA SendStep ==
    ASSUME IInv, NEW j \in JobIds, Send(j)
    PROVE  IInv'
<1>0. /\ task[j] \in Tasks /\ attempts[j] \in Seq(Attempt)
      /\ posts[j] \in Seq(Answers) /\ task[j].stage = "send"
      /\ UNCHANGED <<up, rows, attempts, faults, crashes>>
  BY DEF IInv, TypeOK, Send
<1>1. CASE /\ task' = [task EXCEPT ![j].stage = "close", ![j].verdict = "failed"]
           /\ UNCHANGED posts
  <2> DEFINE t == [task[j] EXCEPT !.stage = "close", !.verdict = "failed"]
             p == posts[j]
  <2>1. t \in Tasks /\ t.stage = "close" /\ t.seen = task[j].seen /\ t.verdict = "failed"
    BY <1>0 DEF Tasks, Stages, Verdicts
  <2>2. task' = [task EXCEPT ![j] = t] /\ posts' = [posts EXCEPT ![j] = p]
    BY <1>1 DEF IInv, TypeOK
  <2>3. p \in Seq(Answers) /\ p = posts[j] /\ Len(p) <= Len(posts[j]) + 1
    BY <1>0
  <2>4. t.verdict # "none" /\ t.verdict # "succeeded"
    BY <2>1
  <2>5. \A i \in 1..Len(posts[j]) : i \in 1..Len(p) /\ p[i] = posts[j][i]
    BY <2>3
  <2> HIDE DEF t, p
  <2> QED BY <1>0, <2>1, <2>2, <2>3, <2>4, <2>5, SendWrite
<1>2. ASSUME NEW answer \in Answers,
             posts' = [posts EXCEPT ![j] = Append(@, answer)],
             task' = [task EXCEPT
                 ![j].stage = "close",
                 ![j].answer = answer,
                 ![j].verdict = IF answer = "ok" THEN "succeeded" ELSE "failed",
                 ![j].delay = IF answer = "retryable" THEN next_retry_at(Len(attempts[j]))
                              ELSE 0]
      PROVE  IInv'
  <2> DEFINE v == IF answer = "ok" THEN "succeeded" ELSE "failed"
             d == IF answer = "retryable" THEN next_retry_at(Len(attempts[j])) ELSE 0
             t == [task[j] EXCEPT !.stage = "close", !.answer = answer, !.verdict = v,
                                  !.delay = d]
             p == Append(posts[j], answer)
  <2>1. d \in Delays
    <3>1. Len(attempts[j]) \in Nat
      BY <1>0
    <3> QED BY <3>1, NextRetryType DEF Delays
  <2>2. v \in {"succeeded", "failed"} /\ (v = "succeeded" => answer = "ok")
    OBVIOUS
  <2>3. task' = [task EXCEPT ![j] = t] /\ posts' = [posts EXCEPT ![j] = p]
    BY <1>2 DEF IInv, TypeOK
  <2> HIDE DEF v, d
  <2>4. t \in Tasks /\ t.stage = "close" /\ t.seen = task[j].seen /\ t.verdict = v
    BY <1>0, <2>1, <2>2 DEF Tasks, Stages, Verdicts
  <2>5. /\ p \in Seq(Answers) /\ Len(p) <= Len(posts[j]) + 1
        /\ p[Len(p)] = answer /\ Len(p) \in 1..Len(p)
        /\ \A i \in 1..Len(posts[j]) : i \in 1..Len(p) /\ p[i] = posts[j][i]
    BY <1>0
  <2>6. /\ t.verdict # "none"
        /\ t.verdict = "succeeded" => \E i \in 1..Len(p) : p[i] = "ok"
    BY <2>2, <2>4, <2>5
  <2> HIDE DEF t, p
  <2> QED BY <1>0, <2>3, <2>4, <2>5, <2>6, SendWrite
<1> QED BY <1>1, <1>2 DEF Send

LEMMA PublishesStep ==
    ASSUME IInv, NEW j \in JobIds, Publish(j)
    PROVE  IInv'
<1> DEFINE d == IF task[j].verdict = "succeeded" THEN "succeeded"
                ELSE IF task[j].delay # 0 THEN "pending" ELSE "failed"
<1>0. /\ JobInv(j) /\ attempts[j] \in Seq(Attempt) /\ task[j].stage = "publish"
      /\ UNCHANGED <<up, attempts, posts, faults, crashes>>
      /\ task' = [task EXCEPT ![j] = NoTask]
      /\ rows' = [rows EXCEPT ![j] = set_webhook_delivery_status(rows[j], d)]
  BY DEF IInv, TypeOK, Publish
<1>1. /\ d \in DeliveryStatuses
      /\ d = "succeeded" => task[j].verdict = "succeeded"
      /\ d = "failed" => task[j].verdict # "succeeded"
      /\ d # "suppressed"
  BY DEF DeliveryStatuses
<1>2. /\ attempts[j] # <<>> /\ Latest(j).status = task[j].verdict
      /\ task[j].verdict = "succeeded" => Accepted(j)
  BY <1>0 DEF JobInv, TaskOf, Open
<1>3. d = "failed" => \A i \in 1..Len(attempts[j]) : attempts[j][i].status # "succeeded"
  BY <1>0, <1>1, <1>2, AllFailed DEF JobInv
<1> HIDE DEF d
<1> QED BY <1>0, <1>1, <1>2, <1>3, PublishStep

-----------------------------------------------------------------------------
(* Failures.                                                               *)

LEMMA TaskRaisesStep ==
    ASSUME IInv, NEW j \in JobIds, TaskRaises(j)
    PROVE  IInv'
<1>1. faults' \in 0..MaxFaults
  BY DispatcherAssumption DEF TaskRaises, IInv, TypeOK
<1> QED BY <1>1, EndStep DEF TaskRaises

LEMMA CrashStep ==
    ASSUME IInv, Crash
    PROVE  IInv'
<1>1. /\ task' = [j \in JobIds |-> NoTask] /\ UNCHANGED <<rows, attempts, posts, faults>>
      /\ up' = FALSE /\ crashes' \in 0..MaxCrashes
  BY DispatcherAssumption DEF Crash, IInv, TypeOK
<1>2. NoTask \in Tasks /\ NoTask.stage = "none"
  BY DEF NoTask, Tasks, Stages, NoRow, Row, Modes, Verdicts, Delays, DeliveryStatuses
<1>3. TypeOK'
  BY <1>1, <1>2 DEF IInv, TypeOK
<1>4. \A j \in JobIds : JobInv(j)'
  BY <1>1, <1>2, JobStops DEF IInv
<1>5. Semaphore'
  <2>1. InFlight' = {}
    BY <1>1, <1>2 DEF InFlight
  <2> QED BY <2>1, FS_EmptySet, DispatcherAssumption DEF Semaphore
<1> QED BY <1>3, <1>4, <1>5 DEF IInv

\* A step that leaves the tables, the tasks and the receiver alone.
LEMMA IdleStep ==
    ASSUME IInv, up' \in BOOLEAN, UNCHANGED <<rows, attempts, task, posts, faults, crashes>>
    PROVE  IInv'
<1>1. TypeOK'
  BY DEF IInv, TypeOK
<1>2. \A j \in JobIds : JobInv(j)'
  BY JobFrame DEF IInv
<1>3. Semaphore'
  BY SemaphoreUntouched DEF IInv
<1> QED BY <1>1, <1>2, <1>3 DEF IInv

-----------------------------------------------------------------------------
(* The theorems.                                                           *)

LEMMA InitIInv == Init => IInv
<1> SUFFICES ASSUME Init
             PROVE  IInv
  OBVIOUS
<1>1. NoTask \in Tasks /\ NoTask.stage = "none"
  BY DEF NoTask, Tasks, Stages, NoRow, Row, Modes, Verdicts, Delays, DeliveryStatuses
<1> DEFINE row == set_running(create_queued("sync", TRUE, 0))
<1>2. row \in Row /\ row.webhook_delivery_status = "pending"
  BY DEF set_running, create_queued, NoRow, Row, Statuses, Modes, DeliveryStatuses
<1>3. rows = [j \in JobIds |-> row]
  BY DEF Init
<1> HIDE DEF row
<1>4. TypeOK
  <2>1. <<>> \in Seq(Attempt) /\ <<>> \in Seq(Answers)
    OBVIOUS
  <2>2. 0 \in 0..MaxFaults /\ 0 \in 0..MaxCrashes
    BY DispatcherAssumption
  <2>3. /\ attempts \in [JobIds -> Seq(Attempt)] /\ posts \in [JobIds -> Seq(Answers)]
        /\ task \in [JobIds -> Tasks] /\ rows \in [JobIds -> Row]
    BY <1>1, <1>2, <1>3, <2>1 DEF Init
  <2> QED BY <2>2, <2>3 DEF Init, TypeOK
<1>5. ASSUME NEW j \in JobIds
      PROVE  JobInv(j)
  <2>1. /\ attempts[j] = <<>> /\ posts[j] = <<>> /\ task[j].stage = "none"
        /\ rows[j].webhook_delivery_status = "pending"
    BY <1>1, <1>2, <1>3 DEF Init
  <2>2. 1..Len(attempts[j]) = {} /\ Len(posts[j]) <= Len(attempts[j])
    BY <2>1
  <2>3. Len(attempts[j]) <= Len(Schedule)
    BY <2>1, DispatcherAssumption
  <2>4. LogOf(j)
    BY <2>2, <2>3 DEF LogOf
  <2>5. TaskOf(j)
    BY <2>1 DEF TaskOf, Open
  <2>6. RowOf(j)
    BY <2>1 DEF RowOf, Past
  <2>7. PublishedOf(j)
    BY <2>1 DEF PublishedOf
  <2> QED BY <2>4, <2>5, <2>6, <2>7 DEF JobInv
<1>6. Semaphore
  <2>1. InFlight = {}
    BY <1>1 DEF Init, InFlight
  <2> QED BY <2>1, FS_EmptySet, DispatcherAssumption DEF Semaphore
<1> QED BY <1>4, <1>5, <1>6 DEF IInv

LEMMA NextIInv == IInv /\ [Next]_vars => IInv'
<1> SUFFICES ASSUME IInv, [Next]_vars
             PROVE  IInv'
  OBVIOUS
<1>1. CASE UNCHANGED vars
  BY <1>1, IdleStep DEF vars, IInv, TypeOK
<1>2. CASE Tick
  BY <1>2, TickStep
<1>3. CASE Crash
  BY <1>3, CrashStep
<1>4. CASE Restart
  BY <1>4, IdleStep DEF Restart
<1>5. CASE Quiescent
  BY <1>1, <1>5 DEF Quiescent
<1>6. ASSUME NEW j \in JobIds, Finish(j) \/ HandOver(j) \/ Elapse(j) \/ TaskRaises(j)
      PROVE  IInv'
  BY <1>6, FinishStep, HandOverStep, ElapseStep, TaskRaisesStep
<1>7. ASSUME NEW j \in JobIds, TaskStep(j)
      PROVE  IInv'
  BY <1>7, AcquireStep, DecideStep, CreateStep, DeliverStep, SendStep, CloseStep, PublishesStep
     DEF TaskStep
<1> QED BY <1>1, <1>2, <1>3, <1>4, <1>5, <1>6, <1>7 DEF Next

LEMMA Invariance == Spec => []IInv
BY InitIInv, NextIInv, PTL DEF Spec

\* The attempt log is well formed (one open attempt at most, the last one; all
\* earlier ones failed; no more calls than attempts) whatever exceptions and
\* crashes cut tasks short, for every schedule and any number of jobs.
THEOREM AttemptLogHolds == Spec => []AttemptLog
<1>1. IInv => AttemptLog
  BY DEF IInv, JobInv, LogOf, AttemptLog
<1> QED BY <1>1, Invariance, PTL

\* The delivery status published on a row is true of what the receiver answered.
THEOREM StatusIsTrueHolds == Spec => []StatusIsTrue
<1>1. IInv => StatusIsTrue
  BY DEF IInv, JobInv, PublishedOf, StatusIsTrue
<1> QED BY <1>1, Invariance, PTL

\* Only terminal rows that were handed over have a task, the row such a task
\* was started with does not change under it, and the semaphore holds.
THEOREM BarrierAndSemaphoreHolds == Spec => []BarrierAndSemaphore
<1>1. IInv => BarrierAndSemaphore
  BY DEF IInv, JobInv, RowOf, Semaphore, IsWebhookCandidate, BarrierAndSemaphore
<1> QED BY <1>1, Invariance, PTL

\* A post is sent only by a task whose log holds no recorded success.
LEMMA PostStep ==
    ASSUME IInv, [Next]_vars, NEW j \in JobIds,
           NEW i \in 1..Len(attempts[j]), attempts[j][i].status = "succeeded"
    PROVE  posts'[j] = posts[j]
<1>1. ASSUME NEW k \in JobIds, Send(k)
      PROVE  posts'[j] = posts[j]
  <2>1. CASE k = j
    <3>1. /\ attempts[j] \in Seq(Attempt) /\ JobInv(j) /\ task[j].stage = "send"
      BY <1>1, <2>1 DEF IInv, TypeOK, Send
    <3>2. i < Len(attempts[j]) \/ i = Len(attempts[j])
      BY <3>1
    <3> QED BY <3>1, <3>2 DEF JobInv, LogOf, TaskOf, Latest
  <2>2. CASE k # j
    BY <1>1, <2>2 DEF Send, IInv, TypeOK
  <2> QED BY <2>1, <2>2
<1>2. CASE UNCHANGED posts
  BY <1>2
<1> QED BY <1>1, <1>2
    DEF Next, vars, Tick, Crash, Restart, Quiescent, Finish, HandOver, TaskStep, Elapse,
        TaskRaises, Acquire, Decide, Create, Deliver, Close, Publish

\* After a recorded success the receiver is never called again, also when the
\* process dies between complete_attempt and set_webhook_delivery_status.
THEOREM NoPostAfterSuccessHolds == Spec => NoPostAfterSuccess
<1>1. IInv /\ [Next]_vars =>
        [\A j \in JobIds :
            (\E i \in 1..Len(attempts[j]) : attempts[j][i].status = "succeeded")
                => posts'[j] = posts[j]]_vars
  BY PostStep
<1> QED BY <1>1, Invariance, PTL DEF Spec, NoPostAfterSuccess
=============================================================================
