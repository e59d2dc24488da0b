--------------------------- MODULE JobQueueProofs ---------------------------
(***************************************************************************)
(* Proofs about JobQueue, for every set of jobs, workers, models and       *)
(* requests and every value of MaxQueue and of the bounds.                 *)
(***************************************************************************)
EXTENDS JobQueue, FiniteSetTheorems, TLAPS

-----------------------------------------------------------------------------
(* Rows and endings.                                                       *)

\* Every set_* and mark_* of jobs.py maps a row to a row.
LEMMA RowOperations ==
    ASSUME NEW r \in Row
    PROVE  /\ set_running(r) \in Row
           /\ set_completed(r) \in Row
           /\ \A c \in ErrorCodes : set_failed(r, c) \in Row
           /\ set_fetched(r) \in Row
           /\ mark_initial_response_delivered(r) \in Row
           /\ mark_response_delivered(r) \in Row
           /\ mark_async_with_handover(r) \in Row
           /\ mark_handover(r) \in Row
<1>1. set_running(r) \in Row
  BY DEF Row, set_running, Statuses
<1>2. set_completed(r) \in Row
  BY DEF Row, set_completed, Statuses
<1>3. \A c \in ErrorCodes : set_failed(r, c) \in Row
  BY DEF Row, set_failed, Statuses
<1>4. set_fetched(r) \in Row
  BY DEF Row, set_fetched
<1>5. mark_initial_response_delivered(r) \in Row
  BY DEF Row, mark_initial_response_delivered
<1>6. mark_response_delivered(r) \in Row
  BY DEF Row, mark_response_delivered
<1>7. mark_async_with_handover(r) \in Row
  BY DEF Row, mark_async_with_handover, Modes
<1>8. mark_handover(r) \in Row
  BY DEF Row, mark_handover
<1> QED BY <1>1, <1>2, <1>3, <1>4, <1>5, <1>6, <1>7, <1>8

\* A row that create_queued inserts is a row.
LEMMA CreatedRow ==
    ASSUME NEW m \in Modes, NEW b \in BOOLEAN, NEW n \in Nat
    PROVE  create_queued(m, b, n) \in Row
BY DEF create_queued, NoRow, Row, Statuses, DeliveryStatuses

\* Every way a pipeline stage can end early is an ending.
LEMMA EndingsTyped ==
    /\ \A kind \in PipelineKinds : PrepareFailures(kind) \subseteq Endings
    /\ \A kind \in PipelineKinds : ExecuteFailures(kind) \subseteq Endings
    /\ SubmitFailures \subseteq Endings
    /\ SwapFailures \subseteq Endings
    /\ Ending("none", "node") \in Endings
    /\ Ending("none", "other") \in Endings
<1> USE DEF Ending, Endings, ErrorCodes, Exceptions
<1>1. UploadImageFailures \subseteq Endings
  BY DEF UploadImageFailures
<1>2. /\ ImagePrepareFailures \subseteq Endings
      /\ LtxvPrepareFailures \subseteq Endings
      /\ WanPrepareFailures \subseteq Endings
  BY <1>1 DEF ImagePrepareFailures, LtxvPrepareFailures, WanPrepareFailures
<1>3. WaitFailures \cup FetchFailures \cup OutputFailures \cup StoreFailures \subseteq Endings
  BY DEF WaitFailures, FetchFailures, OutputFailures, StoreFailures
<1>4. SubmitFailures \subseteq Endings /\ SwapFailures \subseteq Endings
  BY DEF SubmitFailures, SwapFailures
<1>5. \A kind \in PipelineKinds : PrepareFailures(kind) \subseteq Endings
  BY <1>2 DEF PrepareFailures, PipelineKinds
<1>6. \A kind \in PipelineKinds : ExecuteFailures(kind) \subseteq Endings
  BY <1>3 DEF ExecuteFailures, PipelineKinds, ImageExecuteFailures,
              LtxvExecuteFailures, WanExecuteFailures
<1>7. Ending("none", "node") \in Endings /\ Ending("none", "other") \in Endings
  OBVIOUS
<1> QED BY <1>4, <1>5, <1>6, <1>7

-----------------------------------------------------------------------------
(* Type correctness.  A worker that is not idle holds a job, and one that  *)
(* is about to call set_failed has a code: without it the request a        *)
(* pipeline reads and the error_code it writes would be unknown.           *)

BusyWorkers ==
    \A w \in Workers : /\ worker[w].stage # "idle" => worker[w].job \in JobIds
                       /\ worker[w].stage = "record" => worker[w].code \in ErrorCodes

TypeInv == TypeOK /\ BusyWorkers

\* The tables the steps of one handler leave alone keep their types.
LEMMA NowType == TypeOK => Now \in Nat
<1> SUFFICES Now \in Nat
  OBVIOUS
<1> DEFINE present == {k \in JobIds : rows[k].status # "none"}
<1>1. IsFiniteSet(present)
  BY FS_Subset, JobIdsAssumption
<1> QED BY <1>1, FS_CardinalityType DEF Now

\* An ending keeps the worker table typed and its item in place.
LEMMA EndsWithType ==
    ASSUME TypeInv, NEW w \in Workers, NEW ending \in Endings,
           worker[w].stage # "idle", EndsWith(w, ending)
    PROVE  /\ worker' \in [Workers -> WorkerStates]
           /\ BusyWorkers'
<1> DEFINE next == IF ending.code # "none" THEN "record"
                   ELSE IF ending.exc = "other" THEN "unexpected" ELSE "settle"
<1>1. /\ next \in WorkerStages /\ next # "idle"
      /\ next = "record" => ending.code # "none"
  BY DEF WorkerStages
<1>2. ending.code \in ErrorCodes \cup {"none"} /\ ending.exc \in Outcomes
  BY DEF Endings, Outcomes
<1>3. worker' = [worker EXCEPT ![w] = [stage |-> next, job |-> worker[w].job,
                                       code |-> ending.code, exc |-> ending.exc]]
  BY DEF EndsWith
<1> HIDE DEF next
<1> QED BY <1>1, <1>2, <1>3 DEF TypeInv, TypeOK, BusyWorkers, WorkerStates

\* Moving a worker to another stage keeps the worker table typed.
LEMMA AtType ==
    ASSUME TypeInv, NEW w \in Workers, NEW stage \in WorkerStages,
           stage \notin {"idle", "record"}, worker[w].stage # "idle", worker' = At(w, stage)
    PROVE  /\ worker' \in [Workers -> WorkerStates]
           /\ BusyWorkers'
BY DEF TypeInv, TypeOK, BusyWorkers, WorkerStates, At

\* The writes of a worker keep the jobs table typed.
LEMMA WriteTypes ==
    ASSUME TypeInv, NEW j, NEW target, NEW new,
           j \in JobIds => new \in Row,
           Moves(j, target, new) \/ MoveRaises(j, target, new) \/ Marks(j, new)
    PROVE  rows' \in [JobIds -> Row] /\ faults' \in 0..MaxFaults
BY BoundsAssumption DEF TypeInv, TypeOK, Moves, MoveRaises, Marks, DbFault

\* The steps of a handler and its watcher preserve the type invariant.
LEMMA HandlerStepType ==
    ASSUME TypeInv, NEW j \in JobIds,
           Arrive(j) \/ ClientDrop(j) \/ HandlerStep(j)
    PROVE  TypeInv'
<1> USE DEF TypeInv, TypeOK, BusyWorkers, handlerVars, workerVars, bootVars, bounds
<1>0. rows[j] \in Row /\ request[j] \in RequestSpace
  BY RequestsAssumption
<1>1. CASE Arrive(j)
  BY <1>1 DEF Arrive, HandlerStages
<1>2. CASE ClientDrop(j)
  BY <1>2 DEF ClientDrop, ClientStates
<1>3. CASE Gate(j)
  BY <1>3 DEF Gate, HandlerStages, Replies
<1>4. CASE Insert(j)
  <2>1. create_queued(request[j].mode, request[j].webhook, Now) \in Row
    BY <1>0, CreatedRow, NowType DEF RequestSpace
  <2>2. rows' \in [JobIds -> Row]
    BY <1>4, <2>1 DEF Insert
  <2>3. faults' \in 0..MaxFaults
    BY <1>4, BoundsAssumption DEF Insert, DbFault
  <2>4. handler' \in [JobIds -> HandlerStages] /\ reply' \in [JobIds -> Replies]
    BY <1>4 DEF Insert, HandlerStages, Replies
  <2> QED BY <1>4, <2>2, <2>3, <2>4 DEF Insert
<1>5. CASE Put(j)
  <2>1. queue' \in Seq(JobIds)
    BY <1>5 DEF Put
  <2>2. /\ handler' \in [JobIds -> HandlerStages] /\ reply' \in [JobIds -> Replies]
        /\ watcher' \in [JobIds -> {"off", "on"}]
    BY <1>5 DEF Put, HandlerStages, Replies
  <2> QED BY <1>5, <2>1, <2>2 DEF Put
<1>6. CASE Answer(j)
  BY <1>6 DEF Answer, HandlerStages, Replies
<1>7. CASE ReadBack(j)
  <2>1. set_fetched(rows[j]) \in Row
    BY <1>0, RowOperations
  <2>2. rows' \in [JobIds -> Row]
    BY <1>7, <2>1 DEF ReadBack
  <2>3. reply' \in [JobIds -> Replies] /\ handler' \in [JobIds -> HandlerStages]
    BY <1>7 DEF ReadBack, HandlerStages, Replies
  <2> QED BY <1>7, <2>2, <2>3 DEF ReadBack
<1>8. CASE Flush(j)
  BY <1>8 DEF Flush, HandlerStages, ClientStates
<1>9. CASE Background(j)
  <2> DEFINE new == IF reply[j] = "accepted"
                    THEN mark_initial_response_delivered(rows[j])
                    ELSE mark_response_delivered(rows[j])
  <2>1. new \in Row
    BY <1>0, RowOperations
  <2>2. Marks(j, new)
    BY <1>9 DEF Background
  <2> HIDE DEF new
  <2>3. rows' \in [JobIds -> Row] /\ faults' \in 0..MaxFaults
    BY <2>1, <2>2, WriteTypes
  <2> QED BY <1>9, <2>3 DEF Background, HandlerStages
<1>10. CASE Watch(j)
  <2>1. mark_async_with_handover(rows[j]) \in Row
    BY <1>0, RowOperations
  <2>2. rows' \in [JobIds -> Row] /\ faults' \in 0..MaxFaults
    BY <1>10, <2>1, WriteTypes DEF Watch
  <2> QED BY <1>10, <2>2 DEF Watch
<1> QED BY <1>1, <1>2, <1>3, <1>4, <1>5, <1>6, <1>7, <1>8, <1>9, <1>10 DEF HandlerStep

\* The steps of a worker preserve the type invariant.
LEMMA WorkerStepType ==
    ASSUME TypeInv, NEW w \in Workers, WorkerStep(w)
    PROVE  TypeInv'
<1> DEFINE j == worker[w].job
<1> USE DEF handlerVars, workerVars, bootVars, bounds
<1>1. CASE Get(w)
  <2>1. Head(queue) \in JobIds /\ Tail(queue) \in Seq(JobIds)
    BY <1>1 DEF Get, TypeInv, TypeOK
  <2>2. worker' \in [Workers -> WorkerStates] /\ BusyWorkers'
    BY <1>1, <2>1 DEF Get, TypeInv, TypeOK, BusyWorkers, WorkerStates, WorkerStages, Outcomes
  <2> QED BY <1>1, <2>1, <2>2 DEF Get, TypeInv, TypeOK
<1>2. ASSUME worker[w].stage # "idle"
      PROVE  /\ j \in JobIds /\ rows[j] \in Row /\ request[j] \in RequestSpace
             /\ request[j].kind \in PipelineKinds /\ request[j].model \in Models
  BY <1>2, RequestsAssumption DEF TypeInv, TypeOK, BusyWorkers, RequestSpace
<1>3. CASE Prepare(w)
  <2>1. worker' \in [Workers -> WorkerStates] /\ BusyWorkers'
    BY <1>2, <1>3, AtType, EndsWithType, EndingsTyped DEF Prepare, WorkerStages
  <2> QED BY <1>3, <2>1 DEF Prepare, TypeInv, TypeOK
<1>4. CASE Submit(w)
  <2>1. worker' \in [Workers -> WorkerStates] /\ BusyWorkers'
    BY <1>2, <1>4, AtType, EndsWithType, EndingsTyped DEF Submit, WorkerStages
  <2> QED BY <1>4, <2>1 DEF Submit, TypeInv, TypeOK
<1>5. CASE SetRunning(w)
  <2>1. worker' \in [Workers -> WorkerStates] /\ BusyWorkers'
    BY <1>5, AtType, EndsWithType, EndingsTyped DEF SetRunning, WorkerStages
  <2>2. set_running(rows[j]) \in Row
    BY <1>2, <1>5, RowOperations DEF SetRunning
  <2>3. rows' \in [JobIds -> Row] /\ faults' \in 0..MaxFaults
    BY <1>5, <2>2, WriteTypes DEF SetRunning
  <2> QED BY <1>5, <2>1, <2>3 DEF SetRunning, TypeInv, TypeOK
<1>6. CASE Execute(w)
  <2>1. worker' \in [Workers -> WorkerStates] /\ BusyWorkers'
    BY <1>2, <1>6, AtType, EndsWithType, EndingsTyped DEF Execute, WorkerStages
  <2> QED BY <1>6, <2>1 DEF Execute, TypeInv, TypeOK
<1>7. CASE Complete(w)
  <2>2. worker' \in [Workers -> WorkerStates] /\ BusyWorkers'
    <3>1. CASE worker' = [worker EXCEPT ![w] = [stage |-> "settle", job |-> j,
                                                code |-> "none", exc |-> "ok"]]
      BY <1>2, <1>7, <3>1 DEF Complete, TypeInv, TypeOK, BusyWorkers, WorkerStates,
                              WorkerStages, Outcomes
    <3>2. CASE EndsWith(w, Ending("none", "other"))
      BY <1>7, <3>2, EndsWithType, EndingsTyped DEF Complete
    <3> QED BY <1>7, <3>1, <3>2 DEF Complete
  <2>3. set_completed(rows[j]) \in Row
    BY <1>2, <1>7, RowOperations DEF Complete
  <2>4. rows' \in [JobIds -> Row] /\ faults' \in 0..MaxFaults
    BY <1>7, <2>3, WriteTypes DEF Complete
  <2>5. lastModel' \in Models \cup {NoModel}
    BY <1>2, <1>7 DEF Complete, TypeInv, TypeOK
  <2> QED BY <1>7, <2>2, <2>4, <2>5 DEF Complete, TypeInv, TypeOK
<1>8. CASE Record(w)
  <2>1. worker' \in [Workers -> WorkerStates] /\ BusyWorkers'
    BY <1>8, AtType, EndsWithType, EndingsTyped DEF Record, WorkerStages
  <2>2. set_failed(rows[j], worker[w].code) \in Row
    BY <1>2, <1>8, RowOperations DEF Record, TypeInv, BusyWorkers
  <2>3. rows' \in [JobIds -> Row] /\ faults' \in 0..MaxFaults
    BY <1>8, <2>2, WriteTypes DEF Record
  <2> QED BY <1>8, <2>1, <2>3 DEF Record, TypeInv, TypeOK
<1>9. CASE Unexpected(w)
  <2>1. worker' \in [Workers -> WorkerStates] /\ BusyWorkers'
    BY <1>9, AtType DEF Unexpected, WorkerStages
  <2>2. set_failed(rows[j], "internal") \in Row
    BY <1>2, <1>9, RowOperations DEF Unexpected, ErrorCodes
  <2>3. rows' \in [JobIds -> Row] /\ faults' \in 0..MaxFaults
    BY <1>9, <2>2, WriteTypes DEF Unexpected
  <2> QED BY <1>9, <2>1, <2>3 DEF Unexpected, TypeInv, TypeOK
<1>10. CASE Settle(w)
  BY <1>10 DEF Settle, TypeInv, TypeOK, BusyWorkers, WorkerStates, WorkerStages,
               Outcomes, Idle
<1> QED BY <1>1, <1>3, <1>4, <1>5, <1>6, <1>7, <1>8, <1>9, <1>10 DEF WorkerStep

\* The steps of start-up, recovery and crashes preserve the type invariant.
LEMMA LifespanType ==
    ASSUME TypeInv, RecoverStep \/ Crash
    PROVE  TypeInv'
<1> USE DEF TypeInv, TypeOK, BusyWorkers, handlerVars, workerVars, bootVars, bounds
<1>1. CASE Boot
  BY <1>1 DEF Boot, IsActive
<1>2. CASE Serve
  BY <1>2 DEF Serve
<1>3. ASSUME NEW j \in JobIds, RecoverRunning(j)
      PROVE  TypeInv'
  <2>1. set_failed(rows[j], "service_restarted") \in Row
    BY RowOperations DEF ErrorCodes
  <2> QED BY <1>3, <2>1 DEF RecoverRunning
<1>4. ASSUME NEW j \in JobIds, RecoverHandover(j)
      PROVE  TypeInv'
  <2>1. mark_handover(rows[j]) \in Row
    BY RowOperations
  <2> QED BY <1>4, <2>1 DEF RecoverHandover
<1>5. ASSUME NEW j \in JobIds, RecoverQueued(j)
      PROVE  TypeInv'
  BY <1>5 DEF RecoverQueued
<1>6. CASE Crash
  <2>1. handler' \in [JobIds -> HandlerStages] /\ client' \in [JobIds -> ClientStates]
    BY <1>6 DEF Crash, HandlerStages, ClientStates
  <2>2. worker' \in [Workers -> WorkerStates] /\ BusyWorkers'
    BY <1>6 DEF Crash, Idle, WorkerStates, WorkerStages, Outcomes
  <2>3. crashes' \in 0..MaxCrashes
    BY <1>6, BoundsAssumption DEF Crash
  <2> QED BY <1>6, <2>1, <2>2, <2>3 DEF Crash, Outcomes
<1> QED BY <1>1, <1>2, <1>3, <1>4, <1>5, <1>6 DEF RecoverStep

\* Every step of the service preserves the type invariant.
LEMMA NextType == TypeInv /\ [Next]_vars => TypeInv'
<1> SUFFICES ASSUME TypeInv, [Next]_vars
             PROVE  TypeInv'
  OBVIOUS
<1>1. CASE vars' = vars
  BY <1>1 DEF vars, handlerVars, workerVars, bootVars, bounds, TypeInv, TypeOK, BusyWorkers
<1>2. CASE Quiescent
  BY <1>1, <1>2 DEF Quiescent
<1> QED BY <1>1, <1>2, HandlerStepType, WorkerStepType, LifespanType DEF Next

\* The initial state satisfies the type invariant.
LEMMA InitType == Init => TypeInv
<1> SUFFICES ASSUME Init
             PROVE  TypeInv
  OBVIOUS
<1>1. NoRow \in Row
  BY DEF NoRow, Row, Modes, DeliveryStatuses
<1> QED BY <1>1, BoundsAssumption
    DEF Init, TypeInv, TypeOK, BusyWorkers, HandlerStages, Replies, ClientStates, Outcomes,
        Idle, WorkerStates, WorkerStages

\* The type invariant of JobQueue holds for every number of jobs, workers and
\* models and every capacity of the queue.
THEOREM TypeCorrect == Spec => []TypeOK
<1>1. TypeInv => TypeOK
  BY DEF TypeInv
<1> QED BY <1>1, InitType, NextType, PTL DEF Spec

-----------------------------------------------------------------------------
(* Ownership.  SingleOwner and WritesAllowed support each other: a row has *)
(* the status its owner's stage needs because nobody else owns the job,    *)
(* and a second owner cannot appear because a job enters the queue only    *)
(* from a handler that just inserted its row or from the boot snapshot.    *)
(* What ties them together is where a phase allows tasks to be and what    *)
(* the row of a job in each place looks like.                              *)

\* Handlers run only while serving, recovery only while recovering, and a
\* process that is down has no tasks and no queue; the row recovery is in the
\* middle of is one of its snapshot.
PhaseDiscipline ==
    /\ phase = "down" => queue = <<>> /\ \A w \in Workers : worker[w].stage = "idle"
    /\ phase # "serving" => \A j \in JobIds : handler[j] \in {"idle", "done", "lost"}
    /\ phase # "recovering" => flipping = NoJob /\ \A j \in JobIds : todo[j] = "no"
    /\ flipping # NoJob => todo[flipping] # "no"

\* The row of a job that no handler has inserted yet does not exist; the row
\* of a job on its way to a worker is queued; a worker's job has a row.
RowsMatchPlaces ==
    /\ \A j \in JobIds : handler[j] \in {"idle", "gate", "insert"} => rows[j].status = "none"
    /\ \A j \in JobIds : handler[j] = "put" => rows[j].status = "queued"
    /\ \A i \in 1..Len(queue) : rows[queue[i]].status = "queued"
    /\ \A w \in Workers : worker[w].stage = "idle" <=> worker[w].job = NoJob
    /\ \A w \in Workers : worker[w].stage # "idle" => rows[worker[w].job].status # "none"
    /\ \A j \in JobIds : todo[j] # "no" => rows[j].status # "none"

Ownership == SingleOwner /\ WritesAllowed /\ PhaseDiscipline /\ RowsMatchPlaces

\* The marks and set_fetched leave the status of a row alone.
LEMMA MarksKeepStatus ==
    ASSUME NEW r \in Row
    PROVE  /\ mark_initial_response_delivered(r).status = r.status
           /\ mark_response_delivered(r).status = r.status
           /\ mark_async_with_handover(r).status = r.status
           /\ mark_handover(r).status = r.status
           /\ set_fetched(r).status = r.status
BY DEF Row, mark_initial_response_delivered, mark_response_delivered,
       mark_async_with_handover, mark_handover, set_fetched

\* A step of handlers that enqueues nothing and inserts nothing.
LEMMA HandlerFrame ==
    ASSUME TypeInv, Ownership,
           UNCHANGED <<phase, queue, worker, todo, flipping>>,
           \A j \in JobIds : rows'[j].status = rows[j].status,
           faults' = 0 => faults = 0,
           \A j \in JobIds :
               \/ handler'[j] = handler[j]
               \/ /\ phase = "serving" /\ handler'[j] # "put"
                  /\ handler'[j] \in {"idle", "gate", "insert"}
                         => handler[j] \in {"idle", "gate", "insert"}
    PROVE  Ownership'
<1>1. SingleOwner'
  BY DEF Ownership, SingleOwner, InQueue, Holds
<1>2. WritesAllowed'
  <2>1. ASSUME NEW w \in Workers
        PROVE  StageFits(worker'[w].stage, rows'[worker'[w].job].status, faults')
    BY <2>1 DEF Ownership, WritesAllowed, StageFits, TypeInv, BusyWorkers
  <2> QED BY <2>1 DEF Ownership, WritesAllowed
<1>3. PhaseDiscipline'
  BY DEF Ownership, PhaseDiscipline
<1>4. RowsMatchPlaces'
  <2>1. \A i \in 1..Len(queue) : queue[i] \in JobIds
    BY DEF TypeInv, TypeOK
  <2> QED BY <2>1 DEF Ownership, RowsMatchPlaces, TypeInv, BusyWorkers
<1> QED BY <1>1, <1>2, <1>3, <1>4 DEF Ownership

\* A step of a worker that keeps its job and leaves its row in a status that
\* fits its new stage.
LEMMA WorkerFrame ==
    ASSUME TypeInv, Ownership, NEW w \in Workers, NEW new \in WorkerStates,
           worker[w].stage # "idle", new.stage # "idle", new.job = worker[w].job,
           worker' = [worker EXCEPT ![w] = new],
           \A k \in JobIds : k # new.job => rows'[k].status = rows[k].status,
           rows'[new.job].status # "none",
           StageFits(new.stage, rows'[new.job].status, faults'),
           faults' = 0 => faults = 0,
           UNCHANGED <<phase, handler, queue, todo, flipping>>
    PROVE  Ownership'
<1> DEFINE j == worker[w].job
<1>0. j \in JobIds /\ j # NoJob
  BY JobIdsAssumption DEF TypeInv, BusyWorkers
<1>1. \A v \in Workers : worker'[v].job = worker[v].job
  BY DEF TypeInv, TypeOK
<1>2. /\ ~InQueue(j) /\ handler[j] # "put" /\ todo[j] = "no"
      /\ \A v \in Workers : v # w => worker[v].job # j
  BY <1>0 DEF Ownership, SingleOwner, Holds
<1>3. SingleOwner'
  BY <1>1 DEF Ownership, SingleOwner, InQueue, Holds
<1>4. WritesAllowed'
  <2>1. ASSUME NEW v \in Workers
        PROVE  StageFits(worker'[v].stage, rows'[worker'[v].job].status, faults')
    <3>1. CASE v = w
      BY <3>1 DEF TypeInv, TypeOK
    <3>2. CASE v # w /\ worker[v].stage # "idle"
      <4>1. worker[v].job \in JobIds /\ worker[v].job # j /\ worker'[v] = worker[v]
        BY <1>2, <3>2 DEF TypeInv, TypeOK, BusyWorkers
      <4> QED BY <4>1 DEF Ownership, WritesAllowed, StageFits
    <3>3. CASE v # w /\ worker[v].stage = "idle"
      <4>1. worker'[v].stage = "idle"
        BY <3>3 DEF TypeInv, TypeOK
      <4> QED BY <4>1 DEF StageFits
    <3> QED BY <3>1, <3>2, <3>3
  <2>2. \A k \in JobIds : todo'[k] # "no" /\ flipping' # k => rows'[k].status = todo'[k]
    BY <1>2 DEF Ownership, WritesAllowed
  <2> QED BY <2>1, <2>2 DEF WritesAllowed
<1>5. PhaseDiscipline'
  <2>1. phase # "down"
    BY DEF Ownership, PhaseDiscipline
  <2> QED BY <2>1 DEF Ownership, PhaseDiscipline
<1>6. RowsMatchPlaces'
  <2>0. \A i \in 1..Len(queue) : queue[i] \in JobIds
    BY DEF TypeInv, TypeOK
  <2>1. \A i \in 1..Len(queue) : queue[i] \in JobIds /\ queue[i] # j
    BY <1>2, <2>0 DEF InQueue
  <2>2. handler[j] \notin {"idle", "gate", "insert", "put"}
    BY <1>0, <1>2 DEF Ownership, RowsMatchPlaces
  <2>3. \A v \in Workers : v # w /\ worker[v].stage # "idle" =>
           worker[v].job \in JobIds /\ worker[v].job # j
    BY <1>2 DEF TypeInv, BusyWorkers
  <2>4. \A v \in Workers : v # w => worker'[v] = worker[v]
    BY DEF TypeInv, TypeOK
  <2>5. worker'[w] = new
    BY DEF TypeInv, TypeOK
  <2> QED BY <1>0, <1>2, <2>1, <2>2, <2>3, <2>4, <2>5 DEF Ownership, RowsMatchPlaces
<1> QED BY <1>3, <1>4, <1>5, <1>6 DEF Ownership

\* A step that moves a worker to a stage, with what the new stage needs.
LEMMA AtFrame ==
    ASSUME TypeInv, NEW w \in Workers, NEW stage \in WorkerStages, stage # "idle",
           worker' = At(w, stage)
    PROVE  \E new \in WorkerStates :
              /\ new.stage = stage /\ new.job = worker[w].job
              /\ worker' = [worker EXCEPT ![w] = new]
<1> DEFINE new == [worker[w] EXCEPT !.stage = stage]
<1>1. new \in WorkerStates /\ new.stage = stage /\ new.job = worker[w].job
  BY DEF TypeInv, TypeOK, WorkerStates
<1>2. worker' = [worker EXCEPT ![w] = new]
  BY DEF At
<1> QED BY <1>1, <1>2

\* An ending moves a worker to "record" when it has a code, else past it.
LEMMA EndFrame ==
    ASSUME TypeInv, NEW w \in Workers, NEW ending \in Endings, worker[w].stage # "idle",
           EndsWith(w, ending)
    PROVE  \E new \in WorkerStates :
              /\ new.stage \in {"record", "unexpected", "settle"}
              /\ ending.code = "none" /\ ending.exc # "other" => new.stage = "settle"
              /\ new.job = worker[w].job
              /\ worker' = [worker EXCEPT ![w] = new]
<1> DEFINE stage == IF ending.code # "none" THEN "record"
                    ELSE IF ending.exc = "other" THEN "unexpected" ELSE "settle"
           new == [stage |-> stage, job |-> worker[w].job,
                   code |-> ending.code, exc |-> ending.exc]
<1>1. /\ stage \in {"record", "unexpected", "settle"} /\ stage \in WorkerStages
      /\ ending.code = "none" /\ ending.exc # "other" => stage = "settle"
  BY DEF WorkerStages
<1>2. ending.code \in ErrorCodes \cup {"none"} /\ ending.exc \in Outcomes
  BY DEF Endings, Outcomes
<1>3. worker[w].job \in JobIds
  BY DEF TypeInv, BusyWorkers
<1>4. worker' = [worker EXCEPT ![w] = new]
  BY DEF EndsWith
<1>5. /\ new \in WorkerStates /\ new.stage = stage /\ new.job = worker[w].job
  <2> HIDE DEF stage
  <2> QED BY <1>1, <1>2, <1>3 DEF WorkerStates
<1> HIDE DEF new, stage
<1> QED BY <1>1, <1>4, <1>5

\* What an asyncio put does to the queue.
QueueGrows(j) ==
    /\ Len(queue') = Len(queue) + 1
    /\ \A i \in 1..Len(queue) : queue'[i] = queue[i]
    /\ queue'[Len(queue) + 1] = j
    /\ \A i \in 1..Len(queue') : i \in 1..Len(queue) \/ i = Len(queue) + 1

LEMMA AppendGrows ==
    ASSUME queue \in Seq(JobIds), NEW j \in JobIds, queue' = Append(queue, j)
    PROVE  QueueGrows(j)
BY DEF QueueGrows

\* Enqueueing a job that nobody owns keeps every job with one owner.
LEMMA GrowKeepsOwner ==
    ASSUME TypeInv, Ownership, NEW j \in JobIds, QueueGrows(j), ~InQueue(j),
           \A v \in Workers : worker[v].job # j,
           handler'[j] # "put", todo'[j] = "no",
           \A k \in JobIds : k # j => handler'[k] = handler[k] /\ todo'[k] = todo[k],
           UNCHANGED worker
    PROVE  SingleOwner'
<1>1. \A k \in JobIds : InQueue(k)' => InQueue(k) \/ k = j
  BY DEF QueueGrows, InQueue
<1>2. \A i, k \in 1..Len(queue') : queue'[i] = queue'[k] => i = k
  <2>1. \A i \in 1..Len(queue) : queue[i] # j
    BY DEF InQueue
  <2> QED BY <2>1 DEF QueueGrows, Ownership, SingleOwner
<1>3. \A k \in JobIds, v \in Workers : Holds(v, k)' <=> Holds(v, k)
  BY DEF Holds
<1>4. \A v \in Workers : ~Holds(v, j)
  BY DEF Holds
<1>5. \A k \in JobIds : handler'[k] = "put" \/ todo'[k] # "no" => k # j
  OBVIOUS
<1> QED BY <1>1, <1>2, <1>3, <1>4, <1>5 DEF Ownership, SingleOwner

\* The steps of a handler and its watcher preserve the ownership invariant.
LEMMA HandlerStepOwnership ==
    ASSUME TypeInv, Ownership, NEW j \in JobIds,
           Arrive(j) \/ ClientDrop(j) \/ HandlerStep(j)
    PROVE  Ownership'
<1> USE DEF handlerVars, workerVars, bootVars, bounds
<1>0. rows[j] \in Row
  BY DEF TypeInv, TypeOK
<1>p. ASSUME handler[j] \notin {"idle", "done", "lost"}
      PROVE  phase = "serving"
  BY <1>p DEF Ownership, PhaseDiscipline
<1>1. CASE Arrive(j)
  BY <1>1, HandlerFrame DEF Arrive, TypeInv, TypeOK
<1>2. CASE ClientDrop(j)
  BY <1>2, HandlerFrame DEF ClientDrop
<1>3. CASE Gate(j)
  BY <1>3, <1>p, HandlerFrame DEF Gate, TypeInv, TypeOK
<1>6. CASE Answer(j)
  BY <1>6, <1>p, HandlerFrame DEF Answer, TypeInv, TypeOK
<1>7. CASE ReadBack(j)
  <2>1. \A k \in JobIds : rows'[k].status = rows[k].status
    BY <1>0, <1>7, MarksKeepStatus DEF ReadBack, TypeInv, TypeOK
  <2> QED BY <1>7, <1>p, <2>1, HandlerFrame DEF ReadBack, TypeInv, TypeOK
<1>8. CASE Flush(j)
  BY <1>8, <1>p, HandlerFrame DEF Flush, TypeInv, TypeOK
<1>9. CASE Background(j)
  <2>1. \A k \in JobIds : rows'[k].status = rows[k].status
    BY <1>0, <1>9, MarksKeepStatus DEF Background, Marks, TypeInv, TypeOK
  <2>2. faults' = 0 => faults = 0
    BY <1>9 DEF Background, Marks, DbFault, TypeInv, TypeOK
  <2> QED BY <1>9, <1>p, <2>1, <2>2, HandlerFrame DEF Background, TypeInv, TypeOK
<1>10. CASE Watch(j)
  <2>1. \A k \in JobIds : rows'[k].status = rows[k].status
    BY <1>0, <1>10, MarksKeepStatus DEF Watch, Marks, TypeInv, TypeOK
  <2>2. faults' = 0 => faults = 0
    BY <1>10 DEF Watch, Marks, DbFault, TypeInv, TypeOK
  <2> QED BY <1>10, <2>1, <2>2, HandlerFrame DEF Watch
<1>4. CASE Insert(j)
  <2>1. CASE UNCHANGED rows
    <3>1. faults' = 0 => faults = 0
      BY <1>4 DEF Insert, DbFault, TypeInv, TypeOK
    <3>2. handler' = [handler EXCEPT ![j] = "flush"]
      <4>1. create_queued(request[j].mode, request[j].webhook, Now).status = "queued"
        BY DEF create_queued, NoRow
      <4>2. rows[j].status = "none"
        BY <1>4 DEF Insert, Ownership, RowsMatchPlaces
      <4> QED BY <1>4, <2>1, <4>1, <4>2 DEF Insert, TypeInv, TypeOK
    <3> QED BY <1>4, <1>p, <2>1, <3>1, <3>2, HandlerFrame DEF Insert, TypeInv, TypeOK
  <2>2. CASE ~UNCHANGED rows
    <3>1. /\ rows[j].status = "none" /\ handler[j] = "insert"
          /\ phase = "serving"
      BY <1>4, <1>p DEF Insert, Ownership, RowsMatchPlaces
    <3>2. /\ rows'[j].status = "queued"
          /\ \A k \in JobIds : k # j => rows'[k] = rows[k]
          /\ handler' = [handler EXCEPT ![j] = "put"]
          /\ UNCHANGED <<phase, queue, worker, todo, flipping, faults>>
      <4> DEFINE new == create_queued(request[j].mode, request[j].webhook, Now)
      <4>1. new.status = "queued"
        BY DEF create_queued, NoRow
      <4>2. /\ rows' = [rows EXCEPT ![j] = new]
            /\ handler' = [handler EXCEPT ![j] = "put"]
            /\ UNCHANGED <<phase, queue, worker, todo, flipping, faults>>
        BY <1>4, <2>2 DEF Insert
      <4> HIDE DEF new
      <4> QED BY <4>1, <4>2 DEF TypeInv, TypeOK
    <3>3. \A i \in 1..Len(queue) : queue[i] \in JobIds /\ queue[i] # j
      <4>1. \A i \in 1..Len(queue) : queue[i] \in JobIds
        BY DEF TypeInv, TypeOK
      <4> QED BY <3>1, <4>1 DEF Ownership, RowsMatchPlaces
    <3>4. \A v \in Workers : worker[v].job # j
      BY <3>1, JobIdsAssumption DEF Ownership, RowsMatchPlaces
    <3>5. \A k \in JobIds : todo[k] = "no"
      BY <3>1 DEF Ownership, PhaseDiscipline
    <3>6. SingleOwner'
      <4>1. ~InQueue(j)' /\ \A v \in Workers : ~Holds(v, j)'
        BY <3>2, <3>3, <3>4 DEF InQueue, Holds
      <4>2. \A k \in JobIds : k # j => handler'[k] = handler[k]
        BY <3>2 DEF TypeInv, TypeOK
      <4> QED BY <3>2, <3>5, <4>1, <4>2 DEF Ownership, SingleOwner, InQueue, Holds
    <3>7. WritesAllowed'
      <4>1. ASSUME NEW v \in Workers
            PROVE  StageFits(worker'[v].stage, rows'[worker'[v].job].status, faults')
        <5>1. CASE worker[v].stage = "idle"
          BY <3>2, <5>1 DEF StageFits
        <5>2. CASE worker[v].stage # "idle"
          <6>1. worker[v].job \in JobIds /\ worker[v].job # j
            BY <3>4, <5>2 DEF TypeInv, BusyWorkers
          <6> QED BY <3>2, <6>1 DEF Ownership, WritesAllowed
        <5> QED BY <5>1, <5>2
      <4> QED BY <3>2, <3>5, <4>1 DEF WritesAllowed
    <3>8. PhaseDiscipline'
      BY <3>1, <3>2 DEF Ownership, PhaseDiscipline
    <3>9. RowsMatchPlaces'
      <4>1. \A k \in JobIds : k # j => handler'[k] = handler[k]
        BY <3>2 DEF TypeInv, TypeOK
      <4>2. handler'[j] = "put"
        BY <3>2 DEF TypeInv, TypeOK
      <4>3. \A v \in Workers : worker[v].stage # "idle" => worker[v].job \in JobIds
        BY DEF TypeInv, BusyWorkers
      <4> QED BY <3>2, <3>3, <3>4, <3>5, <4>1, <4>2, <4>3 DEF Ownership, RowsMatchPlaces
    <3> QED BY <3>6, <3>7, <3>8, <3>9 DEF Ownership
  <2> QED BY <2>1, <2>2
<1>5. CASE Put(j)
  <2>1. /\ handler[j] = "put" /\ phase = "serving" /\ rows[j].status = "queued"
        /\ queue' = Append(queue, j)
        /\ UNCHANGED <<phase, rows, worker, todo, flipping, faults>>
    BY <1>5, <1>p DEF Put, Ownership, RowsMatchPlaces
  <2>2. /\ handler'[j] \in {"flush", "await"}
        /\ \A k \in JobIds : k # j => handler'[k] = handler[k]
    BY <1>5 DEF Put, TypeInv, TypeOK
  <2>3. ~InQueue(j) /\ todo[j] = "no" /\ \A v \in Workers : worker[v].job # j
    BY <2>1 DEF Ownership, SingleOwner, Holds
  <2>4. QueueGrows(j)
    BY <2>1, AppendGrows DEF TypeInv, TypeOK
  <2>5. SingleOwner'
    BY <2>1, <2>2, <2>3, <2>4, GrowKeepsOwner
  <2>6. WritesAllowed'
    BY <2>1 DEF Ownership, WritesAllowed
  <2>7. PhaseDiscipline'
    BY <2>1, <2>2 DEF Ownership, PhaseDiscipline
  <2>8. RowsMatchPlaces'
    BY <2>1, <2>2, <2>4 DEF Ownership, RowsMatchPlaces, QueueGrows
  <2> QED BY <2>5, <2>6, <2>7, <2>8 DEF Ownership
<1> QED BY <1>1, <1>2, <1>3, <1>4, <1>5, <1>6, <1>7, <1>8, <1>9, <1>10 DEF HandlerStep

\* What a set_* call of a worker does to the status of its row: the target,
\* or the old status when it raises; an exception without a database fault
\* means that _assert_allowed refused the target.
LEMMA MoveFrame ==
    ASSUME TypeInv, NEW j \in JobIds, NEW target, NEW new \in Row, new.status = target
    PROVE  /\ Moves(j, target, new) =>
                 /\ \A k \in JobIds : k # j => rows'[k].status = rows[k].status
                 /\ rows'[j].status = target /\ faults' = faults
           /\ MoveRaises(j, target, new) =>
                 /\ \A k \in JobIds : k # j => rows'[k].status = rows[k].status
                 /\ rows'[j].status \in {rows[j].status, target}
                 /\ assert_allowed(rows[j].status, target) => faults' # 0
                 /\ faults' = 0 => faults = 0
BY DEF Moves, MoveRaises, DbFault, TypeInv, TypeOK

\* The steps of a worker preserve the ownership invariant.
LEMMA WorkerStepOwnership ==
    ASSUME TypeInv, Ownership, NEW w \in Workers, WorkerStep(w)
    PROVE  Ownership'
<1> DEFINE j == worker[w].job
<1> USE DEF handlerVars, workerVars, bootVars, bounds
<1>0. ASSUME worker[w].stage # "idle"
      PROVE  /\ j \in JobIds /\ rows[j] \in Row /\ rows[j].status # "none"
             /\ request[j].kind \in PipelineKinds
             /\ StageFits(worker[w].stage, rows[j].status, faults)
  <2>1. j \in JobIds /\ rows[j] \in Row /\ request[j].kind \in PipelineKinds
    BY <1>0, RequestsAssumption DEF TypeInv, TypeOK, BusyWorkers, RequestSpace
  <2>2. rows[j].status # "none" /\ StageFits(worker[w].stage, rows[j].status, faults)
    BY <1>0 DEF Ownership, RowsMatchPlaces, WritesAllowed
  <2> QED BY <2>1, <2>2
<1>e. ASSUME NEW ending \in Endings, EndsWith(w, ending),
             worker[w].stage \notin {"idle", "record", "unexpected", "settle", "dead"},
             UNCHANGED <<phase, rows, handler, queue, todo, flipping, faults>>
      PROVE  Ownership'
  <2>1. PICK new \in WorkerStates : /\ new.stage \in {"record", "unexpected", "settle"}
                                    /\ new.job = j
                                    /\ worker' = [worker EXCEPT ![w] = new]
    BY <1>e, EndFrame
  <2>2. rows[j].status \in {"queued", "running"}
    <3>1. worker[w].stage \in WorkerStages
      BY DEF TypeInv, TypeOK, WorkerStates
    <3> QED BY <1>0, <1>e, <3>1 DEF StageFits, WorkerStages
  <2>3. StageFits(new.stage, rows'[new.job].status, faults')
    BY <1>e, <2>1, <2>2 DEF StageFits
  <2> QED BY <1>e, <2>1, <2>2, <2>3, WorkerFrame
<1>a. ASSUME NEW stage \in WorkerStages, stage # "idle", worker' = At(w, stage),
             worker[w].stage # "idle",
             \A k \in JobIds : k # j => rows'[k].status = rows[k].status,
             rows'[j].status # "none",
             StageFits(stage, rows'[j].status, faults'),
             faults' = 0 => faults = 0,
             UNCHANGED <<phase, handler, queue, todo, flipping>>
      PROVE  Ownership'
  <2>1. PICK new \in WorkerStates : /\ new.stage = stage /\ new.job = j
                                    /\ worker' = [worker EXCEPT ![w] = new]
    BY <1>a, AtFrame
  <2> QED BY <1>a, <2>1, WorkerFrame
<1>o. ASSUME EndsWith(w, Ending("none", "other")) \/ EndsWith(w, Ending("none", "node")),
             worker[w].stage # "idle",
             \A k \in JobIds : k # j => rows'[k].status = rows[k].status,
             rows'[j].status # "none",
             faults' # 0,
             UNCHANGED <<phase, handler, queue, todo, flipping>>
      PROVE  Ownership'
  <2>1. PICK new \in WorkerStates : /\ new.stage \in {"unexpected", "settle"} /\ new.job = j
                                    /\ worker' = [worker EXCEPT ![w] = new]
    <3> DEFINE other == [stage |-> "unexpected", job |-> j, code |-> "none", exc |-> "other"]
               node == [stage |-> "settle", job |-> j, code |-> "none", exc |-> "node"]
    <3>1. other \in WorkerStates /\ node \in WorkerStates
      BY <1>0, <1>o DEF WorkerStates, WorkerStages, Outcomes, Exceptions
    <3>2. \/ worker' = [worker EXCEPT ![w] = other]
          \/ worker' = [worker EXCEPT ![w] = node]
      BY <1>o DEF EndsWith, Ending
    <3> QED BY <3>1, <3>2
  <2>2. StageFits(new.stage, rows'[new.job].status, faults')
    BY <1>o, <2>1 DEF StageFits
  <2> QED BY <1>o, <2>1, <2>2, WorkerFrame
<1>2. CASE Prepare(w)
  <2>1. CASE worker' = At(w, "submit")
    BY <1>0, <1>2, <1>a, <2>1 DEF Prepare, StageFits, WorkerStages
  <2>2. CASE \E ending \in PrepareFailures(request[j].kind) : EndsWith(w, ending)
    BY <1>0, <1>2, <1>e, <2>2, EndingsTyped DEF Prepare
  <2> QED BY <1>2, <2>1, <2>2 DEF Prepare
<1>3. CASE Submit(w)
  <2>1. CASE worker' = At(w, "set_running")
    BY <1>0, <1>3, <1>a, <2>1 DEF Submit, StageFits, WorkerStages
  <2>2. CASE \E ending \in SubmitFailures \cup SwapFailures : EndsWith(w, ending)
    BY <1>0, <1>3, <1>e, <2>2, EndingsTyped DEF Submit
  <2> QED BY <1>3, <2>1, <2>2 DEF Submit
<1>4. CASE Execute(w)
  <2>1. CASE worker' = At(w, "complete")
    BY <1>0, <1>4, <1>a, <2>1 DEF Execute, StageFits, WorkerStages
  <2>2. CASE \E ending \in ExecuteFailures(request[j].kind) : EndsWith(w, ending)
    BY <1>0, <1>4, <1>e, <2>2, EndingsTyped DEF Execute
  <2> QED BY <1>4, <2>1, <2>2 DEF Execute
<1>5. CASE SetRunning(w)
  <2> DEFINE new == set_running(rows[j])
  <2>1. worker[w].stage = "set_running"
    BY <1>5 DEF SetRunning
  <2>2. new \in Row /\ new.status = "running"
    BY <1>0, <2>1, RowOperations DEF set_running, Row
  <2>3. assert_allowed(rows[j].status, "running")
    BY <1>0, <2>1 DEF StageFits, assert_allowed, AllowedTransitions
  <2>4. UNCHANGED <<phase, handler, queue, todo, flipping>>
    BY <1>5 DEF SetRunning
  <2>5. CASE Moves(j, "running", new) /\ worker' = At(w, "execute")
    <3>1. /\ \A k \in JobIds : k # j => rows'[k].status = rows[k].status
          /\ rows'[j].status = "running" /\ faults' = faults
      BY <1>0, <2>1, <2>2, <2>5, MoveFrame
    <3>2. StageFits("execute", rows'[j].status, faults')
      BY <3>1 DEF StageFits
    <3> QED BY <1>a, <2>1, <2>4, <2>5, <3>1, <3>2 DEF WorkerStages
  <2>6. CASE MoveRaises(j, "running", new) /\ EndsWith(w, Ending("none", "node"))
    <3>1. /\ \A k \in JobIds : k # j => rows'[k].status = rows[k].status
          /\ rows'[j].status \in {rows[j].status, "running"} /\ faults' # 0
      BY <1>0, <2>1, <2>2, <2>3, <2>6, MoveFrame
    <3> QED BY <1>0, <1>o, <2>1, <2>4, <2>6, <3>1
  <2> QED BY <1>5, <2>5, <2>6 DEF SetRunning
<1>6. CASE Complete(w)
  <2> DEFINE new == set_completed(rows[j])
  <2>1. worker[w].stage = "complete"
    BY <1>6 DEF Complete
  <2>2. new \in Row /\ new.status = "completed"
    BY <1>0, <2>1, RowOperations DEF set_completed, Row
  <2>3. assert_allowed(rows[j].status, "completed")
    BY <1>0, <2>1 DEF StageFits, assert_allowed, AllowedTransitions
  <2>4. UNCHANGED <<phase, handler, queue, todo, flipping>>
    BY <1>6 DEF Complete
  <2> DEFINE next == [stage |-> "settle", job |-> j, code |-> "none", exc |-> "ok"]
  <2>5. CASE Moves(j, "completed", new) /\ worker' = [worker EXCEPT ![w] = next]
    <3>1. /\ \A k \in JobIds : k # j => rows'[k].status = rows[k].status
          /\ rows'[j].status = "completed" /\ faults' = faults
      BY <1>0, <2>1, <2>2, <2>5, MoveFrame
    <3>2. next \in WorkerStates /\ next.stage = "settle" /\ next.job = j
      BY <1>0, <2>1 DEF WorkerStates, WorkerStages, Outcomes
    <3>3. StageFits(next.stage, rows'[next.job].status, faults')
      BY <3>2 DEF StageFits
    <3> HIDE DEF next
    <3> QED BY <2>1, <2>4, <2>5, <3>1, <3>2, <3>3, WorkerFrame
  <2>6. CASE MoveRaises(j, "completed", new) /\ EndsWith(w, Ending("none", "other"))
    <3>1. /\ \A k \in JobIds : k # j => rows'[k].status = rows[k].status
          /\ rows'[j].status \in {rows[j].status, "completed"} /\ faults' # 0
      BY <1>0, <2>1, <2>2, <2>3, <2>6, MoveFrame
    <3> QED BY <1>0, <1>o, <2>1, <2>4, <2>6, <3>1
  <2> QED BY <1>6, <2>5, <2>6 DEF Complete
<1>7. CASE Record(w)
  <2> DEFINE new == set_failed(rows[j], worker[w].code)
  <2>1. worker[w].stage = "record"
    BY <1>7 DEF Record
  <2>2. new \in Row /\ new.status = "failed"
    <3>1. worker[w].code \in ErrorCodes
      BY <2>1 DEF TypeInv, BusyWorkers
    <3>2. new \in Row
      BY <1>0, <2>1, <3>1, RowOperations
    <3>3. new.status = "failed"
      BY <1>0, <2>1 DEF set_failed, Row
    <3> QED BY <3>2, <3>3
  <2>3. assert_allowed(rows[j].status, "failed")
    BY <1>0, <2>1 DEF StageFits, assert_allowed, AllowedTransitions
  <2>4. UNCHANGED <<phase, handler, queue, todo, flipping>>
    BY <1>7 DEF Record
  <2>5. CASE Moves(j, "failed", new) /\ worker' = At(w, "settle")
    <3>1. /\ \A k \in JobIds : k # j => rows'[k].status = rows[k].status
          /\ rows'[j].status = "failed" /\ faults' = faults
      BY <1>0, <2>1, <2>2, <2>5, MoveFrame
    <3>2. StageFits("settle", rows'[j].status, faults')
      BY DEF StageFits
    <3> QED BY <1>a, <2>1, <2>4, <2>5, <3>1, <3>2 DEF WorkerStages
  <2>6. CASE MoveRaises(j, "failed", new) /\ EndsWith(w, Ending("none", "other"))
    <3>1. /\ \A k \in JobIds : k # j => rows'[k].status = rows[k].status
          /\ rows'[j].status \in {rows[j].status, "failed"} /\ faults' # 0
      BY <1>0, <2>1, <2>2, <2>3, <2>6, MoveFrame
    <3> QED BY <1>0, <1>o, <2>1, <2>4, <2>6, <3>1
  <2> QED BY <1>7, <2>5, <2>6 DEF Record
<1>8. CASE Unexpected(w)
  <2> DEFINE new == set_failed(rows[j], "internal")
  <2>1. worker[w].stage = "unexpected"
    BY <1>8 DEF Unexpected
  <2>2. new \in Row /\ new.status = "failed"
    <3>1. new \in Row
      BY <1>0, <2>1, RowOperations DEF ErrorCodes
    <3>2. new.status = "failed"
      BY <1>0, <2>1 DEF set_failed, Row
    <3> QED BY <3>1, <3>2
  <2>3. UNCHANGED <<phase, handler, queue, todo, flipping>>
    BY <1>8 DEF Unexpected
  <2>4. /\ \A k \in JobIds : k # j => rows'[k].status = rows[k].status
        /\ rows'[j].status \in {rows[j].status, "failed"}
        /\ faults' = 0 => faults = 0
    BY <1>0, <1>8, <2>1, <2>2, MoveFrame DEF Unexpected
  <2>5. worker' = At(w, "settle") \/ worker' = At(w, "dead")
    BY <1>8 DEF Unexpected
  <2>6. /\ StageFits("settle", rows'[j].status, faults')
        /\ StageFits("dead", rows'[j].status, faults')
    BY DEF StageFits
  <2> QED BY <1>0, <1>a, <2>1, <2>3, <2>4, <2>5, <2>6 DEF WorkerStages
<1>9. CASE Settle(w)
  <2>1. /\ worker[w].stage = "settle" /\ worker' = [worker EXCEPT ![w] = Idle]
        /\ UNCHANGED <<phase, rows, handler, queue, todo, flipping, faults>>
    BY <1>9 DEF Settle
  <2>2. worker'[w] = Idle /\ \A v \in Workers : v # w => worker'[v] = worker[v]
    BY <2>1 DEF TypeInv, TypeOK
  <2>3. Idle.job = NoJob /\ Idle.stage = "idle"
    BY DEF Idle
  <2>4. SingleOwner'
    <3>1. \A k \in JobIds, v \in Workers : Holds(v, k)' => Holds(v, k)
      BY <2>2, <2>3, JobIdsAssumption DEF Holds
    <3>2. \A u, v \in Workers :
             worker'[u].job = worker'[v].job /\ worker'[u].job # NoJob => u = v
      BY <2>2, <2>3 DEF Ownership, SingleOwner
    <3> QED BY <2>1, <3>1, <3>2 DEF Ownership, SingleOwner, InQueue
  <2>5. WritesAllowed'
    BY <2>1, <2>2, <2>3 DEF Ownership, WritesAllowed, StageFits
  <2>6. PhaseDiscipline'
    BY <2>1, <2>2, <2>3 DEF Ownership, PhaseDiscipline
  <2>7. RowsMatchPlaces'
    BY <2>1, <2>2, <2>3 DEF Ownership, RowsMatchPlaces
  <2> QED BY <2>4, <2>5, <2>6, <2>7 DEF Ownership
<1>1. CASE Get(w)
  <2>0. PICK h \in JobIds : h = Head(queue)
    BY <1>1 DEF Get, TypeInv, TypeOK
  <2>1. /\ phase # "down" /\ worker[w].stage = "idle" /\ queue # <<>>
        /\ queue' = Tail(queue)
        /\ UNCHANGED <<phase, rows, handler, todo, flipping, faults>>
    BY <1>1 DEF Get
  <2>2. /\ worker'[w].stage = "prepare" /\ worker'[w].job = h
        /\ \A v \in Workers : v # w => worker'[v] = worker[v]
    BY <1>1, <2>0 DEF Get, TypeInv, TypeOK
  <2>3. /\ h = queue[1] /\ 1 \in 1..Len(queue) /\ h \in JobIds
        /\ \A i \in 1..Len(queue') : i + 1 \in 1..Len(queue) /\ queue'[i] = queue[i + 1]
                                                             /\ i + 1 # 1
    BY <2>0, <2>1 DEF TypeInv, TypeOK
  <2>4. InQueue(h) /\ rows[h].status = "queued"
    BY <2>3 DEF InQueue, Ownership, RowsMatchPlaces
  <2>5. ~InQueue(h)'
    BY <2>3 DEF InQueue, Ownership, SingleOwner
  <2>6. \A k \in JobIds : InQueue(k)' => InQueue(k)
    BY <2>3 DEF InQueue
  <2>7. /\ \A v \in Workers : worker[v].job # h
        /\ handler[h] # "put" /\ todo[h] = "no"
    BY <2>3, <2>4 DEF Ownership, SingleOwner, Holds
  <2>8. SingleOwner'
    <3>1. \A i, k \in 1..Len(queue') : queue'[i] = queue'[k] => i = k
      <4>1. SUFFICES ASSUME NEW i \in 1..Len(queue'), NEW k \in 1..Len(queue'),
                            queue'[i] = queue'[k]
                     PROVE  i = k
        OBVIOUS
      <4>2. i + 1 = k + 1
        BY <2>3, <4>1 DEF Ownership, SingleOwner
      <4> QED BY <4>2
    <3>2. \A u, v \in Workers :
             worker'[u].job = worker'[v].job /\ worker'[u].job # NoJob => u = v
      BY <2>2, <2>7 DEF Ownership, SingleOwner
    <3>3. \A k \in JobIds, v \in Workers : Holds(v, k)' => Holds(v, k) \/ k = h
      BY <2>2 DEF Holds
    <3> QED BY <2>1, <2>5, <2>6, <2>7, <3>1, <3>2, <3>3 DEF Ownership, SingleOwner
  <2>9. WritesAllowed'
    <3>1. ASSUME NEW v \in Workers
          PROVE  StageFits(worker'[v].stage, rows'[worker'[v].job].status, faults')
      <4>1. CASE v = w
        BY <2>1, <2>2, <2>4, <4>1 DEF StageFits
      <4>2. CASE v # w
        BY <2>1, <2>2, <4>2 DEF Ownership, WritesAllowed
      <4> QED BY <4>1, <4>2
    <3> QED BY <2>1, <3>1 DEF Ownership, WritesAllowed
  <2>10. PhaseDiscipline'
    BY <2>1 DEF Ownership, PhaseDiscipline
  <2>11. RowsMatchPlaces'
    <3>1. h # NoJob
      BY <2>3, JobIdsAssumption
    <3> QED BY <2>1, <2>2, <2>3, <2>4, <3>1 DEF Ownership, RowsMatchPlaces
  <2> QED BY <2>8, <2>9, <2>10, <2>11 DEF Ownership
<1> QED BY <1>1, <1>2, <1>3, <1>4, <1>5, <1>6, <1>7, <1>8, <1>9 DEF WorkerStep

\* Start-up, recovery and crashes preserve the ownership invariant.
LEMMA LifespanOwnership ==
    ASSUME TypeInv, Ownership, RecoverStep \/ Crash
    PROVE  Ownership'
<1> USE DEF handlerVars, workerVars, bootVars, bounds
<1>1. CASE Boot
  <2>1. /\ phase = "down" /\ phase' = "recovering"
        /\ UNCHANGED <<rows, handler, queue, worker, flipping, faults>>
    BY <1>1 DEF Boot
  <2>2. \A j \in JobIds : todo'[j] # "no" =>
           todo'[j] = rows[j].status /\ rows[j].status \in {"queued", "running"}
    BY <1>1 DEF Boot, IsActive
  <2>3. /\ queue = <<>> /\ flipping = NoJob
        /\ \A w \in Workers : worker[w].stage = "idle" /\ worker[w].job = NoJob
        /\ \A j \in JobIds : handler[j] \in {"idle", "done", "lost"}
    BY <2>1 DEF Ownership, PhaseDiscipline, RowsMatchPlaces
  <2>4. SingleOwner'
    <3>1. \A j \in JobIds : ~InQueue(j)' /\ \A w \in Workers : ~Holds(w, j)'
      BY <2>1, <2>3, JobIdsAssumption DEF InQueue, Holds
    <3> QED BY <2>1, <2>3, <3>1 DEF SingleOwner
  <2>5. WritesAllowed'
    BY <2>1, <2>2, <2>3 DEF WritesAllowed, StageFits
  <2>6. PhaseDiscipline'
    BY <2>1, <2>3 DEF PhaseDiscipline
  <2>7. RowsMatchPlaces'
    BY <2>1, <2>2, <2>3 DEF Ownership, RowsMatchPlaces
  <2> QED BY <2>4, <2>5, <2>6, <2>7 DEF Ownership
<1>2. CASE Serve
  <2>1. flipping = NoJob
    BY <1>2 DEF Serve, Ownership, PhaseDiscipline, TypeInv, TypeOK
  <2>2. SingleOwner' /\ WritesAllowed'
    BY <1>2 DEF Serve, Ownership, SingleOwner, InQueue, Holds, WritesAllowed
  <2>3. PhaseDiscipline'
    BY <1>2, <2>1 DEF Serve, PhaseDiscipline
  <2>4. RowsMatchPlaces'
    BY <1>2 DEF Serve, Ownership, RowsMatchPlaces
  <2> QED BY <2>2, <2>3, <2>4 DEF Ownership
<1>3. ASSUME NEW j \in JobIds, RecoverRunning(j)
      PROVE  Ownership'
  <2>1. /\ phase = "recovering" /\ todo[j] # "no" /\ flipping' = j
        /\ UNCHANGED <<phase, handler, queue, worker, todo, faults>>
    BY <1>3 DEF RecoverRunning, Oldest
  <2>2. /\ rows'[j].status = "failed"
        /\ \A k \in JobIds : k # j => rows'[k] = rows[k]
    <3>1. rows' = [rows EXCEPT ![j] = set_failed(rows[j], "service_restarted")]
      BY <1>3 DEF RecoverRunning
    <3>2. set_failed(rows[j], "service_restarted").status = "failed"
      BY DEF set_failed, TypeInv, TypeOK, Row
    <3> QED BY <3>1, <3>2 DEF TypeInv, TypeOK
  <2>3. ~InQueue(j) /\ handler[j] # "put" /\ \A w \in Workers : worker[w].job # j
    BY <2>1 DEF Ownership, SingleOwner, Holds
  <2>4. \A w \in Workers : worker[w].stage # "idle" =>
           worker[w].job \in JobIds /\ worker[w].job # j
    BY <2>3 DEF TypeInv, BusyWorkers
  <2>5. \A i \in 1..Len(queue) : queue[i] \in JobIds /\ queue[i] # j
    <3>1. \A i \in 1..Len(queue) : queue[i] \in JobIds
      BY DEF TypeInv, TypeOK
    <3> QED BY <2>3, <3>1 DEF InQueue
  <2>6. SingleOwner'
    BY <2>1 DEF Ownership, SingleOwner, InQueue, Holds
  <2>7. WritesAllowed'
    <3>1. ASSUME NEW w \in Workers
          PROVE  StageFits(worker'[w].stage, rows'[worker'[w].job].status, faults')
      <4>1. CASE worker[w].stage = "idle"
        BY <2>1, <4>1 DEF StageFits
      <4>2. CASE worker[w].stage # "idle"
        BY <2>1, <2>2, <2>4, <4>2 DEF Ownership, WritesAllowed
      <4> QED BY <4>1, <4>2
    <3>2. flipping = NoJob
      BY <1>3 DEF RecoverRunning
    <3>3. \A k \in JobIds : todo'[k] # "no" /\ flipping' # k => rows'[k].status = todo'[k]
      BY <2>1, <2>2, <3>2, JobIdsAssumption DEF Ownership, WritesAllowed
    <3> QED BY <3>1, <3>3 DEF WritesAllowed
  <2>8. PhaseDiscipline'
    BY <2>1 DEF Ownership, PhaseDiscipline
  <2>9. RowsMatchPlaces'
    <3>1. handler[j] \notin {"idle", "gate", "insert"}
      BY <2>1 DEF Ownership, RowsMatchPlaces
    <3> QED BY <2>1, <2>2, <2>3, <2>4, <2>5, <3>1 DEF Ownership, RowsMatchPlaces
  <2> QED BY <2>6, <2>7, <2>8, <2>9 DEF Ownership
<1>4. ASSUME NEW j \in JobIds, RecoverHandover(j)
      PROVE  Ownership'
  <2>1. /\ phase = "recovering" /\ flipping = j /\ flipping' = NoJob
        /\ UNCHANGED <<phase, handler, queue, worker, faults>>
    BY <1>4 DEF RecoverHandover
  <2>2. \A k \in JobIds : rows'[k].status = rows[k].status
    <3>1. rows' = [rows EXCEPT ![j] = mark_handover(rows[j])]
      BY <1>4 DEF RecoverHandover
    <3>2. mark_handover(rows[j]).status = rows[j].status
      BY MarksKeepStatus DEF TypeInv, TypeOK
    <3> QED BY <3>1, <3>2 DEF TypeInv, TypeOK
  <2>3. todo'[j] = "no" /\ \A k \in JobIds : k # j => todo'[k] = todo[k]
    BY <1>4 DEF RecoverHandover, TypeInv, TypeOK
  <2>4. SingleOwner'
    BY <2>1, <2>3 DEF Ownership, SingleOwner, InQueue, Holds
  <2>5. WritesAllowed'
    <3>1. ASSUME NEW w \in Workers
          PROVE  StageFits(worker'[w].stage, rows'[worker'[w].job].status, faults')
      <4>1. CASE worker[w].stage = "idle"
        BY <2>1, <4>1 DEF StageFits
      <4>2. CASE worker[w].stage # "idle"
        BY <2>1, <2>2, <4>2 DEF Ownership, WritesAllowed, TypeInv, BusyWorkers
      <4> QED BY <4>1, <4>2
    <3> QED BY <2>1, <2>2, <2>3, <3>1 DEF Ownership, WritesAllowed
  <2>6. PhaseDiscipline'
    BY <2>1 DEF Ownership, PhaseDiscipline
  <2>7. RowsMatchPlaces'
    <3>1. \A i \in 1..Len(queue) : queue[i] \in JobIds
      BY DEF TypeInv, TypeOK
    <3> QED BY <2>1, <2>2, <2>3, <3>1 DEF Ownership, RowsMatchPlaces, TypeInv, BusyWorkers
  <2> QED BY <2>4, <2>5, <2>6, <2>7 DEF Ownership
<1>5. ASSUME NEW j \in JobIds, RecoverQueued(j)
      PROVE  Ownership'
  <2>1. /\ phase = "recovering" /\ todo[j] = "queued" /\ flipping = NoJob
        /\ queue' = Append(queue, j)
        /\ UNCHANGED <<phase, rows, handler, worker, flipping, faults>>
    BY <1>5 DEF RecoverQueued
  <2>2. todo'[j] = "no" /\ \A k \in JobIds : k # j => todo'[k] = todo[k]
    BY <1>5 DEF RecoverQueued, TypeInv, TypeOK
  <2>3. ~InQueue(j) /\ handler[j] # "put" /\ \A w \in Workers : worker[w].job # j
    BY <2>1 DEF Ownership, SingleOwner, Holds
  <2>4. rows[j].status = "queued"
    BY <2>1, JobIdsAssumption DEF Ownership, WritesAllowed
  <2>5. QueueGrows(j)
    BY <2>1, AppendGrows DEF TypeInv, TypeOK
  <2>6. SingleOwner'
    BY <2>1, <2>2, <2>3, <2>5, GrowKeepsOwner
  <2>7. WritesAllowed'
    BY <2>1, <2>2 DEF Ownership, WritesAllowed
  <2>8. PhaseDiscipline'
    BY <2>1 DEF Ownership, PhaseDiscipline
  <2>9. RowsMatchPlaces'
    BY <2>1, <2>2, <2>4, <2>5 DEF Ownership, RowsMatchPlaces, QueueGrows
  <2> QED BY <2>6, <2>7, <2>8, <2>9 DEF Ownership
<1>6. CASE Crash
  <2>1. /\ queue' = <<>> /\ flipping' = NoJob /\ phase' = "down"
        /\ \A j \in JobIds : todo'[j] = "no"
        /\ \A w \in Workers : worker'[w] = Idle
        /\ UNCHANGED rows
    BY <1>6 DEF Crash
  <2>2. \A j \in JobIds : /\ handler'[j] \in {"idle", "done", "lost"}
                          /\ handler'[j] = "idle" => handler[j] = "idle"
    BY <1>6 DEF Crash
  <2>3. Idle.stage = "idle" /\ Idle.job = NoJob
    BY DEF Idle
  <2>4. SingleOwner'
    <3>1. \A j \in JobIds : ~InQueue(j)' /\ \A w \in Workers : ~Holds(w, j)'
      BY <2>1, <2>3, JobIdsAssumption DEF InQueue, Holds
    <3> QED BY <2>1, <2>2, <2>3, <3>1 DEF SingleOwner
  <2>5. WritesAllowed'
    BY <2>1, <2>3 DEF WritesAllowed, StageFits
  <2>6. PhaseDiscipline'
    BY <2>1, <2>2, <2>3 DEF PhaseDiscipline
  <2>7. RowsMatchPlaces'
    BY <2>1, <2>2, <2>3 DEF Ownership, RowsMatchPlaces
  <2> QED BY <2>4, <2>5, <2>6, <2>7 DEF Ownership
<1> QED BY <1>1, <1>2, <1>3, <1>4, <1>5, <1>6 DEF RecoverStep

\* Nobody owns anything in the initial state.
LEMMA InitOwnership == Init => Ownership
<1> SUFFICES ASSUME Init
             PROVE  Ownership
  OBVIOUS
<1>1. Idle.stage = "idle" /\ Idle.job = NoJob /\ NoRow.status = "none"
  BY DEF Idle, NoRow
<1>2. SingleOwner
  BY <1>1, JobIdsAssumption DEF Init, SingleOwner, InQueue, Holds
<1>3. WritesAllowed
  BY <1>1 DEF Init, WritesAllowed, StageFits
<1>4. PhaseDiscipline
  BY <1>1 DEF Init, PhaseDiscipline
<1>5. RowsMatchPlaces
  BY <1>1 DEF Init, RowsMatchPlaces
<1> QED BY <1>2, <1>3, <1>4, <1>5 DEF Ownership

\* Every step of the service preserves the ownership invariant.
LEMMA NextOwnership == TypeInv /\ Ownership /\ [Next]_vars => Ownership'
<1> SUFFICES ASSUME TypeInv, Ownership, [Next]_vars
             PROVE  Ownership'
  OBVIOUS
<1>1. CASE vars' = vars
  BY <1>1 DEF vars, handlerVars, workerVars, bootVars, bounds, Ownership, SingleOwner,
      InQueue, Holds, WritesAllowed, PhaseDiscipline, RowsMatchPlaces
<1>2. CASE Quiescent
  BY <1>1, <1>2 DEF Quiescent
<1> QED BY <1>1, <1>2, HandlerStepOwnership, WorkerStepOwnership, LifespanOwnership DEF Next

\* No job is ever in two places (queue, worker, enqueueing handler, boot
\* snapshot) at a time, for any number of jobs and workers, any capacity and
\* any number of faults and restarts.
THEOREM SingleOwnerHolds == Spec => []SingleOwner
<1>1. Ownership => SingleOwner
  BY DEF Ownership
<1> QED BY <1>1, InitType, NextType, InitOwnership, NextOwnership, PTL DEF Spec

\* No status write of a worker or of boot recovery is refused by
\* _assert_allowed while the database works.
THEOREM WritesAllowedHolds == Spec => []WritesAllowed
<1>1. Ownership => WritesAllowed
  BY DEF Ownership
<1> QED BY <1>1, InitType, NextType, InitOwnership, NextOwnership, PTL DEF Spec
=============================================================================
