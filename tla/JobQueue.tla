------------------------------ MODULE JobQueue ------------------------------
(***************************************************************************)
(* From a POST to a terminal row: the HTTP handlers (app/api/images.py,    *)
(* app/api/videos.py), the disconnect watcher, the bounded asyncio queue   *)
(* and its workers (app/queue/worker.py), boot recovery                    *)
(* (app/queue/recovery.py) and process restarts, over the jobs table.      *)
(*                                                                         *)
(* The service is one asyncio process.  Tasks interleave at awaits, so a   *)
(* handler, watcher, worker or recovery is a sequence of steps that each   *)
(* make at most one access to the jobs table, the queue, or a future.      *)
(* There is at most one POST per job id, so a handler is named by the id   *)
(* its row gets.                                                           *)
(***************************************************************************)
EXTENDS Pipelines, Sequences, FiniteSets

CONSTANTS JobIds,     \* the jobs clients may ask for
          Workers,    \* worker tasks (WORKER_CONCURRENCY of lifespan)
          Models,     \* names of registry models
          Requests,   \* the requests clients send
          MaxQueue,   \* MAX_QUEUE: admission gate and queue capacity
          MaxFaults,  \* bound: raising statements of the database
          MaxCrashes, \* bound: process deaths
          NoJob,      \* no job
          NoModel     \* None of _last_model_name

RequestSpace == [mode : Modes, webhook : BOOLEAN, kind : PipelineKinds,
                 model : Models, endpoint : {"json", "binary"}]

ASSUME JobIdsAssumption == IsFiniteSet(JobIds) /\ NoJob \notin JobIds
ASSUME ModelsAssumption == NoModel \notin Models
ASSUME RequestsAssumption ==
    /\ Requests \subseteq RequestSpace
    /\ \A r \in Requests : r.endpoint = "binary" => r.mode = "sync" /\ r.kind = "image"
ASSUME BoundsAssumption ==
    MaxQueue \in Nat \ {0} /\ MaxFaults \in Nat /\ MaxCrashes \in Nat

VARIABLES
    phase,      \* process: "down", "recovering" (lifespan start-up), "serving"
    rows,       \* the jobs table
    request,    \* what the client of each job asks for
    handler,    \* stage of the POST handler of each job
    reply,      \* the response the handler decided on
    client,     \* the client's end of the connection
    watcher,    \* the _watch_disconnect side-task
    outcome,    \* what _process_one gave the job's future, or dropped without one
    queue,      \* QueueWorker._queue
    worker,     \* stage and item of each QueueWorker.run task
    lastModel,  \* QueueWorker._last_model_name
    todo,       \* recover_jobs: snapshot status of rows not yet recovered
    flipping,   \* recover_jobs: row between set_failed and mark_handover
    faults,     \* database faults so far
    crashes     \* process deaths so far

handlerVars == <<handler, reply, client, watcher>>
workerVars == <<queue, worker, lastModel, outcome>>
bootVars == <<todo, flipping>>
bounds == <<faults, crashes>>
vars == <<phase, rows, request, handlerVars, workerVars, bootVars, bounds>>

-----------------------------------------------------------------------------
(* Shapes of the state.                                                    *)

HandlerStages == {"idle", "gate", "insert", "put", "await", "readback",
                  "flush", "background", "done", "lost"}

\* "accepted" 202, "result" 200, "busy" 429, "error" any 4xx/5xx answer about
\* a job that was accepted, "none" before the answer is known.
Replies == {"none", "accepted", "result", "busy", "error"}

\* "waiting" for the response, "served" once its bytes arrived, "gone" when
\* the connection dropped first.
ClientStates == {"waiting", "served", "gone"}

WorkerStages == {"idle", "prepare", "submit", "set_running", "execute", "complete",
                 "record", "unexpected", "settle", "dead"}

Outcomes == Exceptions \cup {"none", "ok"}

WorkerStates == [stage : WorkerStages, job : JobIds \cup {NoJob},
                 code : ErrorCodes \cup {"none"}, exc : Outcomes]

Idle == [stage |-> "idle", job |-> NoJob, code |-> "none", exc |-> "none"]

TypeOK ==
    /\ phase \in {"down", "recovering", "serving"}
    /\ rows \in [JobIds -> Row]
    /\ request \in [JobIds -> Requests]
    /\ handler \in [JobIds -> HandlerStages]
    /\ reply \in [JobIds -> Replies]
    /\ client \in [JobIds -> ClientStates]
    /\ watcher \in [JobIds -> {"off", "on"}]
    /\ outcome \in [JobIds -> Outcomes]
    /\ queue \in Seq(JobIds)
    /\ worker \in [Workers -> WorkerStates]
    /\ lastModel \in Models \cup {NoModel}
    /\ todo \in [JobIds -> {"no", "queued", "running"}]
    /\ flipping \in JobIds \cup {NoJob}
    /\ faults \in 0..MaxFaults
    /\ crashes \in 0..MaxCrashes

Init ==
    /\ phase = "down"
    /\ rows = [j \in JobIds |-> NoRow]
    /\ request \in [JobIds -> Requests]
    /\ handler = [j \in JobIds |-> "idle"]
    /\ reply = [j \in JobIds |-> "none"]
    /\ client = [j \in JobIds |-> "waiting"]
    /\ watcher = [j \in JobIds |-> "off"]
    /\ outcome = [j \in JobIds |-> "none"]
    /\ queue = <<>>
    /\ worker = [w \in Workers |-> Idle]
    /\ lastModel = NoModel
    /\ todo = [j \in JobIds |-> "no"]
    /\ flipping = NoJob
    /\ faults = 0
    /\ crashes = 0

-----------------------------------------------------------------------------
(* Database faults.  A statement may raise (full disk, locked or corrupt   *)
(* file): store.write rolls back, or the read-back that follows a commit   *)
(* raises, so the caller sees an exception with the write kept or not.     *)

DbFault ==
    /\ faults < MaxFaults
    /\ faults' = faults + 1

\* A set_* call moves row j by Move, or raises: because _assert_allowed
\* refuses the target, or because of a database fault.
Moves(j, target, new) ==
    /\ assert_allowed(rows[j].status, target)
    /\ rows' = [rows EXCEPT ![j] = new]
    /\ UNCHANGED faults

MoveRaises(j, target, new) ==
    IF assert_allowed(rows[j].status, target)
    THEN /\ DbFault
         /\ rows' \in {rows, [rows EXCEPT ![j] = new]}
    ELSE UNCHANGED <<rows, faults>>

\* A mark_* call (no transition check, no read-back), or its fault.
Marks(j, new) ==
    \/ rows' = [rows EXCEPT ![j] = new] /\ UNCHANGED faults
    \/ DbFault /\ UNCHANGED rows

-----------------------------------------------------------------------------
(* The POST handlers: _run_sync_job / _run_video_job and their callers.    *)

\* Rows are never deleted, so their number orders them by created_at.
Now == Cardinality({k \in JobIds : rows[k].status # "none"})

Active == {k \in JobIds : IsActive(rows[k])}

\* A valid request reaches the handler (an invalid one is answered 400
\* before anything is read or written).
Arrive(j) ==
    /\ phase = "serving"
    /\ handler[j] = "idle"
    /\ client[j] = "waiting"
    /\ handler' = [handler EXCEPT ![j] = "gate"]
    /\ UNCHANGED <<phase, rows, request, reply, client, watcher, workerVars, bootVars, bounds>>

\* count_active(store) >= max_queue -> 429.  (A count that raises is answered
\* 500 without a row, as an INSERT that raises is below.)
Gate(j) ==
    /\ handler[j] = "gate"
    /\ IF Cardinality(Active) >= MaxQueue
       THEN /\ handler' = [handler EXCEPT ![j] = "flush"]
            /\ reply' = [reply EXCEPT ![j] = "busy"]
       ELSE /\ handler' = [handler EXCEPT ![j] = "insert"]
            /\ UNCHANGED reply
    /\ UNCHANGED <<phase, rows, request, client, watcher, workerVars, bootVars, bounds>>

\* create_queued; a fault leaves no row and answers 500.
Insert(j) ==
    /\ handler[j] = "insert"
    /\ \/ /\ rows' = [rows EXCEPT ![j] = create_queued(request[j].mode,
                                                       request[j].webhook, Now)]
          /\ handler' = [handler EXCEPT ![j] = "put"]
          /\ UNCHANGED <<faults, reply>>
       \/ /\ DbFault
          /\ handler' = [handler EXCEPT ![j] = "flush"]
          /\ reply' = [reply EXCEPT ![j] = "error"]
          /\ UNCHANGED rows
    /\ UNCHANGED <<phase, request, client, watcher, workerVars, bootVars, crashes>>

\* Mutant: the early return after enqueue_detached is missing, so an async job
\* is enqueued again as a sync one.
PutTwice(j) ==
    /\ handler[j] = "put"
    /\ Len(queue) < MaxQueue
    /\ queue' = IF request[j].mode = "async" THEN Append(Append(queue, j), j)
                                             ELSE Append(queue, j)
    /\ handler' = [handler EXCEPT ![j] = "await"]
    /\ watcher' = [watcher EXCEPT ![j] = "on"]
    /\ UNCHANGED <<phase, rows, request, reply, client, worker, lastModel, outcome, bootVars, bounds>>

\* enqueue_detached for mode=async, then the 202; enqueue for mode=sync, then
\* the watcher task and the shielded await.  Both block while the queue is full.
Put(j) ==
    /\ handler[j] = "put"
    /\ Len(queue) < MaxQueue
    /\ queue' = Append(queue, j)
    /\ IF request[j].mode = "async"
       THEN /\ handler' = [handler EXCEPT ![j] = "flush"]
            /\ reply' = [reply EXCEPT ![j] = "accepted"]
            /\ UNCHANGED watcher
       ELSE /\ handler' = [handler EXCEPT ![j] = "await"]
            /\ watcher' = [watcher EXCEPT ![j] = "on"]
            /\ UNCHANGED reply
    /\ UNCHANGED <<phase, rows, request, client, worker, lastModel, outcome, bootVars, bounds>>

\* Mutant: the finally block does not cancel the watcher.
AnswerKeepsWatcher(j) ==
    /\ handler[j] = "await"
    /\ outcome[j] # "none"
    /\ handler' = [handler EXCEPT ![j] = "flush"]
    /\ reply' = [reply EXCEPT ![j] = IF outcome[j] = "ok" THEN "result" ELSE "error"]
    /\ UNCHANGED <<phase, rows, request, client, watcher, workerVars, bootVars, bounds>>

\* The future is done: the result or the mapped error; the watcher is
\* cancelled in either case.
Answer(j) ==
    /\ handler[j] = "await"
    /\ outcome[j] # "none"
    /\ watcher' = [watcher EXCEPT ![j] = "off"]
    /\ IF outcome[j] = "ok"
       THEN IF request[j].endpoint = "binary"
            THEN /\ handler' = [handler EXCEPT ![j] = "readback"]
                 /\ UNCHANGED reply
            ELSE /\ handler' = [handler EXCEPT ![j] = "flush"]
                 /\ reply' = [reply EXCEPT ![j] = "result"]
       ELSE /\ handler' = [handler EXCEPT ![j] = "flush"]
            /\ reply' = [reply EXCEPT ![j] = "error"]
    /\ UNCHANGED <<phase, rows, request, client, workerVars, bootVars, bounds>>

\* create_image_binary reads the row and the object back, then set_fetched;
\* a missing row state, a lost object or a fault is an error answer.
ReadBack(j) ==
    /\ handler[j] = "readback"
    /\ handler' = [handler EXCEPT ![j] = "flush"]
    /\ \/ /\ rows[j].status = "completed"
          /\ rows' = [rows EXCEPT ![j] = set_fetched(@)]
          /\ reply' = [reply EXCEPT ![j] = "result"]
       \/ /\ reply' = [reply EXCEPT ![j] = "error"]
          /\ UNCHANGED rows
    /\ UNCHANGED <<phase, request, client, watcher, workerVars, bootVars, bounds>>

\* The server writes the response; the bytes are lost if the client is gone
\* (the ASGI server drops them without an error).  Background tasks follow
\* a 200 or a 202 only.
Flush(j) ==
    /\ handler[j] = "flush"
    /\ handler' = [handler EXCEPT ![j] =
                      IF reply[j] \in {"accepted", "result"} THEN "background" ELSE "done"]
    /\ client' = [client EXCEPT ![j] = IF @ = "waiting" THEN "served" ELSE @]
    /\ UNCHANGED <<phase, rows, request, reply, watcher, workerVars, bootVars, bounds>>

\* mark_initial_response_delivered after a 202, mark_response_delivered
\* after a 200; a fault is logged by the server and the mark is lost.
Background(j) ==
    /\ handler[j] = "background"
    /\ handler' = [handler EXCEPT ![j] = "done"]
    /\ Marks(j, IF reply[j] = "accepted"
                THEN mark_initial_response_delivered(rows[j])
                ELSE mark_response_delivered(rows[j]))
    /\ UNCHANGED <<phase, request, reply, client, watcher, workerVars, bootVars, crashes>>

\* Mutant: the watcher opens the barrier and forgets the mode.
WatchKeepsMode(j) ==
    /\ watcher[j] = "on"
    /\ client[j] = "gone"
    /\ watcher' = [watcher EXCEPT ![j] = "off"]
    /\ Marks(j, mark_handover(rows[j]))
    /\ UNCHANGED <<phase, request, handler, reply, client, workerVars, bootVars, crashes>>

\* The poll of _watch_disconnect sees the drop and flips the row; the task
\* ends, also when the write raises.
Watch(j) ==
    /\ watcher[j] = "on"
    /\ client[j] = "gone"
    /\ watcher' = [watcher EXCEPT ![j] = "off"]
    /\ Marks(j, mark_async_with_handover(rows[j]))
    /\ UNCHANGED <<phase, request, handler, reply, client, workerVars, bootVars, crashes>>

\* The client gives up before it has the response.
ClientDrop(j) ==
    /\ client[j] = "waiting"
    /\ handler[j] \notin {"idle", "done", "lost"}
    /\ client' = [client EXCEPT ![j] = "gone"]
    /\ UNCHANGED <<phase, rows, request, handler, reply, watcher, workerVars, bootVars, bounds>>

HandlerStep(j) ==
    \/ Gate(j) \/ Insert(j) \/ Put(j) \/ Answer(j) \/ ReadBack(j) \/ Flush(j)
    \/ Background(j) \/ Watch(j)

-----------------------------------------------------------------------------
(* QueueWorker.run / _process_one / _run_pipeline.                         *)

At(w, stage) == [worker EXCEPT ![w].stage = stage]

\* An ending of a pipeline stage: set_failed first ("record") when it has a
\* code; otherwise straight to _process_one, whose handler for BackendError
\* and StorageError writes nothing and whose last handler does.
EndsWith(w, ending) ==
    worker' = [worker EXCEPT ![w] =
                  [stage |-> IF ending.code # "none" THEN "record"
                             ELSE IF ending.exc = "other" THEN "unexpected" ELSE "settle",
                   job |-> worker[w].job, code |-> ending.code, exc |-> ending.exc]]

Get(w) ==
    /\ phase # "down"
    /\ worker[w].stage = "idle"
    /\ queue # <<>>
    /\ worker' = [worker EXCEPT ![w] = [stage |-> "prepare", job |-> Head(queue),
                                        code |-> "none", exc |-> "none"]]
    /\ queue' = Tail(queue)
    /\ UNCHANGED <<phase, rows, request, handlerVars, lastModel, outcome, bootVars, bounds>>

Prepare(w) ==
    /\ worker[w].stage = "prepare"
    /\ \/ worker' = At(w, "submit")
       \/ \E ending \in PrepareFailures(request[worker[w].job].kind) : EndsWith(w, ending)
    /\ UNCHANGED <<phase, rows, request, handlerVars, queue, lastModel, outcome, bootVars, bounds>>

\* A swap is enforced when the last completed job used another model.
NeedsSwap(w) == lastModel \notin {NoModel, request[worker[w].job].model}

Submit(w) ==
    /\ worker[w].stage = "submit"
    /\ \/ worker' = At(w, "set_running")
       \/ \E ending \in SubmitFailures : EndsWith(w, ending)
       \/ NeedsSwap(w) /\ \E ending \in SwapFailures : EndsWith(w, ending)
    /\ UNCHANGED <<phase, rows, request, handlerVars, queue, lastModel, outcome, bootVars, bounds>>

\* Mutant: an error of set_running is swallowed and the pipeline goes on.
SetRunningSwallowsError(w) ==
    /\ worker[w].stage = "set_running"
    /\ LET j == worker[w].job IN
       \/ Moves(j, "running", set_running(rows[j]))
       \/ MoveRaises(j, "running", set_running(rows[j]))
    /\ worker' = At(w, "execute")
    /\ UNCHANGED <<phase, request, handlerVars, queue, lastModel, outcome, bootVars, crashes>>

\* On any error of set_running the prompt is cancelled and a ComfyNodeError
\* leaves the pipeline without set_failed.
SetRunning(w) ==
    /\ worker[w].stage = "set_running"
    /\ LET j == worker[w].job IN
       \/ /\ Moves(j, "running", set_running(rows[j]))
          /\ worker' = At(w, "execute")
       \/ /\ MoveRaises(j, "running", set_running(rows[j]))
          /\ EndsWith(w, Ending("none", "node"))
    /\ UNCHANGED <<phase, request, handlerVars, queue, lastModel, outcome, bootVars, crashes>>

Execute(w) ==
    /\ worker[w].stage = "execute"
    /\ \/ worker' = At(w, "complete")
       \/ \E ending \in ExecuteFailures(request[worker[w].job].kind) : EndsWith(w, ending)
    /\ UNCHANGED <<phase, rows, request, handlerVars, queue, lastModel, outcome, bootVars, bounds>>

\* set_completed, then _last_model_name, then the result for the future.
Complete(w) ==
    /\ worker[w].stage = "complete"
    /\ LET j == worker[w].job IN
       \/ /\ Moves(j, "completed", set_completed(rows[j]))
          /\ worker' = [worker EXCEPT ![w] = [stage |-> "settle", job |-> j,
                                              code |-> "none", exc |-> "ok"]]
          /\ lastModel' = request[j].model
       \/ /\ MoveRaises(j, "completed", set_completed(rows[j]))
          /\ EndsWith(w, Ending("none", "other"))
          /\ UNCHANGED lastModel
    /\ UNCHANGED <<phase, request, handlerVars, queue, outcome, bootVars, crashes>>

\* The per-step set_failed of a pipeline; its own exception replaces the
\* one being handled.
Record(w) ==
    /\ worker[w].stage = "record"
    /\ LET j == worker[w].job IN
       \/ /\ Moves(j, "failed", set_failed(rows[j], worker[w].code))
          /\ worker' = At(w, "settle")
       \/ /\ MoveRaises(j, "failed", set_failed(rows[j], worker[w].code))
          /\ EndsWith(w, Ending("none", "other"))
    /\ UNCHANGED <<phase, request, handlerVars, queue, lastModel, outcome, bootVars, crashes>>

\* The last handler of _process_one: set_failed("internal"); when that
\* raises too, the exception leaves run() and the task is over.
Unexpected(w) ==
    /\ worker[w].stage = "unexpected"
    /\ LET j == worker[w].job IN
       \/ /\ Moves(j, "failed", set_failed(rows[j], "internal"))
          /\ worker' = At(w, "settle")
       \/ /\ MoveRaises(j, "failed", set_failed(rows[j], "internal"))
          /\ worker' = At(w, "dead")
    /\ UNCHANGED <<phase, request, handlerVars, queue, lastModel, outcome, bootVars, crashes>>

\* Mutant: only the success path resolves the future.
SettleDropsException(w) ==
    /\ worker[w].stage = "settle"
    /\ outcome' = [outcome EXCEPT ![worker[w].job] =
                      IF worker[w].exc = "ok" THEN "ok" ELSE @]
    /\ worker' = [worker EXCEPT ![w] = Idle]
    /\ UNCHANGED <<phase, rows, request, handlerVars, queue, lastModel, bootVars, bounds>>

\* set_result / set_exception on the future, next item.
Settle(w) ==
    /\ worker[w].stage = "settle"
    /\ outcome' = [outcome EXCEPT ![worker[w].job] = worker[w].exc]
    /\ worker' = [worker EXCEPT ![w] = Idle]
    /\ UNCHANGED <<phase, rows, request, handlerVars, queue, lastModel, bootVars, bounds>>

WorkerStep(w) ==
    \/ Get(w) \/ Prepare(w) \/ Submit(w) \/ SetRunning(w) \/ Execute(w)
    \/ Complete(w) \/ Record(w) \/ Unexpected(w) \/ Settle(w)

-----------------------------------------------------------------------------
(* lifespan: worker tasks start, then recover_jobs runs, then requests are *)
(* accepted.                                                               *)

\* Mutant: the scan has no WHERE clause.
BootScansAll ==
    /\ phase = "down"
    /\ phase' = "recovering"
    /\ todo' = [j \in JobIds |-> rows[j].status]
    /\ UNCHANGED <<rows, request, handlerVars, workerVars, flipping, bounds>>

\* Mutant: the scan only looks for 'running'.
BootScansRunning ==
    /\ phase = "down"
    /\ phase' = "recovering"
    /\ todo' = [j \in JobIds |-> IF rows[j].status = "running" THEN "running" ELSE "no"]
    /\ UNCHANGED <<rows, request, handlerVars, workerVars, flipping, bounds>>

\* scan_non_terminal: the snapshot the loop of recover_jobs works through.
Boot ==
    /\ phase = "down"
    /\ phase' = "recovering"
    /\ todo' = [j \in JobIds |-> IF IsActive(rows[j]) THEN rows[j].status ELSE "no"]
    /\ UNCHANGED <<rows, request, handlerVars, workerVars, flipping, bounds>>

\* The row the loop is at: ORDER BY created_at ASC.
Oldest(j) ==
    /\ todo[j] # "no"
    /\ \A k \in JobIds : todo[k] # "no" => rows[j].created_at <= rows[k].created_at

RecoverRunning(j) ==
    /\ phase = "recovering" /\ flipping = NoJob
    /\ Oldest(j) /\ todo[j] = "running"
    /\ assert_allowed(rows[j].status, "failed")
    /\ rows' = [rows EXCEPT ![j] = set_failed(@, "service_restarted")]
    /\ flipping' = j
    /\ UNCHANGED <<phase, request, handlerVars, workerVars, todo, bounds>>

RecoverHandover(j) ==
    /\ phase = "recovering" /\ flipping = j
    /\ rows' = [rows EXCEPT ![j] = mark_handover(@)]
    /\ flipping' = NoJob
    /\ todo' = [todo EXCEPT ![j] = "no"]
    /\ UNCHANGED <<phase, request, handlerVars, workerVars, bounds>>

\* Mutant: put_nowait, with QueueFull ignored.
RecoverQueuedDrops(j) ==
    /\ phase = "recovering" /\ flipping = NoJob
    /\ Oldest(j) /\ todo[j] = "queued"
    /\ queue' = IF Len(queue) < MaxQueue THEN Append(queue, j) ELSE queue
    /\ todo' = [todo EXCEPT ![j] = "no"]
    /\ UNCHANGED <<phase, rows, request, handlerVars, worker, lastModel, outcome, flipping, bounds>>

\* enqueue_recovery blocks while the queue is full.
RecoverQueued(j) ==
    /\ phase = "recovering" /\ flipping = NoJob
    /\ Oldest(j) /\ todo[j] = "queued"
    /\ Len(queue) < MaxQueue
    /\ queue' = Append(queue, j)
    /\ todo' = [todo EXCEPT ![j] = "no"]
    /\ UNCHANGED <<phase, rows, request, handlerVars, worker, lastModel, outcome, flipping, bounds>>

Serve ==
    /\ phase = "recovering"
    /\ \A j \in JobIds : todo[j] = "no"
    /\ phase' = "serving"
    /\ UNCHANGED <<rows, request, handlerVars, workerVars, bootVars, bounds>>

\* The process dies, is killed, fails to start, or is shut down: lifespan
\* cancels the tasks and no except clause of the pipelines catches a
\* CancelledError, so the rows stay as they are.  Clients see a reset.
Crash ==
    /\ phase # "down"
    /\ crashes < MaxCrashes
    /\ crashes' = crashes + 1
    /\ phase' = "down"
    /\ handler' = [j \in JobIds |-> IF handler[j] \in {"idle", "done"} THEN handler[j] ELSE "lost"]
    /\ client' = [j \in JobIds |-> IF handler[j] # "idle" /\ client[j] = "waiting"
                                   THEN "gone" ELSE client[j]]
    /\ watcher' = [j \in JobIds |-> "off"]
    /\ outcome' = [j \in JobIds |-> "none"]
    /\ queue' = <<>>
    /\ worker' = [w \in Workers |-> Idle]
    /\ lastModel' = NoModel
    /\ todo' = [j \in JobIds |-> "no"]
    /\ flipping' = NoJob
    /\ UNCHANGED <<rows, request, reply, faults>>

RecoverStep ==
    \/ Boot \/ Serve
    \/ \E j \in JobIds : RecoverRunning(j) \/ RecoverHandover(j) \/ RecoverQueued(j)

\* All requests answered and all work done: the process waits for a request.
Quiescent ==
    /\ phase = "serving"
    /\ \A j \in JobIds : handler[j] \in {"done", "lost"}
    /\ queue = <<>>
    /\ \A w \in Workers : worker[w].stage = "idle"
    /\ UNCHANGED vars

Next ==
    \/ \E j \in JobIds : Arrive(j) \/ ClientDrop(j) \/ HandlerStep(j)
    \/ \E w \in Workers : WorkerStep(w)
    \/ RecoverStep
    \/ Crash
    \/ Quiescent

Spec == Init /\ [][Next]_vars

\* The event loop runs every ready task, each backend call has a timeout, and
\* the container is restarted (restart: unless-stopped).  Clients, faults and
\* crashes are not fair.
Fairness ==
    /\ \A j \in JobIds : WF_vars(HandlerStep(j))
    /\ \A w \in Workers : WF_vars(WorkerStep(w))
    /\ WF_vars(RecoverStep)

FairSpec == Spec /\ Fairness

-----------------------------------------------------------------------------
(* Properties.                                                             *)

InQueue(j) == \E i \in 1..Len(queue) : queue[i] = j
Holds(w, j) == worker[w].job = j
Owned(j) == \/ InQueue(j)
            \/ \E w \in Workers : Holds(w, j)
            \/ handler[j] = "put"
            \/ todo[j] # "no"

\* A job is in at most one place: once in the queue, or with one worker, or
\* with the handler that is about to enqueue it, or with boot recovery.  Two
\* owners would run a prompt twice and race on the row (worker.py enqueue*,
\* recovery.py recover_jobs, which re-enqueues while workers already consume).
SingleOwner ==
    /\ \A i, k \in 1..Len(queue) : queue[i] = queue[k] => i = k
    /\ \A w, v \in Workers : worker[w].job = worker[v].job /\ worker[w].job # NoJob => w = v
    /\ \A j \in JobIds : InQueue(j) => \A w \in Workers : ~Holds(w, j)
    /\ \A j \in JobIds : handler[j] = "put" \/ todo[j] # "no" =>
          ~InQueue(j) /\ \A w \in Workers : ~Holds(w, j)
    /\ \A j \in JobIds : handler[j] = "put" => todo[j] = "no"

\* The row status the next write of a worker at a stage needs.  After a
\* database fault the last-resort set_failed may meet a row that the failing
\* call had committed.
StageFits(stage, status, faultCount) ==
    /\ stage \in {"prepare", "submit", "set_running"} => status = "queued"
    /\ stage \in {"execute", "complete"} => status = "running"
    /\ stage = "record" => status \in {"queued", "running"}
    /\ stage = "unexpected" /\ faultCount = 0 => status \in {"queued", "running"}

\* No set_* call of a worker or of boot recovery is refused by _assert_allowed
\* as long as the database itself works: whoever owns a job finds its row in
\* the status its stage needs, across queueing, recovery and restarts.
WritesAllowed ==
    /\ \A w \in Workers : StageFits(worker[w].stage, rows[worker[w].job].status, faults)
    /\ \A j \in JobIds : todo[j] # "no" /\ flipping # j => rows[j].status = todo[j]

\* While the process is up, every queued or running row is owned, or its
\* pipeline has already ended in a backend error: no accepted job is silently
\* dropped by the hand-offs between handler, queue, worker and recovery.
NoJobForgotten ==
    \A j \in JobIds :
        phase # "down" /\ IsActive(rows[j]) /\ ~Owned(j)
            => outcome[j] \in {"node", "unreachable"}

\* What the service tells clients and the dispatcher agrees with the table: a
\* 200 is sent only for a completed row, response_delivered is set only on a
\* completed row whose sync client was never declared gone by the watcher
\* (images.py _run_sync_job, _watch_disconnect, mark_response_delivered).
RepliesMatchRows ==
    \A j \in JobIds :
        /\ reply[j] = "result" => rows[j].status = "completed"
        /\ rows[j].response_delivered =>
              /\ rows[j].status = "completed"
              /\ rows[j].mode = "sync"
              /\ ~rows[j].initial_response_delivered

\* A webhook barrier opens before the row is terminal only for a job whose
\* client was told 202 or was seen to leave (arch 4.8: the dispatcher never
\* reads a sync job whose handler has not decided).
BarrierRespectsHandler ==
    \A j \in JobIds :
        rows[j].webhook_handover /\ rows[j].mode = "sync" =>
            /\ IsTerminal(rows[j])
            /\ handler[j] \in {"done", "lost"}

\* Once a job is given a row, it is executed or its failure is announced: the
\* row becomes terminal, or its pipeline ends in an error that the future and
\* the metrics see.
EveryJobSettles ==
    \A j \in JobIds : IsActive(rows[j]) ~> (IsTerminal(rows[j]) \/ outcome[j] # "none")

\* Every request that reached the handler is answered, or its process died:
\* no handler waits for ever on its future, on a full queue, or on the gate.
EveryRequestAnswered ==
    \A j \in JobIds : handler[j] = "gate" ~> handler[j] \in {"done", "lost"}

\* The state of the service that JobContract speaks about.
Contract ==
    INSTANCE JobContract WITH
        life <- [j \in JobIds |-> rows[j].status],
        answered <- reply,
        handed <- [j \in JobIds |-> rows[j].webhook_handover],
        acknowledged <- [j \in JobIds |-> rows[j].response_delivered]

\* The handlers, the queue, the workers, the watcher, recovery and restarts
\* together keep the contract of JobContract: one life per row, one answer per
\* request, a result only after success, an acknowledgement only together with
\* the hand-over and never after it.
KeepsContract == Contract!Spec

-----------------------------------------------------------------------------
(* What comments and documents say and the code does not do.               *)

\* worker.py:192, on the handler for BackendError and StorageError: "DB state
\* already recorded by _run_pipeline's per-step set_failed."
FailureRecorded ==
    \A w \in Workers :
        worker[w].stage = "settle" /\ worker[w].exc \in Exceptions
            => rows[worker[w].job].status = "failed"

\* Architecture, section 4.8: the sync handler's finally block always opens the
\* webhook barrier, with response_delivered true or false.
HandlerDecides ==
    \A j \in JobIds :
        handler[j] = "done" /\ rows[j].status # "none" /\ rows[j].mode = "sync"
            => rows[j].webhook_handover
=============================================================================
