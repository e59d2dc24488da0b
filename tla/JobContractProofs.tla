------------------------- MODULE JobContractProofs -------------------------
(***************************************************************************)
(* What JobQueue tells clients and the dispatcher, and that it implements  *)
(* JobContract, for every set of jobs, workers, models and requests and    *)
(* every value of MaxQueue and of the bounds.                              *)
(*                                                                         *)
(* Types and ownership come from JobQueueProofs.  On top of them, the      *)
(* answer of a handler, its watcher, the marks on its row and the future   *)
(* of its job tell the same story at every stage of the handler.           *)
(***************************************************************************)
EXTENDS JobQueueProofs

-----------------------------------------------------------------------------
(* The inductive invariant.                                                *)

Undecided == {"idle", "gate", "insert", "put", "await", "readback"}
Over == {"done", "lost"}
Silent == {"node", "unreachable"}

\* The answer of a handler: undecided until the response is sent, a result
\* only for a completed row, as is a future resolved with "ok".
Conversation(j) ==
    /\ handler[j] \in Undecided => reply[j] = "none"
    /\ handler[j] = "background" => reply[j] \in {"accepted", "result"}
    /\ watcher[j] = "on" => handler[j] = "await"
    /\ handler[j] \in {"await", "readback"} => rows[j].status # "none"
    /\ reply[j] = "accepted" => rows[j].status # "none"
    /\ reply[j] = "result" => rows[j].status = "completed"
    /\ outcome[j] = "ok" => rows[j].status = "completed"

\* The marks of a row: none without a row, the barrier of a sync row opens when
\* its handler is over, and what a sync row acknowledges was answered.
Marked(j) ==
    /\ rows[j].status = "none" => ~rows[j].webhook_handover /\ ~rows[j].response_delivered
    /\ rows[j].initial_response_delivered => rows[j].mode = "async"
    /\ rows[j].response_delivered =>
          rows[j].mode = "sync" /\ reply[j] = "result" /\ handler[j] \in Over
    /\ rows[j].webhook_handover /\ rows[j].mode = "sync" =>
          IsTerminal(rows[j]) /\ handler[j] \in Over
    /\ flipping = j => rows[j].status = "failed"

JobInv(j) == Conversation(j) /\ Marked(j)

\* What a worker is about to tell the future: "ok" only for a completed row, and
\* an error whose row is still active is one that no set_failed goes with.
Result(w) ==
    /\ worker[w].exc = "ok" => worker[w].stage = "settle"
    /\ worker[w].stage = "settle" =>
          /\ worker[w].exc = "ok" => rows[worker[w].job].status = "completed"
          /\ IsActive(rows[worker[w].job]) => worker[w].exc \in Silent

Story ==
    /\ \A j \in JobIds : JobInv(j)
    /\ \A w \in Workers : Result(w)
    /\ NoJobForgotten

IInv == TypeInv /\ Ownership /\ Story

-----------------------------------------------------------------------------
(* What a write does to a row.                                             *)

\* How a status moves, apart from the insertion of the row.
Progress == {<<"queued", "running">>, <<"running", "completed">>,
             <<"queued", "failed">>, <<"running", "failed">>}
Advances(s, t) == s = t \/ <<s, t>> \in Progress

SameMarks(r, s) ==
    /\ r.mode = s.mode
    /\ r.webhook_handover = s.webhook_handover
    /\ r.initial_response_delivered = s.initial_response_delivered
    /\ r.response_delivered = s.response_delivered

\* The set_* calls change the status and leave the marks alone.
LEMMA SetsKeepMarks ==
    ASSUME NEW r \in Row
    PROVE  /\ SameMarks(set_running(r), r) /\ set_running(r).status = "running"
           /\ SameMarks(set_completed(r), r) /\ set_completed(r).status = "completed"
           /\ \A c \in ErrorCodes : SameMarks(set_failed(r, c), r)
                                    /\ set_failed(r, c).status = "failed"
           /\ SameMarks(set_fetched(r), r) /\ set_fetched(r).status = r.status
BY DEF Row, SameMarks, set_running, set_completed, set_failed, set_fetched

\* A set_* call that succeeds or raises moves the row forward or leaves it.
LEMMA WriteEffect ==
    ASSUME TypeInv, NEW j \in JobIds, NEW target \in {"running", "completed", "failed"},
           NEW new \in Row, new.status = target, SameMarks(new, rows[j]),
           Moves(j, target, new) \/ MoveRaises(j, target, new)
    PROVE  /\ \A k \in JobIds : k # j => rows'[k] = rows[k]
           /\ SameMarks(rows'[j], rows[j])
           /\ Advances(rows[j].status, rows'[j].status)
           /\ Moves(j, target, new) => rows'[j].status = target
<1>1. assert_allowed(rows[j].status, target) => <<rows[j].status, target>> \in Progress
  BY DEF assert_allowed, AllowedTransitions, Progress
<1>2. SameMarks(rows[j], rows[j])
  BY DEF SameMarks
<1>3. CASE assert_allowed(rows[j].status, target) /\ rows' = [rows EXCEPT ![j] = new]
  <2>1. rows'[j] = new /\ \A k \in JobIds : k # j => rows'[k] = rows[k]
    BY <1>3 DEF TypeInv, TypeOK
  <2> QED BY <1>1, <1>3, <2>1 DEF Advances
<1>4. CASE rows' = rows /\ ~Moves(j, target, new)
  BY <1>2, <1>4 DEF Advances
<1>5. CASE rows' = rows /\ Moves(j, target, new)
  <2>1. rows[j] = new
    BY <1>5 DEF Moves, TypeInv, TypeOK
  <2> QED BY <1>2, <1>5, <2>1 DEF Advances
<1> QED BY <1>3, <1>4, <1>5 DEF Moves, MoveRaises

\* What a step of a worker does to the tables of the handlers and to the rows.
WorkerWrites(w) ==
    /\ UNCHANGED <<phase, request, handler, reply, client, watcher, todo, flipping>>
    /\ \A k \in JobIds : /\ SameMarks(rows'[k], rows[k])
                         /\ Advances(rows[k].status, rows'[k].status)
    /\ \A k \in JobIds : k # worker[w].job => rows'[k] = rows[k]

LEMMA WorkerStepWrites ==
    ASSUME TypeInv, NEW w \in Workers, WorkerStep(w)
    PROVE  WorkerWrites(w)
<1> DEFINE j == worker[w].job
<1> USE DEF handlerVars, workerVars, bootVars, bounds
<1>0. worker[w].stage # "idle" => j \in JobIds /\ rows[j] \in Row
  BY DEF TypeInv, TypeOK, BusyWorkers
<1>1. CASE /\ UNCHANGED <<phase, request, handler, reply, client, watcher, todo, flipping>>
           /\ UNCHANGED rows
  BY <1>1 DEF WorkerWrites, SameMarks, Advances
<1>2. ASSUME NEW target \in {"running", "completed", "failed"}, NEW new \in Row,
             new.status = target, SameMarks(new, rows[j]), j \in JobIds,
             Moves(j, target, new) \/ MoveRaises(j, target, new),
             UNCHANGED <<phase, request, handler, reply, client, watcher, todo, flipping>>
      PROVE  WorkerWrites(w)
  <2>1. /\ \A k \in JobIds : k # j => rows'[k] = rows[k]
        /\ SameMarks(rows'[j], rows[j]) /\ Advances(rows[j].status, rows'[j].status)
    BY <1>2, WriteEffect
  <2> QED BY <1>2, <2>1 DEF WorkerWrites, SameMarks, Advances
<1>3. CASE SetRunning(w)
  <2>1. j \in JobIds /\ rows[j] \in Row
    BY <1>0, <1>3 DEF SetRunning
  <2> DEFINE new == set_running(rows[j])
  <2>2. new \in Row /\ new.status = "running" /\ SameMarks(new, rows[j])
    BY <2>1, RowOperations, SetsKeepMarks
  <2>3. /\ Moves(j, "running", new) \/ MoveRaises(j, "running", new)
        /\ UNCHANGED <<phase, request, handler, reply, client, watcher, todo, flipping>>
    BY <1>3 DEF SetRunning
  <2> HIDE DEF new
  <2> QED BY <1>2, <2>1, <2>2, <2>3
<1>4. CASE Complete(w)
  <2>1. j \in JobIds /\ rows[j] \in Row
    BY <1>0, <1>4 DEF Complete
  <2> DEFINE new == set_completed(rows[j])
  <2>2. new \in Row /\ new.status = "completed" /\ SameMarks(new, rows[j])
    BY <2>1, RowOperations, SetsKeepMarks
  <2>3. /\ Moves(j, "completed", new) \/ MoveRaises(j, "completed", new)
        /\ UNCHANGED <<phase, request, handler, reply, client, watcher, todo, flipping>>
    BY <1>4 DEF Complete
  <2> HIDE DEF new
  <2> QED BY <1>2, <2>1, <2>2, <2>3
<1>5. CASE Record(w)
  <2>1. j \in JobIds /\ rows[j] \in Row /\ worker[w].code \in ErrorCodes
    BY <1>0, <1>5 DEF Record, TypeInv, BusyWorkers
  <2> DEFINE new == set_failed(rows[j], worker[w].code)
  <2>2. new \in Row /\ new.status = "failed" /\ SameMarks(new, rows[j])
    BY <2>1, RowOperations, SetsKeepMarks
  <2>3. /\ Moves(j, "failed", new) \/ MoveRaises(j, "failed", new)
        /\ UNCHANGED <<phase, request, handler, reply, client, watcher, todo, flipping>>
    BY <1>5 DEF Record
  <2> HIDE DEF new
  <2> QED BY <1>2, <2>1, <2>2, <2>3
<1>6. CASE Unexpected(w)
  <2>1. j \in JobIds /\ rows[j] \in Row /\ "internal" \in ErrorCodes
    BY <1>0, <1>6 DEF Unexpected, ErrorCodes
  <2> DEFINE new == set_failed(rows[j], "internal")
  <2>2. new \in Row /\ new.status = "failed" /\ SameMarks(new, rows[j])
    BY <2>1, RowOperations, SetsKeepMarks
  <2>3. /\ Moves(j, "failed", new) \/ MoveRaises(j, "failed", new)
        /\ UNCHANGED <<phase, request, handler, reply, client, watcher, todo, flipping>>
    BY <1>6 DEF Unexpected
  <2> HIDE DEF new
  <2> QED BY <1>2, <2>1, <2>2, <2>3
<1>7. CASE Get(w) \/ Prepare(w) \/ Submit(w) \/ Execute(w) \/ Settle(w)
  BY <1>1, <1>7 DEF Get, Prepare, Submit, Execute, Settle
<1> QED BY <1>3, <1>4, <1>5, <1>6, <1>7 DEF WorkerStep

-----------------------------------------------------------------------------
(* Frames.                                                                 *)

\* A job whose handler does not move and whose row at most advances.
LEMMA JobFrame ==
    ASSUME NEW j \in JobIds, JobInv(j),
           handler'[j] = handler[j], reply'[j] = reply[j],
           watcher'[j] = watcher[j] \/ watcher'[j] = "off",
           flipping' = j => flipping = j,
           SameMarks(rows'[j], rows[j]), Advances(rows[j].status, rows'[j].status),
           outcome'[j] = "ok" => outcome[j] = "ok" \/ rows'[j].status = "completed"
    PROVE  JobInv(j)'
<1>1. Conversation(j)'
  BY DEF JobInv, Conversation, Advances, Progress
<1>2. Marked(j)'
  BY DEF JobInv, Marked, SameMarks, Advances, Progress, IsTerminal, Terminal
<1> QED BY <1>1, <1>2 DEF JobInv

\* Workers that do not move, while rows are inserted or advance.
LEMMA ResultFrame ==
    ASSUME TypeInv, Ownership, \A w \in Workers : Result(w), NEW w \in Workers,
           worker'[w] = worker[w],
           \A k \in JobIds : \/ Advances(rows[k].status, rows'[k].status)
                             \/ rows[k].status = "none"
    PROVE  Result(w)'
<1>1. CASE worker[w].stage # "settle"
  BY <1>1 DEF Result
<1>2. CASE worker[w].stage = "settle"
  <2>1. worker[w].job \in JobIds /\ rows[worker[w].job].status # "none"
    BY <1>2 DEF TypeInv, BusyWorkers, Ownership, RowsMatchPlaces
  <2>2. Advances(rows[worker[w].job].status, rows'[worker[w].job].status)
    BY <2>1
  <2> QED BY <1>2, <2>1, <2>2 DEF Result, Advances, Progress, IsActive
<1> QED BY <1>1, <1>2

-----------------------------------------------------------------------------
(* The answer and the marks of every job, step by step.                    *)

\* A step of a handler touches one job, and moves no status but by inserting.
LEMMA HandlerStepTouches ==
    ASSUME TypeInv, Ownership, NEW j \in JobIds,
           Arrive(j) \/ ClientDrop(j) \/ HandlerStep(j)
    PROVE  /\ UNCHANGED <<phase, worker, outcome, todo, flipping>>
           /\ \A k \in JobIds : k # j =>
                 /\ rows'[k] = rows[k] /\ handler'[k] = handler[k]
                 /\ reply'[k] = reply[k] /\ watcher'[k] = watcher[k]
           /\ \/ rows'[j].status = rows[j].status
              \/ rows[j].status = "none" /\ handler'[j] = "put"
<1> USE DEF handlerVars, workerVars, bootVars, bounds
<1>0. rows[j] \in Row
  BY DEF TypeInv, TypeOK
<1>1. CASE Arrive(j) \/ ClientDrop(j) \/ Gate(j) \/ Put(j) \/ Answer(j) \/ Flush(j)
  BY <1>1 DEF Arrive, ClientDrop, Gate, Put, Answer, Flush, TypeInv, TypeOK
<1>2. CASE Insert(j)
  <2>1. rows[j].status = "none"
    BY <1>2 DEF Insert, Ownership, RowsMatchPlaces
  <2> QED BY <1>2, <2>1 DEF Insert, TypeInv, TypeOK
<1>3. CASE ReadBack(j)
  BY <1>0, <1>3, MarksKeepStatus DEF ReadBack, TypeInv, TypeOK
<1>4. CASE Background(j)
  BY <1>0, <1>4, MarksKeepStatus DEF Background, Marks, TypeInv, TypeOK
<1>5. CASE Watch(j)
  BY <1>0, <1>5, MarksKeepStatus DEF Watch, Marks, TypeInv, TypeOK
<1> QED BY <1>1, <1>2, <1>3, <1>4, <1>5 DEF HandlerStep

\* A step of a handler keeps the story of its own job.
LEMMA HandlerStepOwnJob ==
    ASSUME TypeInv, Ownership, NEW j \in JobIds, JobInv(j),
           Arrive(j) \/ ClientDrop(j) \/ HandlerStep(j)
    PROVE  JobInv(j)'
<1> USE DEF handlerVars, workerVars, bootVars, bounds
<1>0. /\ rows[j] \in Row /\ request[j] \in RequestSpace
      /\ flipping # j \/ rows[j].status = "failed"
  BY RequestsAssumption DEF TypeInv, TypeOK, JobInv, Marked
<1>1. CASE Arrive(j)
  BY <1>1 DEF Arrive, TypeInv, TypeOK, Ownership, RowsMatchPlaces, JobInv, Conversation,
              Marked, Undecided, Over
<1>2. CASE ClientDrop(j)
  BY <1>2 DEF ClientDrop, JobInv, Conversation, Marked
<1>3. CASE Gate(j)
  BY <1>3 DEF Gate, TypeInv, TypeOK, Ownership, RowsMatchPlaces, JobInv, Conversation,
              Marked, Undecided, Over
<1>4. CASE Insert(j)
  <2>1. /\ rows[j].status = "none" /\ handler[j] = "insert" /\ flipping # j
        /\ reply[j] = "none" /\ watcher[j] # "on" /\ outcome[j] # "ok"
        /\ UNCHANGED <<watcher, outcome, flipping>>
    BY <1>0, <1>4 DEF Insert, Ownership, RowsMatchPlaces, JobInv, Conversation, Undecided
  <2>2. CASE /\ rows' = [rows EXCEPT ![j] = create_queued(request[j].mode,
                                                           request[j].webhook, Now)]
             /\ handler' = [handler EXCEPT ![j] = "put"] /\ UNCHANGED reply
    <3>1. /\ rows'[j].status = "queued" /\ ~rows'[j].webhook_handover
          /\ ~rows'[j].initial_response_delivered /\ ~rows'[j].response_delivered
          /\ handler'[j] = "put"
      BY <2>2 DEF create_queued, NoRow, TypeInv, TypeOK
    <3> QED BY <2>1, <2>2, <3>1 DEF JobInv, Conversation, Marked, Undecided
  <2>3. CASE /\ handler' = [handler EXCEPT ![j] = "flush"]
             /\ reply' = [reply EXCEPT ![j] = "error"] /\ UNCHANGED rows
    BY <2>1, <2>3 DEF JobInv, Conversation, Marked, Undecided, TypeInv, TypeOK
  <2> QED BY <1>4, <2>2, <2>3 DEF Insert
<1>5. CASE Put(j)
  BY <1>5 DEF Put, TypeInv, TypeOK, Ownership, RowsMatchPlaces, JobInv, Conversation,
              Marked, Undecided, Over
<1>6. CASE Answer(j)
  BY <1>6 DEF Answer, TypeInv, TypeOK, JobInv, Conversation, Marked, Undecided, Over
<1>7. CASE ReadBack(j)
  <2>1. /\ handler[j] = "readback" /\ handler'[j] = "flush" /\ watcher[j] # "on"
        /\ UNCHANGED <<watcher, outcome, flipping>>
    BY <1>7 DEF ReadBack, TypeInv, TypeOK, JobInv, Conversation
  <2>2. /\ SameMarks(rows'[j], rows[j]) /\ rows'[j].status = rows[j].status
        /\ reply'[j] \in {"result", "error"}
        /\ reply'[j] = "result" => rows[j].status = "completed"
    BY <1>0, <1>7, SetsKeepMarks DEF ReadBack, TypeInv, TypeOK, SameMarks
  <2> QED BY <2>1, <2>2 DEF JobInv, Conversation, Marked, SameMarks, Undecided, Over
<1>8. CASE Flush(j)
  BY <1>8 DEF Flush, TypeInv, TypeOK, JobInv, Conversation, Marked, Undecided, Over
<1>9. CASE Background(j)
  <2>1. /\ handler[j] = "background" /\ handler'[j] = "done" /\ watcher[j] # "on"
        /\ reply[j] \in {"accepted", "result"}
        /\ UNCHANGED <<reply, watcher, outcome, flipping>>
    BY <1>9 DEF Background, TypeInv, TypeOK, JobInv, Conversation
  <2>2. \/ rows'[j] = rows[j]
        \/ reply[j] = "accepted" /\ rows'[j] = mark_initial_response_delivered(rows[j])
        \/ reply[j] = "result" /\ rows'[j] = mark_response_delivered(rows[j])
    BY <1>9, <2>1 DEF Background, Marks, TypeInv, TypeOK
  <2>3. rows'[j].status = rows[j].status
    BY <1>0, <2>2, MarksKeepStatus
  <2>4. Conversation(j)'
    BY <2>1, <2>3 DEF JobInv, Conversation, Undecided
  <2>5. Marked(j)'
    <3>1. CASE rows'[j] = rows[j]
      BY <2>1, <3>1 DEF JobInv, Marked, Over
    <3>2. CASE reply[j] = "accepted" /\ rows'[j] = mark_initial_response_delivered(rows[j])
      BY <1>0, <2>1, <2>3, <3>2
         DEF mark_initial_response_delivered, Row, JobInv, Marked, Conversation, Over
    <3>3. CASE reply[j] = "result" /\ rows'[j] = mark_response_delivered(rows[j])
      BY <1>0, <2>1, <2>3, <3>3
         DEF mark_response_delivered, Row, JobInv, Marked, Conversation, Over, IsTerminal,
             Terminal
    <3> QED BY <2>2, <3>1, <3>2, <3>3
  <2> QED BY <2>4, <2>5 DEF JobInv
<1>10. CASE Watch(j)
  <2>1. /\ handler[j] = "await" /\ watcher'[j] = "off" /\ rows[j].status # "none"
        /\ UNCHANGED <<handler, reply, outcome, flipping>>
    BY <1>10 DEF Watch, TypeInv, TypeOK, JobInv, Conversation
  <2>2. rows'[j] = rows[j] \/ rows'[j] = mark_async_with_handover(rows[j])
    BY <1>10 DEF Watch, Marks, TypeInv, TypeOK
  <2>3. rows'[j].status = rows[j].status
    BY <1>0, <2>2, MarksKeepStatus
  <2>4. Conversation(j)'
    BY <2>1, <2>3 DEF JobInv, Conversation
  <2>5. Marked(j)'
    BY <1>0, <2>1, <2>2, <2>3
       DEF mark_async_with_handover, Row, JobInv, Marked, Over
  <2> QED BY <2>4, <2>5 DEF JobInv
<1> QED BY <1>1, <1>2, <1>3, <1>4, <1>5, <1>6, <1>7, <1>8, <1>9, <1>10 DEF HandlerStep

LEMMA HandlerStepJobs ==
    ASSUME TypeInv, Ownership, \A k \in JobIds : JobInv(k), NEW j \in JobIds,
           Arrive(j) \/ ClientDrop(j) \/ HandlerStep(j)
    PROVE  \A k \in JobIds : JobInv(k)'
<1>1. JobInv(j)'
  BY HandlerStepOwnJob
<1>2. ASSUME NEW k \in JobIds, k # j
      PROVE  JobInv(k)'
  <2>1. /\ rows'[k] = rows[k] /\ handler'[k] = handler[k] /\ reply'[k] = reply[k]
        /\ watcher'[k] = watcher[k] /\ UNCHANGED <<outcome, flipping>>
    BY <1>2, HandlerStepTouches
  <2>2. SameMarks(rows'[k], rows[k]) /\ Advances(rows[k].status, rows'[k].status)
    BY <2>1 DEF SameMarks, Advances
  <2>3. JobInv(k)
    OBVIOUS
  <2> QED BY ONLY <2>1, <2>2, <2>3, <1>2, JobFrame
<1> QED BY <1>1, <1>2

\* The endings that announce no code and are not unexpected are the silent ones.
LEMMA SilentEndings ==
    /\ \A kind \in PipelineKinds : \A e \in PrepareFailures(kind) \cup ExecuteFailures(kind) :
          e.code = "none" /\ e.exc # "other" => e.exc \in Silent
    /\ \A e \in SubmitFailures \cup SwapFailures :
          e.code = "none" /\ e.exc # "other" => e.exc \in Silent
<1> USE DEF Ending, Silent
<1>1. \A e \in UploadImageFailures : e.code = "none" /\ e.exc # "other" => e.exc \in Silent
  BY DEF UploadImageFailures
<1>2. \A e \in ImagePrepareFailures \cup LtxvPrepareFailures \cup WanPrepareFailures :
         e.code = "none" /\ e.exc # "other" => e.exc \in Silent
  BY <1>1 DEF ImagePrepareFailures, LtxvPrepareFailures, WanPrepareFailures
<1>3. \A e \in WaitFailures \cup FetchFailures \cup OutputFailures \cup StoreFailures :
         e.code = "none" /\ e.exc # "other" => e.exc \in Silent
  BY DEF WaitFailures, FetchFailures, OutputFailures, StoreFailures
<1>4. \A e \in SubmitFailures \cup SwapFailures :
         e.code = "none" /\ e.exc # "other" => e.exc \in Silent
  BY DEF SubmitFailures, SwapFailures
<1> QED BY <1>2, <1>3, <1>4
   DEF PrepareFailures, ExecuteFailures, PipelineKinds, ImageExecuteFailures,
       LtxvExecuteFailures, WanExecuteFailures

\* Where an ending takes a worker.
LEMMA EndingResult ==
    ASSUME TypeInv, NEW w \in Workers, NEW ending \in Endings, EndsWith(w, ending),
           ending.code = "none" /\ ending.exc # "other" => ending.exc \in Silent
    PROVE  Result(w)'
<1> DEFINE stage == IF ending.code # "none" THEN "record"
                    ELSE IF ending.exc = "other" THEN "unexpected" ELSE "settle"
<1>1. worker'[w].stage = stage /\ worker'[w].exc = ending.exc
  BY DEF EndsWith, TypeInv, TypeOK
<1>2. ending.exc # "ok" /\ (stage = "settle" => ending.exc \in Silent)
  BY DEF Endings, Exceptions
<1> HIDE DEF stage
<1> QED BY <1>1, <1>2 DEF Result

\* A worker that goes on to another stage of its pipeline.
LEMMA AtResult ==
    ASSUME TypeInv, NEW w \in Workers, Result(w), worker[w].stage # "settle",
           NEW stage, worker' = At(w, stage),
           stage = "settle" => ~IsActive(rows'[worker[w].job])
    PROVE  Result(w)'
<1>1. /\ worker'[w].stage = stage /\ worker'[w].exc = worker[w].exc
      /\ worker'[w].job = worker[w].job
  BY DEF At, TypeInv, TypeOK, WorkerStates
<1> QED BY <1>1 DEF Result

\* A step of a worker keeps what every worker is about to tell true.
LEMMA WorkerStepResult ==
    ASSUME TypeInv, Ownership, \A v \in Workers : Result(v), NEW w \in Workers, WorkerStep(w)
    PROVE  \A v \in Workers : Result(v)'
<1> DEFINE j == worker[w].job
<1>1. ASSUME NEW v \in Workers, v # w
      PROVE  Result(v)'
  <2>1. worker'[v] = worker[v]
    BY <1>1 DEF WorkerStep, Get, Prepare, Submit, SetRunning, Execute, Complete, Record,
                Unexpected, Settle, At, EndsWith, TypeInv, TypeOK
  <2>2. \A k \in JobIds : Advances(rows[k].status, rows'[k].status)
    BY WorkerStepWrites DEF WorkerWrites
  <2> QED BY <2>1, <2>2, ResultFrame
<1>2. worker[w].stage # "idle" =>
         j \in JobIds /\ rows[j] \in Row /\ request[j].kind \in PipelineKinds
  BY RequestsAssumption DEF TypeInv, TypeOK, BusyWorkers, RequestSpace
<1>3. /\ Ending("none", "other") \in Endings /\ Ending("none", "node") \in Endings
      /\ Ending("none", "other").exc = "other" /\ Ending("none", "node").exc \in Silent
  BY EndingsTyped DEF Ending, Silent
<1>4. Result(w)
  OBVIOUS
<1>5. Result(w)'
  <2>1. CASE Get(w)
    <3>1. worker'[w].stage = "prepare" /\ worker'[w].exc = "none"
      BY <2>1 DEF Get, TypeInv, TypeOK
    <3> QED BY <3>1 DEF Result
  <2>2. CASE Prepare(w)
    BY <1>2, <1>4, <2>2, AtResult, EndingResult, EndingsTyped, SilentEndings DEF Prepare
  <2>3. CASE Submit(w)
    BY <1>4, <2>3, AtResult, EndingResult, EndingsTyped, SilentEndings DEF Submit
  <2>4. CASE SetRunning(w)
    BY <1>3, <1>4, <2>4, AtResult, EndingResult DEF SetRunning
  <2>5. CASE Execute(w)
    BY <1>2, <1>4, <2>5, AtResult, EndingResult, EndingsTyped, SilentEndings DEF Execute
  <2>6. CASE Complete(w)
    <3>1. CASE /\ Moves(j, "completed", set_completed(rows[j]))
               /\ worker' = [worker EXCEPT ![w] = [stage |-> "settle", job |-> j,
                                                   code |-> "none", exc |-> "ok"]]
      <4>1. worker'[w].stage = "settle" /\ worker'[w].exc = "ok" /\ worker'[w].job = j
        BY <3>1 DEF TypeInv, TypeOK
      <4>2. rows'[j].status = "completed"
        BY <1>2, <2>6, <3>1, SetsKeepMarks DEF Complete, Moves, TypeInv, TypeOK
      <4> QED BY <4>1, <4>2 DEF Result, IsActive
    <3>2. CASE EndsWith(w, Ending("none", "other"))
      BY <1>3, <3>2, EndingResult
    <3> QED BY <2>6, <3>1, <3>2 DEF Complete
  <2>7. CASE Record(w)
    <3>1. worker[w].stage = "record" /\ worker[w].code \in ErrorCodes
      BY <2>7 DEF Record, TypeInv, BusyWorkers
    <3>2. CASE Moves(j, "failed", set_failed(rows[j], worker[w].code)) /\ worker' = At(w, "settle")
      <4>1. rows'[j].status = "failed"
        BY <1>2, <3>1, <3>2, SetsKeepMarks DEF Moves, TypeInv, TypeOK
      <4> QED BY <1>4, <3>1, <3>2, <4>1, AtResult DEF IsActive
    <3>3. CASE EndsWith(w, Ending("none", "other"))
      BY <1>3, <3>3, EndingResult
    <3> QED BY <2>7, <3>2, <3>3 DEF Record
  <2>8. CASE Unexpected(w)
    <3>1. worker[w].stage = "unexpected" /\ "internal" \in ErrorCodes
      BY <2>8 DEF Unexpected, ErrorCodes
    <3>2. CASE Moves(j, "failed", set_failed(rows[j], "internal")) /\ worker' = At(w, "settle")
      <4>1. rows'[j].status = "failed"
        BY <1>2, <3>1, <3>2, SetsKeepMarks DEF Moves, TypeInv, TypeOK
      <4> QED BY <1>4, <3>1, <3>2, <4>1, AtResult DEF IsActive
    <3>3. CASE worker' = At(w, "dead")
      BY <1>4, <3>1, <3>3, AtResult
    <3> QED BY <2>8, <3>2, <3>3 DEF Unexpected
  <2>9. CASE Settle(w)
    <3>1. worker'[w].stage = "idle" /\ worker'[w].exc = "none"
      BY <2>9 DEF Settle, Idle, TypeInv, TypeOK
    <3> QED BY <3>1 DEF Result
  <2> QED BY <2>1, <2>2, <2>3, <2>4, <2>5, <2>6, <2>7, <2>8, <2>9 DEF WorkerStep
<1> QED BY <1>1, <1>5

\* A step of a worker keeps the story of every job.
LEMMA WorkerStepJobs ==
    ASSUME TypeInv, Ownership, \A k \in JobIds : JobInv(k), \A v \in Workers : Result(v),
           NEW w \in Workers, WorkerStep(w)
    PROVE  \A k \in JobIds : JobInv(k)'
<1>1. /\ UNCHANGED <<handler, reply, watcher, flipping>>
      /\ \A k \in JobIds : /\ SameMarks(rows'[k], rows[k])
                           /\ Advances(rows[k].status, rows'[k].status)
  BY WorkerStepWrites DEF WorkerWrites
<1>2. ASSUME NEW k \in JobIds, outcome'[k] = "ok", outcome[k] # "ok"
      PROVE  rows'[k].status = "completed"
  <2>1. Settle(w)
    BY <1>2 DEF WorkerStep, Get, Prepare, Submit, SetRunning, Execute, Complete, Record,
                Unexpected
  <2>2. /\ worker[w].stage = "settle" /\ worker[w].job = k /\ worker[w].exc = "ok"
        /\ UNCHANGED rows
    BY <1>2, <2>1 DEF Settle, TypeInv, TypeOK
  <2> QED BY <2>2 DEF Result
<1>3. ASSUME NEW k \in JobIds
      PROVE  JobInv(k)'
  <2>1. JobInv(k)
    OBVIOUS
  <2>2. outcome'[k] = "ok" => outcome[k] = "ok" \/ rows'[k].status = "completed"
    BY <1>2
  <2> QED BY ONLY <1>1, <1>3, <2>1, <2>2, JobFrame
<1> QED BY <1>3

\* Start-up, recovery and crashes keep the story of every job and worker.
LEMMA LifespanJobs ==
    ASSUME TypeInv, Ownership, \A k \in JobIds : JobInv(k), RecoverStep \/ Crash
    PROVE  \A k \in JobIds : JobInv(k)'
<1> USE DEF handlerVars, workerVars, bootVars, bounds
<1>s. \A k \in JobIds : SameMarks(rows[k], rows[k]) /\ Advances(rows[k].status, rows[k].status)
  BY DEF SameMarks, Advances
<1>f. ASSUME NEW k \in JobIds, UNCHANGED <<handler, reply, watcher, outcome>>,
             rows'[k] = rows[k], flipping' = k => flipping = k
      PROVE  JobInv(k)'
  <2>1. JobInv(k)
    OBVIOUS
  <2> QED BY ONLY <1>s, <1>f, <2>1, JobFrame
<1>1. CASE Boot \/ Serve
  BY <1>1, <1>f DEF Boot, Serve
<1>2. ASSUME NEW j \in JobIds, RecoverQueued(j)
      PROVE  \A k \in JobIds : JobInv(k)'
  BY <1>2, <1>f DEF RecoverQueued
<1>3. ASSUME NEW j \in JobIds, RecoverRunning(j)
      PROVE  \A k \in JobIds : JobInv(k)'
  <2>1. /\ rows[j].status \in {"queued", "running"} /\ flipping' = j
        /\ UNCHANGED <<handler, reply, watcher, outcome>>
    BY <1>3 DEF RecoverRunning, assert_allowed, AllowedTransitions
  <2>2. /\ rows'[j] = set_failed(rows[j], "service_restarted")
        /\ \A k \in JobIds : k # j => rows'[k] = rows[k]
    BY <1>3 DEF RecoverRunning, TypeInv, TypeOK
  <2>3. SameMarks(rows'[j], rows[j]) /\ rows'[j].status = "failed"
    BY <2>2, SetsKeepMarks DEF TypeInv, TypeOK, ErrorCodes
  <2>4. JobInv(j)'
    BY <2>1, <2>3 DEF JobInv, Conversation, Marked, SameMarks, IsTerminal, Terminal
  <2>5. ASSUME NEW k \in JobIds, k # j
        PROVE  JobInv(k)'
    BY <1>f, <2>1, <2>2, <2>5
  <2> QED BY <2>4, <2>5
<1>4. ASSUME NEW j \in JobIds, RecoverHandover(j)
      PROVE  \A k \in JobIds : JobInv(k)'
  <2>1. /\ flipping = j /\ flipping' = NoJob /\ phase = "recovering"
        /\ UNCHANGED <<handler, reply, watcher, outcome>>
    BY <1>4 DEF RecoverHandover
  <2>2. /\ rows'[j] = mark_handover(rows[j])
        /\ \A k \in JobIds : k # j => rows'[k] = rows[k]
    BY <1>4 DEF RecoverHandover, TypeInv, TypeOK
  <2>3. rows[j].status = "failed"
    BY <2>1 DEF JobInv, Marked
  <2>4. handler[j] \in Over
    BY <2>1, <2>3 DEF Ownership, PhaseDiscipline, RowsMatchPlaces, Over
  <2>5. /\ rows'[j].status = "failed" /\ rows'[j].mode = rows[j].mode
        /\ rows'[j].response_delivered = rows[j].response_delivered
        /\ rows'[j].initial_response_delivered = rows[j].initial_response_delivered
    BY <2>2, <2>3 DEF mark_handover, TypeInv, TypeOK, Row
  <2>6. JobInv(j)'
    BY <2>1, <2>3, <2>4, <2>5, JobIdsAssumption
       DEF JobInv, Conversation, Marked, IsTerminal, Terminal
  <2>7. ASSUME NEW k \in JobIds, k # j
        PROVE  JobInv(k)'
    BY <1>f, <2>1, <2>2, <2>7, JobIdsAssumption
  <2> QED BY <2>6, <2>7
<1>5. CASE Crash
  <2>1. ASSUME NEW k \in JobIds
        PROVE  JobInv(k)'
    <3>1. /\ handler'[k] \in {"idle", "done", "lost"} /\ watcher'[k] = "off"
          /\ handler[k] \in Over => handler'[k] \in Over
          /\ handler'[k] = "idle" => handler[k] = "idle"
          /\ outcome'[k] = "none" /\ flipping' # k
          /\ UNCHANGED <<rows, reply>>
      BY <1>5, JobIdsAssumption DEF Crash, Over
    <3> QED BY <3>1 DEF JobInv, Conversation, Marked, Undecided, Over
  <2> QED BY <2>1
<1> QED BY <1>1, <1>2, <1>3, <1>4, <1>5 DEF RecoverStep

LEMMA LifespanResult ==
    ASSUME TypeInv, Ownership, \A w \in Workers : Result(w), RecoverStep \/ Crash
    PROVE  \A w \in Workers : Result(w)'
<1> USE DEF handlerVars, workerVars, bootVars, bounds
<1>1. CASE RecoverStep
  <2>1. \A k \in JobIds : Advances(rows[k].status, rows'[k].status)
    <3>1. CASE UNCHANGED rows
      BY <3>1 DEF Advances
    <3>2. ASSUME NEW j \in JobIds, RecoverRunning(j)
          PROVE  \A k \in JobIds : Advances(rows[k].status, rows'[k].status)
      <4>1. <<rows[j].status, "failed">> \in Progress
        BY <3>2 DEF RecoverRunning, assert_allowed, AllowedTransitions, Progress
      <4>2. rows'[j].status = "failed" /\ \A k \in JobIds : k # j => rows'[k] = rows[k]
        BY <3>2, SetsKeepMarks DEF RecoverRunning, TypeInv, TypeOK, ErrorCodes
      <4> QED BY <4>1, <4>2 DEF Advances
    <3>3. ASSUME NEW j \in JobIds, RecoverHandover(j)
          PROVE  \A k \in JobIds : Advances(rows[k].status, rows'[k].status)
      BY <3>3, MarksKeepStatus DEF RecoverHandover, TypeInv, TypeOK, Advances
    <3> QED BY <1>1, <3>1, <3>2, <3>3 DEF RecoverStep, Boot, Serve, RecoverQueued
  <2>2. UNCHANGED worker
    BY <1>1 DEF RecoverStep, Boot, Serve, RecoverRunning, RecoverHandover, RecoverQueued
  <2> QED BY <2>1, <2>2, ResultFrame
<1>2. CASE Crash
  <2>1. \A w \in Workers : worker'[w].stage = "idle" /\ worker'[w].exc = "none"
    BY <1>2 DEF Crash, Idle
  <2> QED BY <2>1 DEF Result
<1> QED BY <1>1, <1>2

-----------------------------------------------------------------------------
(* No job is forgotten.                                                    *)

\* A job that stays in sight: owned, or with the outcome it had.
LEMMA InSight ==
    ASSUME NoJobForgotten, phase # "down",
           NEW k \in JobIds,
           IsActive(rows'[k]) => IsActive(rows[k]),
           Owned(k) => Owned(k)', outcome'[k] = outcome[k]
    PROVE  IsActive(rows'[k]) /\ ~Owned(k)' => outcome'[k] \in Silent
BY DEF NoJobForgotten, Silent

\* A put adds one job to the queue and keeps the others in it.
LEMMA PutShows ==
    ASSUME TypeInv, NEW j \in JobIds, queue' = Append(queue, j)
    PROVE  InQueue(j)' /\ \A k \in JobIds : InQueue(k) => InQueue(k)'
<1>1. QueueGrows(j)
  BY AppendGrows DEF TypeInv, TypeOK
<1>2. Len(queue) \in Nat
  BY DEF TypeInv, TypeOK
<1>3. Len(queue) + 1 \in 1..Len(queue') /\ \A i \in 1..Len(queue) : i \in 1..Len(queue')
  BY <1>1, <1>2 DEF QueueGrows
<1> QED BY <1>1, <1>3 DEF QueueGrows, InQueue

LEMMA HandlerStepForgets ==
    ASSUME TypeInv, Ownership, NoJobForgotten, NEW j \in JobIds,
           Arrive(j) \/ ClientDrop(j) \/ HandlerStep(j)
    PROVE  NoJobForgotten'
<1> SUFFICES ASSUME NEW k \in JobIds, phase' # "down"
             PROVE  IsActive(rows'[k]) /\ ~Owned(k)' => outcome'[k] \in Silent
  BY DEF NoJobForgotten, Silent
<1>1. /\ UNCHANGED <<phase, worker, outcome, todo, flipping>>
      /\ \A i \in JobIds : i # j =>
            /\ rows'[i] = rows[i] /\ handler'[i] = handler[i]
            /\ reply'[i] = reply[i] /\ watcher'[i] = watcher[i]
      /\ \/ rows'[j].status = rows[j].status
         \/ rows[j].status = "none" /\ handler'[j] = "put"
  BY HandlerStepTouches
<1>2. CASE k = j /\ handler'[j] = "put"
  BY <1>2 DEF Owned
<1>3. CASE ~(k = j /\ handler'[j] = "put")
  <2>1. IsActive(rows'[k]) => IsActive(rows[k])
    BY <1>1, <1>3 DEF IsActive
  <2>2. Owned(k) => Owned(k)'
    <3>1. CASE Put(j)
      <4>1. queue' = Append(queue, j) /\ \A v \in Workers : Holds(v, k) <=> Holds(v, k)'
        BY <1>1, <3>1 DEF Put, Holds
      <4>2. InQueue(j)' /\ (InQueue(k) => InQueue(k)')
        BY <4>1, PutShows
      <4> QED BY <1>1, <4>1, <4>2 DEF Owned
    <3>2. CASE ~Put(j)
      <4>1. /\ UNCHANGED queue
            /\ handler[j] = "put" => handler'[j] = "put"
        BY <3>2 DEF HandlerStep, Arrive, ClientDrop, Gate, Insert, Answer, ReadBack, Flush,
                    Background, Watch, handlerVars, workerVars, TypeInv, TypeOK
      <4> QED BY <1>1, <4>1 DEF Owned, InQueue, Holds
    <3> QED BY <3>1, <3>2
  <2> QED BY <1>1, <2>1, <2>2, InSight
<1> QED BY <1>2, <1>3

LEMMA WorkerStepForgets ==
    ASSUME TypeInv, Ownership, NoJobForgotten, \A v \in Workers : Result(v),
           NEW w \in Workers, WorkerStep(w)
    PROVE  NoJobForgotten'
<1> SUFFICES ASSUME NEW k \in JobIds, phase' # "down"
             PROVE  IsActive(rows'[k]) /\ ~Owned(k)' => outcome'[k] \in Silent
  BY DEF NoJobForgotten, Silent
<1>1. /\ UNCHANGED <<phase, handler, todo>>
      /\ IsActive(rows'[k]) => IsActive(rows[k])
  BY WorkerStepWrites DEF WorkerWrites, Advances, Progress, IsActive
<1>2. CASE Get(w)
  <2>1. InQueue(k) => InQueue(k)' \/ Holds(w, k)'
    <3>1. SUFFICES ASSUME NEW i \in 1..Len(queue), queue[i] = k
                   PROVE  InQueue(k)' \/ Holds(w, k)'
      BY DEF InQueue
    <3>2. queue' = Tail(queue) /\ worker'[w].job = Head(queue)
      BY <1>2 DEF Get, TypeInv, TypeOK
    <3>3. CASE i = 1
      BY <3>1, <3>2, <3>3 DEF Holds
    <3>4. CASE i # 1
      <4>1. i - 1 \in 1..Len(queue') /\ queue'[i - 1] = k
        BY <3>1, <3>2, <3>4 DEF TypeInv, TypeOK
      <4> QED BY <4>1 DEF InQueue
    <3> QED BY <3>3, <3>4
  <2>2. \A v \in Workers : Holds(v, k) => Holds(v, k)'
    BY <1>2, JobIdsAssumption
       DEF Get, Holds, TypeInv, TypeOK, Ownership, RowsMatchPlaces
  <2>3. outcome'[k] = outcome[k]
    BY <1>2 DEF Get
  <2> QED BY <1>1, <2>1, <2>2, <2>3, InSight DEF Owned
<1>3. CASE Settle(w)
  <2>1. /\ worker[w].stage = "settle" /\ UNCHANGED <<rows, queue>>
        /\ \A v \in Workers : v # w => worker'[v] = worker[v]
    BY <1>3 DEF Settle, TypeInv, TypeOK
  <2>2. CASE worker[w].job = k
    <3>1. outcome'[k] = worker[w].exc
      BY <1>3, <2>2 DEF Settle, TypeInv, TypeOK
    <3> QED BY <2>1, <2>2, <3>1 DEF Result
  <2>3. CASE worker[w].job # k
    <3>1. outcome'[k] = outcome[k]
      BY <1>3, <2>3 DEF Settle, TypeInv, TypeOK
    <3>2. Owned(k) => Owned(k)'
      BY <1>1, <2>1, <2>3 DEF Owned, InQueue, Holds
    <3> QED BY <1>1, <3>1, <3>2, InSight
  <2> QED BY <2>2, <2>3
<1>4. CASE ~Get(w) /\ ~Settle(w)
  <2>1. UNCHANGED <<queue, outcome>> /\ \A v \in Workers : worker'[v].job = worker[v].job
    <3>1. \A stage : worker' = At(w, stage) =>
                        \A v \in Workers : worker'[v].job = worker[v].job
      BY DEF At, TypeInv, TypeOK, WorkerStates
    <3>2. \A ending : EndsWith(w, ending) =>
                        \A v \in Workers : worker'[v].job = worker[v].job
      BY DEF EndsWith, TypeInv, TypeOK
    <3>3. CASE Prepare(w) \/ Submit(w) \/ SetRunning(w) \/ Execute(w)
      BY <3>1, <3>2, <3>3 DEF Prepare, Submit, SetRunning, Execute
    <3>4. CASE Record(w) \/ Unexpected(w)
      BY <3>1, <3>2, <3>4 DEF Record, Unexpected
    <3>5. CASE Complete(w)
      <4>1. CASE worker' = [worker EXCEPT ![w] = [stage |-> "settle", job |-> worker[w].job,
                                                  code |-> "none", exc |-> "ok"]]
        BY <3>5, <4>1 DEF Complete, TypeInv, TypeOK
      <4> QED BY <3>2, <3>5, <4>1 DEF Complete
    <3> QED BY <1>4, <3>3, <3>4, <3>5 DEF WorkerStep
  <2>2. Owned(k) => Owned(k)'
    BY <1>1, <2>1 DEF Owned, InQueue, Holds
  <2> QED BY <1>1, <2>1, <2>2, InSight
<1> QED BY <1>2, <1>3, <1>4

LEMMA LifespanForgets ==
    ASSUME TypeInv, Ownership, NoJobForgotten, \A j \in JobIds : JobInv(j),
           RecoverStep \/ Crash
    PROVE  NoJobForgotten'
<1> SUFFICES ASSUME NEW k \in JobIds, phase' # "down"
             PROVE  IsActive(rows'[k]) /\ ~Owned(k)' => outcome'[k] \in Silent
  BY DEF NoJobForgotten, Silent
<1> USE DEF handlerVars, workerVars, bootVars, bounds
<1>1. CASE Boot
  BY <1>1 DEF Boot, Owned, IsActive
<1>2. CASE Serve
  <2>1. phase # "down" /\ UNCHANGED <<rows, handler, queue, worker, outcome, todo>>
    BY <1>2 DEF Serve
  <2> QED BY <2>1, InSight DEF Owned, InQueue, Holds
<1>3. ASSUME NEW j \in JobIds, RecoverRunning(j)
      PROVE  IsActive(rows'[k]) /\ ~Owned(k)' => outcome'[k] \in Silent
  <2>1. /\ phase # "down" /\ UNCHANGED <<handler, queue, worker, outcome, todo>>
        /\ rows'[j].status = "failed" /\ \A i \in JobIds : i # j => rows'[i] = rows[i]
    BY <1>3, SetsKeepMarks DEF RecoverRunning, TypeInv, TypeOK, ErrorCodes
  <2>2. IsActive(rows'[k]) => IsActive(rows[k])
    BY <2>1 DEF IsActive
  <2> QED BY <2>1, <2>2, InSight DEF Owned, InQueue, Holds
<1>4. ASSUME NEW j \in JobIds, RecoverHandover(j)
      PROVE  IsActive(rows'[k]) /\ ~Owned(k)' => outcome'[k] \in Silent
  <2>1. /\ phase # "down" /\ UNCHANGED <<handler, queue, worker, outcome>>
        /\ \A i \in JobIds : i # j => rows'[i] = rows[i] /\ todo'[i] = todo[i]
    BY <1>4 DEF RecoverHandover, TypeInv, TypeOK
  <2>2. rows'[j].status = "failed"
    BY <1>4, MarksKeepStatus DEF RecoverHandover, JobInv, Marked, TypeInv, TypeOK
  <2>3. CASE k = j
    BY <2>2, <2>3 DEF IsActive
  <2>4. CASE k # j
    <3>1. IsActive(rows'[k]) => IsActive(rows[k])
      BY <2>1, <2>4
    <3>2. Owned(k) => Owned(k)'
      BY <2>1, <2>4 DEF Owned, InQueue, Holds
    <3> QED BY <2>1, <3>1, <3>2, InSight
  <2> QED BY <2>3, <2>4
<1>5. ASSUME NEW j \in JobIds, RecoverQueued(j)
      PROVE  IsActive(rows'[k]) /\ ~Owned(k)' => outcome'[k] \in Silent
  <2>1. /\ phase # "down" /\ UNCHANGED <<rows, handler, worker, outcome>>
        /\ queue' = Append(queue, j)
        /\ \A i \in JobIds : i # j => todo'[i] = todo[i]
    BY <1>5 DEF RecoverQueued, TypeInv, TypeOK
  <2>2. InQueue(j)' /\ (InQueue(k) => InQueue(k)')
    BY <2>1, PutShows
  <2>3. Owned(k) => Owned(k)'
    BY <2>1, <2>2 DEF Owned, Holds
  <2> QED BY <2>1, <2>3, InSight
<1>6. CASE Crash
  BY <1>6 DEF Crash
<1> QED BY <1>1, <1>2, <1>3, <1>4, <1>5, <1>6 DEF RecoverStep

-----------------------------------------------------------------------------
(* The invariant.                                                          *)

LEMMA InitStory == Init => Story
<1> SUFFICES ASSUME Init
             PROVE  Story
  OBVIOUS
<1>1. /\ NoRow.status = "none" /\ ~NoRow.webhook_handover /\ ~NoRow.response_delivered
      /\ ~NoRow.initial_response_delivered
      /\ Idle.stage = "idle" /\ Idle.exc = "none"
  BY DEF NoRow, Idle
<1>2. ASSUME NEW j \in JobIds
      PROVE  JobInv(j)
  BY <1>1, <1>2, JobIdsAssumption DEF Init, JobInv, Conversation, Marked, Undecided
<1>3. ASSUME NEW w \in Workers
      PROVE  Result(w)
  BY <1>1 DEF Init, Result
<1>4. NoJobForgotten
  BY DEF Init, NoJobForgotten
<1> QED BY <1>2, <1>3, <1>4 DEF Story

LEMMA NextStory == TypeInv /\ Ownership /\ Story /\ [Next]_vars => Story'
<1> SUFFICES ASSUME TypeInv, Ownership, Story, [Next]_vars
             PROVE  Story'
  OBVIOUS
<1>1. /\ \A k \in JobIds : JobInv(k)
      /\ \A w \in Workers : Result(w)
      /\ NoJobForgotten
  BY DEF Story
<1>2. CASE vars' = vars
  <2>1. \A k \in JobIds : JobInv(k)'
    BY <1>1, <1>2 DEF vars, handlerVars, workerVars, bootVars, JobInv, Conversation, Marked
  <2>2. \A w \in Workers : Result(w)'
    BY <1>1, <1>2 DEF vars, workerVars, Result
  <2>3. NoJobForgotten'
    BY <1>1, <1>2 DEF vars, handlerVars, workerVars, bootVars, NoJobForgotten, Owned, InQueue,
                      Holds
  <2> QED BY <2>1, <2>2, <2>3 DEF Story
<1>3. CASE Quiescent
  BY <1>2, <1>3 DEF Quiescent
<1>4. ASSUME NEW j \in JobIds, Arrive(j) \/ ClientDrop(j) \/ HandlerStep(j)
      PROVE  Story'
  <2>1. \A k \in JobIds : JobInv(k)'
    BY ONLY TypeInv, Ownership, <1>1, <1>4, HandlerStepJobs
  <2>2. /\ UNCHANGED worker
        /\ \A k \in JobIds : \/ Advances(rows[k].status, rows'[k].status)
                             \/ rows[k].status = "none"
    BY <1>4, HandlerStepTouches DEF Advances
  <2>3. \A w \in Workers : Result(w)'
    BY <1>1, <2>2, ResultFrame
  <2>4. NoJobForgotten'
    BY ONLY TypeInv, Ownership, <1>1, <1>4, HandlerStepForgets
  <2> QED BY <2>1, <2>3, <2>4 DEF Story
<1>5. ASSUME NEW w \in Workers, WorkerStep(w)
      PROVE  Story'
  BY ONLY TypeInv, Ownership, <1>1, <1>5, WorkerStepJobs, WorkerStepResult, WorkerStepForgets
     DEF Story
<1>6. CASE RecoverStep \/ Crash
  BY ONLY TypeInv, Ownership, <1>1, <1>6, LifespanJobs, LifespanResult, LifespanForgets DEF Story
<1> QED BY <1>2, <1>3, <1>4, <1>5, <1>6 DEF Next

LEMMA Invariance == Spec => []IInv
<1>1. Init => IInv
  BY InitType, InitOwnership, InitStory DEF IInv
<1>2. IInv /\ [Next]_vars => IInv'
  BY NextType, NextOwnership, NextStory DEF IInv
<1> QED BY <1>1, <1>2, PTL DEF Spec

\* No accepted job is dropped by the hand-offs between handler, queue, worker
\* and recovery: while the process is up an active row is owned, or its
\* pipeline ended in an error that writes nothing to the row.
THEOREM NoJobForgottenHolds == Spec => []NoJobForgotten
<1>1. IInv => NoJobForgotten
  BY DEF IInv, Story
<1> QED BY <1>1, Invariance, PTL

\* A 200 is sent only for a completed row, and only a completed sync row
\* acknowledges its response.
THEOREM RepliesMatchRowsHolds == Spec => []RepliesMatchRows
<1>1. IInv => RepliesMatchRows
  BY DEF IInv, Story, JobInv, Conversation, Marked, RepliesMatchRows
<1> QED BY <1>1, Invariance, PTL

\* The webhook barrier of a sync row opens only once the row is terminal and
\* its handler is over.
THEOREM BarrierRespectsHandlerHolds == Spec => []BarrierRespectsHandler
<1>1. IInv => BarrierRespectsHandler
  BY DEF IInv, Story, JobInv, Marked, BarrierRespectsHandler, Over
<1> QED BY <1>1, Invariance, PTL

-----------------------------------------------------------------------------
(* The refinement of JobContract: what a step does to the four functions   *)
(* the contract speaks about is a step of the contract for one job.        *)

\* The contract's moves of one job, read off the tables.
ContractMove(j) ==
    LET s == rows[j].status  t == rows'[j].status
        status == t = s
        answer == reply'[j] = reply[j]
        marks == /\ rows'[j].webhook_handover = rows[j].webhook_handover
                 /\ rows'[j].response_delivered = rows[j].response_delivered
    IN
    \/ status /\ answer /\ marks
    \/ s = "none" /\ reply[j] = "none" /\ reply'[j] \in {"busy", "error"} /\ status /\ marks
    \/ s = "none" /\ reply[j] = "none" /\ t = "queued" /\ answer /\ marks
    \/ <<s, t>> \in Progress /\ answer /\ marks
    \/ /\ s # "none" /\ reply[j] = "none" /\ reply'[j] \in {"accepted", "error", "result"}
       /\ reply'[j] = "result" => s = "completed"
       /\ status /\ marks
    \/ /\ s # "none" /\ rows'[j].webhook_handover = TRUE
       /\ rows'[j].response_delivered = rows[j].response_delivered
       /\ status /\ answer
    \/ /\ s = "completed" /\ reply[j] = "result" /\ rows[j].webhook_handover = FALSE
       /\ rows'[j].webhook_handover = TRUE /\ rows'[j].response_delivered = TRUE
       /\ status /\ answer

\* A move of one job, the others untouched, is a step of the contract.
LEMMA ContractStep ==
    ASSUME TypeInv, TypeInv', NEW j \in JobIds, ContractMove(j),
           \A k \in JobIds : k # j => rows'[k] = rows[k] /\ reply'[k] = reply[k]
    PROVE  [Contract!Next]_(Contract!vars)
<1> DEFINE life == [k \in JobIds |-> rows[k].status]
           lifeN == [k \in JobIds |-> rows'[k].status]
           handed == [k \in JobIds |-> rows[k].webhook_handover]
           handedN == [k \in JobIds |-> rows'[k].webhook_handover]
           ack == [k \in JobIds |-> rows[k].response_delivered]
           ackN == [k \in JobIds |-> rows'[k].response_delivered]
<1>1. /\ lifeN = [life EXCEPT ![j] = rows'[j].status]
      /\ handedN = [handed EXCEPT ![j] = rows'[j].webhook_handover]
      /\ ackN = [ack EXCEPT ![j] = rows'[j].response_delivered]
  OBVIOUS
<1>2. reply' = [reply EXCEPT ![j] = reply'[j]]
  BY DEF TypeInv, TypeOK
<1>3. /\ life[j] = rows[j].status /\ handed[j] = rows[j].webhook_handover
      /\ ack[j] = rows[j].response_delivered
  OBVIOUS
<1>4. /\ rows'[j].status = rows[j].status => lifeN = life
      /\ rows'[j].webhook_handover = rows[j].webhook_handover => handedN = handed
      /\ rows'[j].response_delivered = rows[j].response_delivered => ackN = ack
  OBVIOUS
<1>5. reply'[j] = reply[j] => reply' = reply
  BY <1>2 DEF TypeInv, TypeOK
<1>6. CASE lifeN = life /\ reply' = reply /\ handedN = handed /\ ackN = ack
  BY <1>6 DEF Contract!vars
<1> SUFFICES Contract!Next \/ (lifeN = life /\ reply' = reply /\ handedN = handed /\ ackN = ack)
  BY <1>6
<1> DEFINE s == rows[j].status
           t == rows'[j].status
           status == t = s
           answer == reply'[j] = reply[j]
           marks == /\ rows'[j].webhook_handover = rows[j].webhook_handover
                    /\ rows'[j].response_delivered = rows[j].response_delivered
<1>7. CASE status /\ answer /\ marks
  BY <1>4, <1>5, <1>7
<1> HIDE DEF life, lifeN, handed, handedN, ack, ackN
<1>8. CASE /\ s = "none" /\ reply[j] = "none" /\ reply'[j] \in {"busy", "error"}
           /\ status /\ marks
  <2>1. Contract!Refuse(j)
    BY <1>2, <1>3, <1>4, <1>8
       DEF Contract!Refuse, life, lifeN, handed, handedN, ack, ackN
  <2> QED BY <2>1 DEF Contract!Next
<1>9. CASE s = "none" /\ reply[j] = "none" /\ t = "queued" /\ answer /\ marks
  <2>1. Contract!Accept(j)
    BY <1>1, <1>3, <1>4, <1>5, <1>9
       DEF Contract!Accept, life, lifeN, handed, handedN, ack, ackN
  <2> QED BY <2>1 DEF Contract!Next
<1>10. CASE <<s, t>> \in Progress /\ answer /\ marks
  <2>1. CASE s = "queued" /\ t = "running"
    <3>1. Contract!Start(j)
      BY <1>1, <1>3, <1>4, <1>5, <1>10, <2>1
         DEF Contract!Start, life, lifeN, handed, handedN, ack, ackN
    <3> QED BY <3>1 DEF Contract!Next
  <2>2. CASE s = "running" /\ t = "completed"
    <3>1. Contract!Succeed(j)
      BY <1>1, <1>3, <1>4, <1>5, <1>10, <2>2
         DEF Contract!Succeed, life, lifeN, handed, handedN, ack, ackN
    <3> QED BY <3>1 DEF Contract!Next
  <2>3. CASE s \in {"queued", "running"} /\ t = "failed"
    <3>1. Contract!Fail(j)
      BY <1>1, <1>3, <1>4, <1>5, <1>10, <2>3
         DEF Contract!Fail, life, lifeN, handed, handedN, ack, ackN
    <3> QED BY <3>1 DEF Contract!Next
  <2> QED BY <1>10, <2>1, <2>2, <2>3 DEF Progress
<1>11. CASE /\ s # "none" /\ reply[j] = "none" /\ reply'[j] \in {"accepted", "error", "result"}
            /\ reply'[j] = "result" => s = "completed"
            /\ status /\ marks
  <2>1. Contract!Reply(j)
    BY <1>2, <1>3, <1>4, <1>11
       DEF Contract!Reply, life, lifeN, handed, handedN, ack, ackN
  <2> QED BY <2>1 DEF Contract!Next
<1>12. CASE /\ s # "none" /\ rows'[j].webhook_handover = TRUE
            /\ rows'[j].response_delivered = rows[j].response_delivered
            /\ status /\ answer
  <2>1. Contract!HandOver(j)
    BY <1>1, <1>3, <1>4, <1>5, <1>12
       DEF Contract!HandOver, life, lifeN, handed, handedN, ack, ackN
  <2> QED BY <2>1 DEF Contract!Next
<1>13. CASE /\ s = "completed" /\ reply[j] = "result" /\ rows[j].webhook_handover = FALSE
            /\ rows'[j].webhook_handover = TRUE /\ rows'[j].response_delivered = TRUE
            /\ status /\ answer
  <2>1. Contract!Acknowledge(j)
    BY <1>1, <1>3, <1>4, <1>5, <1>13
       DEF Contract!Acknowledge, life, lifeN, handed, handedN, ack, ackN
  <2> QED BY <2>1 DEF Contract!Next
<1> QED BY <1>7, <1>8, <1>9, <1>10, <1>11, <1>12, <1>13 DEF ContractMove

\* Every step of a handler is a move of the contract for its job.
LEMMA HandlerStepMoves ==
    ASSUME TypeInv, Ownership, NEW j \in JobIds, JobInv(j),
           Arrive(j) \/ ClientDrop(j) \/ HandlerStep(j)
    PROVE  ContractMove(j)
<1> USE DEF handlerVars, workerVars, bootVars, bounds
<1>0. rows[j] \in Row
  BY DEF TypeInv, TypeOK
<1>1. CASE UNCHANGED <<rows, reply>>
  BY <1>1 DEF ContractMove
<1>2. CASE Arrive(j) \/ ClientDrop(j) \/ Flush(j)
  BY <1>1, <1>2 DEF Arrive, ClientDrop, Flush
<1>3. CASE Gate(j)
  <2>1. rows[j].status = "none" /\ reply[j] = "none" /\ UNCHANGED rows
    BY <1>3 DEF Gate, Ownership, RowsMatchPlaces, JobInv, Conversation, Undecided
  <2>2. reply'[j] = "busy" \/ UNCHANGED reply
    BY <1>3 DEF Gate, TypeInv, TypeOK
  <2> QED BY <1>1, <2>1, <2>2 DEF ContractMove
<1>4. CASE Insert(j)
  <2>1. /\ rows[j].status = "none" /\ reply[j] = "none"
        /\ ~rows[j].webhook_handover /\ ~rows[j].response_delivered
    BY <1>4 DEF Insert, Ownership, RowsMatchPlaces, JobInv, Conversation, Marked, Undecided
  <2>2. CASE /\ rows' = [rows EXCEPT ![j] = create_queued(request[j].mode,
                                                           request[j].webhook, Now)]
             /\ UNCHANGED reply
    <3>1. /\ rows'[j].status = "queued" /\ rows'[j].webhook_handover = FALSE
          /\ rows'[j].response_delivered = FALSE
      BY <2>2 DEF create_queued, NoRow, TypeInv, TypeOK
    <3>2. rows[j].webhook_handover = FALSE /\ rows[j].response_delivered = FALSE
      BY <1>0, <2>1 DEF Row
    <3> QED BY <2>1, <2>2, <3>1, <3>2 DEF ContractMove
  <2>3. CASE reply' = [reply EXCEPT ![j] = "error"] /\ UNCHANGED rows
    BY <2>1, <2>3 DEF ContractMove, TypeInv, TypeOK
  <2> QED BY <1>4, <2>2, <2>3 DEF Insert
<1>5. CASE Put(j)
  <2>1. rows[j].status = "queued" /\ reply[j] = "none" /\ UNCHANGED rows
    BY <1>5 DEF Put, Ownership, RowsMatchPlaces, JobInv, Conversation, Undecided
  <2>2. reply'[j] = "accepted" \/ UNCHANGED reply
    BY <1>5 DEF Put, TypeInv, TypeOK
  <2> QED BY <1>1, <2>1, <2>2 DEF ContractMove
<1>6. CASE Answer(j)
  <2>1. rows[j].status # "none" /\ reply[j] = "none" /\ UNCHANGED rows
    BY <1>6 DEF Answer, JobInv, Conversation, Undecided
  <2>2. \/ reply'[j] = "error"
        \/ reply'[j] = "result" /\ rows[j].status = "completed"
        \/ UNCHANGED reply
    BY <1>6 DEF Answer, TypeInv, TypeOK, JobInv, Conversation
  <2> QED BY <1>1, <2>1, <2>2 DEF ContractMove
<1>7. CASE ReadBack(j)
  <2>1. rows[j].status # "none" /\ reply[j] = "none"
    BY <1>7 DEF ReadBack, JobInv, Conversation, Undecided
  <2>2. /\ SameMarks(rows'[j], rows[j]) /\ rows'[j].status = rows[j].status
        /\ reply'[j] \in {"result", "error"}
        /\ reply'[j] = "result" => rows[j].status = "completed"
    BY <1>0, <1>7, SetsKeepMarks DEF ReadBack, TypeInv, TypeOK, SameMarks
  <2> QED BY <2>1, <2>2 DEF ContractMove, SameMarks
<1>8. CASE Background(j)
  <2>1. /\ rows[j].status # "none" /\ UNCHANGED reply
        /\ reply[j] \in {"accepted", "result"}
        /\ reply[j] = "result" => rows[j].status = "completed"
    BY <1>8 DEF Background, JobInv, Conversation
  <2>2. \/ rows'[j] = rows[j]
        \/ reply[j] = "accepted" /\ rows'[j] = mark_initial_response_delivered(rows[j])
        \/ reply[j] = "result" /\ rows'[j] = mark_response_delivered(rows[j])
    BY <1>8, <2>1 DEF Background, Marks, TypeInv, TypeOK
  <2>3. CASE rows'[j] = rows[j]
    BY <2>1, <2>3 DEF ContractMove
  <2>4. CASE /\ reply[j] = "accepted" /\ rows[j].mode = "async"
             /\ rows'[j] = mark_initial_response_delivered(rows[j])
    <3>1. /\ rows'[j].status = rows[j].status /\ rows'[j].webhook_handover = TRUE
          /\ rows'[j].response_delivered = rows[j].response_delivered
      BY <1>0, <2>4 DEF mark_initial_response_delivered, Row
    <3> QED BY <2>1, <3>1 DEF ContractMove
  <2>5. CASE /\ reply[j] = "result" /\ rows[j].mode = "sync"
             /\ rows'[j] = mark_response_delivered(rows[j])
    <3>1. /\ rows'[j].status = rows[j].status /\ rows'[j].webhook_handover = TRUE
          /\ rows'[j].response_delivered = TRUE
      BY <1>0, <2>5 DEF mark_response_delivered, Row
    <3>2. rows[j].webhook_handover = FALSE
      BY <1>0, <1>8, <2>5 DEF Background, JobInv, Marked, Over, Row
    <3> QED BY <2>1, <2>5, <3>1, <3>2 DEF ContractMove
  <2> QED BY <2>2, <2>3, <2>4, <2>5
          DEF mark_initial_response_delivered, mark_response_delivered
<1>9. CASE Watch(j)
  <2>1. rows[j].status # "none" /\ UNCHANGED reply
    BY <1>9 DEF Watch, JobInv, Conversation
  <2>2. \/ rows'[j] = rows[j]
        \/ rows'[j] = mark_async_with_handover(rows[j])
    BY <1>9 DEF Watch, Marks, TypeInv, TypeOK
  <2>3. CASE rows'[j] = mark_async_with_handover(rows[j])
    <3>1. /\ rows'[j].status = rows[j].status /\ rows'[j].webhook_handover = TRUE
          /\ rows'[j].response_delivered = rows[j].response_delivered
      BY <1>0, <2>3 DEF mark_async_with_handover, Row
    <3> QED BY <2>1, <3>1 DEF ContractMove
  <2> QED BY <2>1, <2>2, <2>3 DEF ContractMove
<1> QED BY <1>2, <1>3, <1>4, <1>5, <1>6, <1>7, <1>8, <1>9 DEF HandlerStep

\* Every step of the service is a step of the contract.
LEMMA NextContract ==
    ASSUME IInv, IInv', [Next]_vars
    PROVE  [Contract!Next]_(Contract!vars)
<1>0. /\ TypeInv /\ TypeInv' /\ Ownership
      /\ \A j \in JobIds : JobInv(j)
  BY DEF IInv, Story
<1> USE DEF handlerVars, workerVars, bootVars, bounds
<1>1. CASE UNCHANGED <<rows, reply>>
  BY <1>1 DEF Contract!vars
<1>2. CASE UNCHANGED vars \/ Quiescent \/ Boot \/ Serve \/ Crash
  BY <1>1, <1>2 DEF vars, Quiescent, Boot, Serve, Crash
<1>3. ASSUME NEW j \in JobIds, Arrive(j) \/ ClientDrop(j) \/ HandlerStep(j)
      PROVE  [Contract!Next]_(Contract!vars)
  <2>1. ContractMove(j)
    BY <1>0, <1>3, HandlerStepMoves
  <2>2. \A k \in JobIds : k # j => rows'[k] = rows[k] /\ reply'[k] = reply[k]
    BY <1>0, <1>3, HandlerStepTouches
  <2> QED BY <1>0, <2>1, <2>2, ContractStep
<1>4. ASSUME NEW w \in Workers, WorkerStep(w)
      PROVE  [Contract!Next]_(Contract!vars)
  <2> DEFINE j == worker[w].job
  <2>1. WorkerWrites(w)
    BY <1>0, <1>4, WorkerStepWrites
  <2>2. CASE j \in JobIds
    <3>1. ContractMove(j)
      BY <2>1, <2>2 DEF WorkerWrites, SameMarks, Advances, ContractMove
    <3>2. \A k \in JobIds : k # j => rows'[k] = rows[k] /\ reply'[k] = reply[k]
      BY <2>1 DEF WorkerWrites
    <3> QED BY <1>0, <2>2, <3>1, <3>2, ContractStep
  <2>3. CASE j \notin JobIds
    <3>1. rows' = rows /\ reply' = reply
      BY <1>0, <2>1, <2>3 DEF WorkerWrites, TypeInv, TypeOK
    <3> QED BY <1>1, <3>1
  <2> QED BY <2>2, <2>3
<1>5. ASSUME NEW j \in JobIds, RecoverRunning(j)
      PROVE  [Contract!Next]_(Contract!vars)
  <2>1. /\ <<rows[j].status, "failed">> \in Progress /\ UNCHANGED reply
        /\ rows' = [rows EXCEPT ![j] = set_failed(@, "service_restarted")]
    BY <1>5 DEF RecoverRunning, assert_allowed, AllowedTransitions, Progress
  <2>2. /\ rows'[j] = set_failed(rows[j], "service_restarted") /\ rows[j] \in Row
        /\ \A k \in JobIds : k # j => rows'[k] = rows[k]
    BY <1>0, <2>1 DEF TypeInv, TypeOK
  <2>3. SameMarks(rows'[j], rows[j]) /\ rows'[j].status = "failed"
    BY <2>2, SetsKeepMarks DEF ErrorCodes
  <2>4. ContractMove(j)
    BY <2>1, <2>3 DEF ContractMove, SameMarks
  <2> QED BY <1>0, <2>1, <2>2, <2>4, ContractStep
<1>6. ASSUME NEW j \in JobIds, RecoverHandover(j)
      PROVE  [Contract!Next]_(Contract!vars)
  <2>1. /\ flipping = j /\ UNCHANGED reply
        /\ rows' = [rows EXCEPT ![j] = mark_handover(@)]
    BY <1>6 DEF RecoverHandover
  <2>2. /\ rows'[j] = mark_handover(rows[j]) /\ rows[j] \in Row
        /\ \A k \in JobIds : k # j => rows'[k] = rows[k]
    BY <1>0, <2>1 DEF TypeInv, TypeOK
  <2>3. /\ rows'[j].status = rows[j].status /\ rows'[j].webhook_handover = TRUE
        /\ rows'[j].response_delivered = rows[j].response_delivered
        /\ rows[j].status = "failed"
    BY <1>0, <2>1, <2>2 DEF mark_handover, Row, JobInv, Marked
  <2>4. ContractMove(j)
    BY <2>1, <2>3 DEF ContractMove
  <2> QED BY <1>0, <2>1, <2>2, <2>4, ContractStep
<1>7. ASSUME NEW j \in JobIds, RecoverQueued(j)
      PROVE  [Contract!Next]_(Contract!vars)
  BY <1>1, <1>7 DEF RecoverQueued
<1> QED BY <1>2, <1>3, <1>4, <1>5, <1>6, <1>7 DEF Next, RecoverStep

LEMMA InitContract == Init => Contract!Init
BY DEF Init, Contract!Init, NoRow

\* The service implements JobContract: one life per row, one answer per
\* request, a result only after success, an acknowledgement only together with
\* the hand-over and never after it, whatever faults and restarts do.
THEOREM ContractKept == Spec => KeepsContract
<1>1. IInv /\ IInv' /\ [Next]_vars => [Contract!Next]_(Contract!vars)
  BY NextContract
<1> QED BY <1>1, InitContract, Invariance, PTL DEF Spec, KeepsContract, Contract!Spec
=============================================================================
