# Verification of the image generation service

TLA+ models, model-checking runs and machine-checked proofs for the service
under `src/app`: an asyncio process that accepts image and video jobs over HTTP,
keeps them in SQLite, runs them one by one on ComfyUI, stores the results in S3
and tells clients through the response or a webhook.

## 1. Inventory

| Component | State it keeps | Operations | Hard part | Correct when |
|---|---|---|---|---|
| jobs table (`queue/jobs.py`, `store.py`) | one row per job: status, mode, marks, delivery status | `create_queued`, `set_*`, `mark_*`, scans | writes of several tasks, faults between commit and read-back | only legal transitions, terminal rows are final |
| generation handlers (`api/images.py`, `api/videos.py`) | a coroutine per POST, a watcher task | gate, insert, enqueue, await, answer, background marks | client leaves at any time; gate is check-then-act | one answer per request, marks tell the truth |
| queue and workers (`queue/worker.py`) | in-memory queue, current item per worker, `_last_model_name` | get, prepare, swap, submit, set_running, wait/fetch/store, complete, fail | every stage can fail; workers start before recovery | every job has one owner and ends |
| boot recovery, lifespan (`queue/recovery.py`, `main.py`) | snapshot of active rows | fail running rows, re-enqueue queued rows | death between two writes, blocking put | nothing lost, nothing run twice |
| webhook dispatcher (`webhooks/dispatcher.py`, `retry.py`) | `webhook_deliveries`, one task per candidate | tick, decide, create, deliver, POST, close, publish | death between POST, attempt and status | published status is true, no POST after success, every webhook settles |
| ComfyUI adapter (`backends/comfyui.py`) | websocket, one future per waited prompt | submit, wait, fetch, cancel, unload | websocket against polling against stall check against deadline; a sidecar that all workers share | every wait ends, a verdict is true, two models are never loaded without a reason |
| S3 storage, orphan reaper (`storage/s3.py`, `queue/reaper.py`) | objects | upload, get, delete unfetched | a pass deletes from a snapshot; uploads before the row is complete | completed jobs lose objects only to the reaper, a recorded fetch protects, unfetched objects go |
| Civitai fetcher (`loras/civitai.py`, `queue/fetches*.py`, `api/loras.py`) | `lora_fetches`, version locks, files | dedupe, download, verify, install, recover | two POSTs for a version, lock pruning, death in a download | one active fetch per version, only verified files installed |
| LoRA eviction (`loras/eviction.py`) | files, sidecars | choose and unlink candidates | jobs accepted meanwhile | no file of an active job removed |
| validation, registry, workflow graphs (`validation.py`, `registry/*.py`) | the registry in memory, templates on disk | load, validate, inject | files change between load, POST and run; splicing of node graphs | a graph that is submitted is well formed, within the limits, loads the model's files, applies each LoRA once and in order |
| admin API (`api/admin.py`) | registry, bundle, reconfiguration lock | reload, set up, close | reload against queued jobs | a bad file changes nothing |
| auth, metrics, logging, status endpoints, start-up checks | configuration | read | - | - |

Interaction: a handler and a worker share the row, the queue and a future;
the watcher and the handler share the row; recovery and the workers share the
queue; the dispatcher reads the rows all of them write and is kept off a sync
job by the column `webhook_handover`. `PROJECT.json` lists the hazards with
their lines.

## 2. Modules

| Module | Models |
|---|---|
| `Jobs` | the jobs table: every function of `jobs.py` that writes, as an operator on one row |
| `Pipelines` | the three pipelines of `QueueWorker`: for each stage the set of its early endings, i.e. which `error_code` is written and which exception leaves |
| `JobQueue` | handlers, watcher, queue, workers, recovery and process death over the table |
| `JobContract` | the abstract specification of a job: one life, one answer, one hand-over |
| `JobQueueProofs`, `JobContractProofs` | theorems about `JobQueue`, and that it implements `JobContract` |
| `WebhookDispatcher` | ticks, tasks, attempts and retries over the two tables |
| `WebhookProofs` | theorems about `WebhookDispatcher` |
| `LoraFetch` | POST /v1/loras/fetch, the fetches table, semaphore, version locks, the steps of a fetch, eviction, shutdown, death and recovery |
| `LoraFetchProofs` | theorems about `LoraFetch` |
| `SumTheorems` | what the sum over a finite set of the library computes |
| `ComfyWait` | the adapter and the part of the worker that drives it: swap, submit, wait, fetch, cancel, free, with the sidecar and the websocket |
| `ComfyWaitProofs` | theorems about `ComfyWait` |
| `StoredObjects` | uploads, completion, the media gateways, fetch marks, the orphan reaper, death and recovery |
| `StoredObjectsProofs` | theorems about `StoredObjects` |
| `Workflows` | workflow graphs and every injector of `workflows.py` and `wan_advanced.py`, as operators on graphs |
| `Registry` | `load_registry`: every check, in order |
| `Validation` | the request models and both resolvers: every check, in order, and the job they return |
| `Preparation` | composes the three: admission, reload, re-validation, graph construction and the admin API over a changing disk |
| `PreparationProofs` | theorems about `Validation` and `Preparation` |
| `MCJobQueue`, `MCWebhookDispatcher`, `MCLoraFetch`, `MCComfyWait`, `MCStoredObjects`, `MCPreparation` | instances for TLC |

**JobQueue.** A step is what a task does between two awaits that matter: one
access to the table, the queue or a future. `handler[j]` is the program counter
of the POST of job `j`: `Arrive`, `Gate` (`count_active`), `Insert`
(`create_queued`), `Put` (blocking `put`), `Answer` (the shielded await and its
except clauses), `ReadBack` (the binary endpoint), `Flush`, `Background` (the
mark after the response). `Watch` is `_watch_disconnect`. The video handlers are
the same code with other names. `worker[w]` is the program counter of one `run`
task: `Get`, `Prepare`, `Submit` (swap and POST /prompt), `SetRunning`,
`Execute` (wait, fetch, check, upload), `Complete`, `Record` (the `set_failed`
of a stage), `Unexpected` (the last except clause of `_process_one`), `Settle`
(the future). `Boot`, `RecoverRunning`, `RecoverHandover`, `RecoverQueued` and
`Serve` are start-up; `Crash` is death, failed start-up and shutdown alike,
since no pipeline catches `CancelledError`. A database fault may hit any write; it
either rolls back or, for the `set_*` functions, strikes the read-back after the
commit. Requests that fail validation change nothing and are left out.

**Abstractions.** Prompts, graphs, media, headers and messages are absent;
`created_at` is the number of rows. What a stage does with its data only
selects one of its endings, so an ending is a nondeterministic choice.

**WebhookDispatcher.** The rest of the service is `Finish` and `HandOver`. The
receiver is an answer class per POST and the log `posts`, which no code reads.
Time is `Elapse`: a retry time that passes. `TaskRaises` is any exception that
`gather(return_exceptions=True)` swallows.

**LoraFetch.** `post[r]` is the handler of a POST, `task[r]` the `_run` task it
spawns, `rows[r]` the row it inserted. `TakeSlot` and `TakeLock` are semaphore
and lock; a lock object is named by the request that created it, so pruning and
creating a fresh one are visible. `Begin` to `Finish` are the steps of `_fetch`;
`Scan`, `Recheck` and `Unlink` those of `evict_for`. A step ends with the commit of its write. The
last write of a task and the release of lock and semaphore are one step: the commit is awaited, but the
connection's thread answers in the order of its calls, so nobody who has seen the row runs before the
release. A shutdown may cancel a task at any await, that of a commit included: `Cancelled` takes the
row with or without the write of the stage (`written`), and then the handler's `set_failed`
(`handed_over`), which a terminal row refuses. `Raises` is any exception `_fetch` does not catch,
`RowReadFails` the one that `_run` does not. The generation jobs appear as far as
they meet the files: `Check`, `Touch`, `Accept`, `Work`, `EndJob`. Free disk space,
the stated size and the outcome of a download are free choices. The read and
the write of `_touch_last_used_sync` are one step: their race with an unlink
leaves an orphan sidecar, which the next fetch overwrites. The unlink of a partial file may fail
silently, in a fetch (`unlink_quiet`) and in the sweep at start-up (`Serve`). `lost` has the requests
whose task ended without a verdict, since its read of the row or its last-resort write raised; `MaxFaults` bounds them.

**ComfyWait.** `worker[w].pc` is where a run task stands in `_run_pipeline`,
`wait_for_completion` or `cancel`; `pending` and `resolved` are `_pending` and the futures in
it that are done; `ws` is the one connection with its reader. `Connect` is one try of
`_try_connect`, `Baseline` the reading before the `try` (an exception there ends the job as "unread" and leaves
its future registered), `ReaderDied` the reconnect budget, `Poll` a round of `_poll_until_done`,
`Stall` and `RaiseStalled` the stall check before and after its await, `Deadline` the passing of
`timeout_s`. `Start`, `Step`, `Finish` and `Drop` are the sidecar and the connection, known only
from how the adapter uses them: one prompt runs at a time, an entry appears in `/history`, an
`executing` event is sent once if the socket is open. `POST /interrupt` strikes whatever
runs. `missed` and `excused` are observers that no action reads.

**StoredObjects.** An object is a job and an index; `next[j]` is the length of `output_keys`.
A put that fails may have stored its object. `ReapRead` is the SELECT of a pass and
`ReapDelete` one `delete_object`, so gateway reads and fetch marks fall in between. `Age` is
the passing of `ORPHAN_REAPER_TTL`, `Touch` any later write of `updated_at`. What else
can go wrong with a row is in `JobQueue`.

**Workflows, Registry, Validation.** A graph maps node ids to nodes with a class, anchors,
links and values; only fields that an injector reads or writes are there. `inputs` says what the file gives
as the inputs of the node: an object, nothing, or another value, for nothing checks it before an injector
does (`CanFill`, `Bare`, `Unfit`). Taken for granted is what ComfyUI exports: nodes are objects, their ids are
ascending numbers, a field that an injector writes is not a link; and that `mmaudio_steps` and `mmaudio_cfg`,
if given, are numbers. An injector returns the graph or the exception it raises, and `Then` sequences injectors as the code does. A
list of checks is a sequence of `<<name, failed>>` in the order of the code; `FirstFailure`
is the first `raise`.

**Preparation.** `disk` is the version of `models.yaml`, model files, templates and LoRA
files; `registry` the version loaded last. `Arrive` looks at the lock, `Admit` validates,
`Revalidate` validates the stored request with the registry and files of now, `Build` reads
the template of now and injects, `UploadImage` ends it. `Edit` changes the files at any time;
`reload_registry`, `setup_bundle`, `WarmedUp`, `close_bundle` and `Unloaded` are the admin API.
Requests share only state that no request writes, so one request at a time is followed.

## 3. Runs

| Run | Instance | Shows |
|---|---|---|
| `jobs_core` | 2 jobs (one sync WAN video, one async LTX video), 2 workers, `MaxQueue` 1, 1 fault, 1 crash; symmetry | `TypeOK`, `SingleOwner`, `WritesAllowed`, `NoJobForgotten`, `RepliesMatchRows`, `BarrierRespectsHandler`; `KeepsContract`: `JobQueue` implements `JobContract` |
| `jobs_live` | 2 sync jobs on the binary endpoint, 1 worker, `MaxQueue` 1, 1 crash, fair | `EveryJobSettles`, `EveryRequestAnswered` |
| `webhook_core` | 2 jobs, 1 slot, 3 delays, 1 exception, 1 crash, fair | `StatusIsTrue`, `AttemptLog`, `BarrierAndSemaphore`, `NoPostAfterSuccess`, `SettlesUnlessCutShort` |
| `lora_core` | 2 POSTs, 3 versions, 1 image job, 1 slot, room for 2 files, 1 shutdown or crash; symmetry | `OneTaskPerVersion`, `AnswersAreServed`, `FilesAccounted`, `RoomAfterEviction`, `TransitionsAllowed`, `DoneMeansInstalled`, `HandDropsSurvive` |
| `lora_live` | 2 POSTs, 2 versions, stated sizes none, fitting and too large, 1 failing read or last write of a row, 1 shutdown or crash, fair | `EveryFetchSettles` |
| `comfy_wait` | 2 jobs of two models, 2 workers, stall check on, 2 faults, fair | `TypeOK`, `VerdictIsTrue`, `FuturesMatchWaits`, `DoubleLoadExplained`, `TimeoutMeansMissed`, `EveryWaitEnds` |
| `objects` | 2 jobs of up to 2 outputs, 1 client, 2 puts per object, 1 fault, 1 crash, fair | `TypeOK`, `GoneMeansReaped`, `LeftoversExplained`, `KeptOnceFetched`, `OrphansGo` |
| `preparation` | 6 versions of the disk, 27 requests (images, WAN, LTX, accepted and refused), 1 bundle | `TypeOK`, `RevalidationStable`, `FailuresExplained`, `ReadyWithinLimits`, `GraphWellFormed`, `GraphIsTheModels`, `LorasInOrder` |

`FilesAccounted` and `AttemptLog` include the type invariants of their modules.
`jobs_core` switches the deadlock check off: after a failing write a
worker task may be over (see below) and the service really stops working. The other
passing runs check deadlock; `Quiescent` is the idle service. In `StoredObjects` and
`Preparation` a client, the reaper or an administrator can always act.

**Bounds.** Two jobs and a queue of one are enough for a full queue, for a
handler and recovery that block, and for two owners of a job; one restart puts
recovery next to fresh handlers; two workers are used where a second worker could
take the same item. Three delays instead of five shorten the retry loop without
removing first, middle or last attempt; the run that is about the fifth attempt
uses the schedule of `retry.py`. Two POSTs race for one version or evict for each other; a third version gives
the eviction loop a second candidate. Each crash or fault may fall at any step.
Two workers with one model each are the least that can interrupt each other's prompt or
load two models; two faults give a lost connection and a failing reconnect, or a failing call
after it. Two outputs make a job that is half stored and a row of which one object is deleted.
The disks of `preparation` hold the shipped shapes of image, WAN and LTX graphs, a legal edit
that changes checkpoint, limits, models and LoRAs and adds models that pass `load_registry`
although the worker cannot fill their graphs, templates that are accepted although nodes to be filled in have
no inputs (`hollow`), and three that `load_registry` rejects (an anchor twice; one missing; a WAN graph of the
older kind, WAN graphs that lack an anchor, a template and a file gone). The requests
sit on both sides of every limit: frames 9, 10 and 11 at a limit of 10, one and five steps,
five LoRAs on top of two default ones. `SeedLimit` 2 and `MaxSeed` 3 stand for 2^50
and 2^53: seeds below and above the modulus. VRAM is in thousandths of a GB, as the code's constants
need.

**Fairness.** Weak fairness of each handler, worker and of start-up: the event
loop runs every ready task, every backend call has a timeout, and the container
restarts (`restart: unless-stopped`). Weak fairness per worker is enough since
the items of a queue are interchangeable to it. Clients, faults and crashes are
not fair. The dispatcher: its loop ticks, its tasks are scheduled, POSTs time
out, time passes. The fetcher: its tasks are scheduled, and a download has a
read timeout and a deadline. `ComfyWait`: only the workers are fair, with their deadline;
the sidecar may hang, never start a prompt or never answer over the websocket, and the progress check
(`CheckProgress`, `Stall`) is not fair. `StoredObjects`: the reaper's loop, a restart after death, and the passing of the TTL;
not the workers, the clients or recovery.

Each property has a mutant, an operator placed before the definition it replaces
and marked `Mutant:`, that shows the property failing for a plausible bug.

### What the code does differently from what is written about it

Four runs expect a violation; `PROJECT.json` quotes the sentence each refutes.

- `failure_recorded`: an exception that a stage does not catch (an errored
  prompt, a failing `/free`) leaves the row active although `_process_one` takes
  it as recorded. Such a row counts against `MAX_QUEUE` until the next restart.
- `handler_decides`: error answers of sync jobs never open the webhook barrier.
- `webhook_crash_settles`: a death in the fifth attempt leaves the job pending.
- `lora_active`: the names that protect a LoRA from eviction are looked up at the
  top level of `input_json`, where a video job has none.

Also noted, without a run of their own:

- concurrent handlers pass the `MAX_QUEUE` gate together (architecture, section 12);
- a client that leaves after the watcher is cancelled and before the bytes arrive is recorded as
  served and its webhook suppressed, although the architecture (section 6) promises the webhook as
  a fallback; `Flush` and `Background` of `JobQueue` reach it;
- a completion event that is sent before the future is registered, or while the socket is down, is
  lost: with the websocket up the job then waits for its deadline and ends as `comfy_timeout`
  although "Block until the prompt reaches terminal state" (`comfyui.py:164`);
- the stall check takes a completed `/history` entry as mere progress, and raises after its await
  although the future may be done meanwhile; the baseline of that check is read between registering the
  future and the `try` (`comfyui.py:188`), so an answer that is no JSON leaves the future registered for ever,
  which `FuturesMatchWaits` names as the one exception;
- a shutdown that cancels a fetch in the commit of its last write lets the handler's `set_failed` meet a
  terminal row: `InvalidTransitionError`, which `close` logs and swallows, and the row keeps its verdict, which
  `TransitionsAllowed` names; a read of the row that fails (`civitai.py:177`) leaves the row pending until a restart;
- `_unlink_quiet` hides a failing unlink, so a refused download may leave its partial file;
- no check of `load_registry` asks that a node has inputs: a template in which one to be filled in has none is
  accepted, its jobs end as `comfy_error` or `internal` (`InputsMissing` in `FailuresExplained`), an optional node is
  skipped, and a WAN shift node without inputs loses the LoRAs of its path without an error;
- the LTX pipeline writes neither size nor steps into the graph (`worker.py:592`), so a job is validated with those of
  its request and submitted with those of the template, whatever the limits;
- `_last_model_name` is not reset when a job fails, so the next swap compares with a stale name;
  with several workers two models are loaded without a swap;
- `cancel` decides on `GET /queue`: the prompt may start or end before `/interrupt` or the delete
  arrives, and the interrupt then hits another prompt; a lost response of `/prompt` leaves a
  prompt that no job knows;
- a pass of the reaper that read a row before its first fetch deletes the objects after it; a HEAD
  counts as a fetch; later passes delete the keys of reaped rows again; objects of failed uploads
  are never deleted;
- the image endpoint accepts models of video families, which end as `internal` in the worker;
  `load_registry` does not look at loader classes, so an unknown one ends as `internal` too, since the
  image pipeline does not expect `WorkflowValidationError`;
- `load_registry` accepts video models whose jobs the worker then fails (`VideoUnchecked`): the
  workflow with audio of an LTX model is checked for WAN anchors (`models.py:316`); the prompt anchors
  of a WAN graph depend on whether it has a `UNETLoader` node (`worker.py:826`), which no check looks
  at, so a graph on other loaders has no `%WAN_PROMPTS%` and ends as `internal`; a workflow without audio
  that has the MMAudio nodes needs files that are asked for only with an audio workflow;
- `load_registry` checks `workflows_root / workflow_path`, the worker opens `workflow_path` itself;
- a reload of an invalid file answers 500 where the architecture (line 678) says 409; line 189 says
  that jobs in flight keep their snapshot, while queued jobs are validated with the new registry;
- frames are rounded up after the comparison with `frames_max` and may pass it by less than a unit;
- default and requested LoRAs beyond the cap are dropped without an error; the LTX pipeline
  uses no LoRAs at all, although `config/models.yaml:842` lists default ones;
- the checks `wan22_wan_unet_low_unused` and `wan22_audio_low_mismatch` cannot fail, because
  `%WAN_MODEL_LOW%` is a required anchor, and the older WAN wrapper graphs cannot pass
  `load_registry`, although the worker still builds them;
- a model that configures no VAE keeps the one its template names;
- `close_bundle` unloads models while jobs run, and `runtime_bundle` keeps names that a
  reload removed;
- boot recovery opens the webhook barrier for running rows only (section 4.8);
- a death after a recorded 4xx leads to another POST (section 4.8);
- `LORA_DIR_MAX_SIZE_GB` is compared only when the disk is short of free space, so
  the directory may outgrow it, and a short disk under the ceiling evicts nothing
  (section 4.5, hardening 7);
- the version lock of the fetcher is never contended: the unique index admits one
  active row per version and a task's row is active until its last write, which
  is why pruning the lock is safe also with several slots; the comment in
  `_run` argues with the semaphore;
- with `LORA_MAX_CONCURRENT_FETCHES` above 1 `DoneMeansInstalled` fails: a file just
  installed was never used and is the first candidate of another fetch;
- an `httpx.ReadError` in a download is recorded as internal and leaves the partial
  file until the next restart;
- `run()` says it never raises, but the last-resort `set_failed` of
  `_process_one` can (a database fault, or a row that is already terminal after a
  failed read-back); `JobQueue` has the stage `dead` for it;
- `next_retry_at` indexes the 0-based schedule with the 1-based `attempt_n`, so
  the documented 15 s delay is never used (the operator keeps the code's index);
- no code calls `set_abandoned`, although the architecture (section 12) lets
  shutdown and restart use `abandoned`.

## 4. Proofs

`JobQueueProofs` proves, for every finite set of jobs, every set of workers,
models and requests, every capacity and every bound on faults and crashes (the
assumptions `JobIdsAssumption`, `ModelsAssumption`, `RequestsAssumption` and
`BoundsAssumption` of `JobQueue`):

- `TypeCorrect`: `Spec => []TypeOK`. The invariant is `TypeInv`, which adds
  `BusyWorkers`: a worker that is not idle holds a job and one about to call
  `set_failed` has a code. Without it the row a worker writes is unknown.
- `SingleOwnerHolds` and `WritesAllowedHolds`: `Spec => []SingleOwner` and
  `Spec => []WritesAllowed`. Neither is inductive alone. A row has the status its
  owner's stage needs because nobody else owns the job; a second owner cannot
  appear because jobs enter the queue only from a handler that has just inserted
  a queued row or from the boot snapshot. `Ownership` joins both with
  `PhaseDiscipline` (which tasks exist in which phase of the process) and
  `RowsMatchPlaces` (what the row of a job looks like in each place). Two frame
  lemmas, `HandlerFrame` and `WorkerFrame`, carry most actions; inserting,
  enqueueing, dequeueing, settling and the steps of start-up are proved one by one.

`StoredObjectsProofs` proves, for every set of jobs and clients, every number of
outputs and attempts and every bound on faults, crashes and touches (`ObjectsAssumption`):

- `TypeCorrect`, `GoneOnlyByReaper` and `LeftoversAreFailures`: `Spec` implies always `TypeOK`,
  `GoneMeansReaped` and `LeftoversExplained`. The invariant is `IInv`: `Storing` says what
  the bucket holds of a row at each stage (while it runs, exactly what was uploaded and at most
  the object of a put that failed), `Owners` that passes hold and delete only objects of completed rows
  and that a crash leaves running ones, `Reading` that a reader past its look-up asks for an
  object its row names. Without `Storing` a completion could name an object that is missing; without
  `Owners` a delete could strike a job that is still being stored.
- `FetchProtects`: `Spec => KeptOnceFetched`, an action property, from the same invariant: a pass takes
  up only unfetched rows, and deletes only what it took up.

`JobContractProofs` goes on from there, under the same assumptions:

- `NoJobForgottenHolds`, `RepliesMatchRowsHolds`, `BarrierRespectsHandlerHolds`: the invariant is
  `TypeInv`, `Ownership` and `Story`: `Conversation` says at each stage of a handler what its
  reply, its watcher and the future of its job may be, `Marked` what the marks of a row
  presuppose, `Result` what a worker is about to tell the future. Without `Conversation` a reply "result"
  could belong to a row that is not complete.
- `ContractKept`: `Spec => KeepsContract`. For one job, the initial state maps to the initial state
  of `JobContract` and every step to one of its steps or a stutter.

`WebhookProofs` (`DispatcherAssumption`: a non-empty schedule, a positive capacity) proves `AttemptLogHolds`,
`StatusIsTrueHolds`, `BarrierAndSemaphoreHolds` and, as an action property,
`NoPostAfterSuccessHolds`. The invariant ties a task to its log (`TaskOf`: the attempt it
works on is the last one, with the status the stage before it wrote), to its row (`RowOf`: the row is still
the candidate the task was started with) and the published status to the log
(`PublishedOf`). `NoPostAfterSuccess` needs `LogOf`: a success is the last attempt, so what a tick after a
crash finds decides alone.

`LoraFetchProofs` (`FetchAssumption`: finite sets, sizes that are numbers) proves
`OneTaskPerVersionHolds`, `AnswersAreServedHolds`, `FilesAccountedHolds`, `TransitionsAllowedHolds` and
`HandDropsSurviveHolds` for any number of slots. `TransitionsAllowed` speaks of the writes that happen and of the one
that is refused: a task cancelled inside `_fetch` leaves its row handed over unless it was in the commit of its last write. The invariant says that the row of a live task is
active, with the status of its stage (`RowInv`), that no two active rows share a version
(`OneActiveRow`, the partial unique index) and hence what a task knows of the files under its
name (`DiskInv`). Two theorems suppose `MaxConcurrent = 1`, the default of
`LORA_MAX_CONCURRENT_FETCHES` (`main.py:177`): `RoomAfterEvictionHolds` and `DoneMeansInstalledHolds`.
With one slot no other task touches the directory between scan, unlinks, download and last
write (`SerialInv`); with several, `DoneMeansInstalled` fails (section 3). `RoomAfterEviction` is about a sum
over the files of the directory; `SumTheorems` proves of the library's `MapThenSumSet` that it
gives a number and that removing an element subtracts its weight (`SumType`, `SumRemove`), by
the smallest counterexample instead of an induction rule.

`ComfyWaitProofs` (`WaitAssumption`) proves `TypesHold`, `VerdictIsTrueHolds`, `FuturesMatchWaitsHolds`,
`DoubleLoadExplainedHolds` and, as an action property, `TimeoutMeansMissedHolds`, for any number of jobs,
workers, models and faults, with and without the stall check. A prompt is in the sidecar's
queue once, or running, or over (`SidecarInv`); from the moment it is accepted its end is
missed, unread or delivered as long as its worker waits (`WorkerInv`); a future outlives its wait only
with the outcome "unread"; while nothing excuses a second
model, one worker is busy and VRAM holds at most the last model or that of the
running job (`Serial`).

`PreparationProofs` (`PreparationAssumption`: the service started from a version that passes
`load_registry`; requests, entries and templates have the fields their parsers give them, of which
`checkpoint` is read with `raw["checkpoint"]` and so is never missing, `models.py:59`) proves for every set of versions of the disk and every set of
requests, however the files, the registry and the bundle change:

- `RevalidationStableHolds`. Validation reads of a registry only the configuration of the
  requested model (`JudgementIsLocal`); the invariant carries from `Admit` to `Revalidate` that a
  queued request was accepted with the version and LoRA files it is stored with (`Stored`).
- `JobsWithinLimitsHolds`: what passes re-validation carries the configuration of its model from a
  registry that passed every check and obeys each of its limits, and the frames of a video are
  rounded up by less than a unit. `ImageAccepted` and `VideoAccepted` say of the two resolvers
  that "ok" means that none of the checks failed (`FirstFailureSound`).
- `FailuresExplainedHolds`: what `load_registry` has checked of an entry (`EntryAccepted`,
  `ModelsAreChecked`) is what the injectors need, so building from a template as it was when the
  registry was loaded raises nothing (`ImageIsBuilt`, `LtxvIsBuilt`, `WanIsBuilt`). Patches keep the wiring
  of a graph (`SameWiring`), LoRA chains keep its nodes under their anchors (`Keeps`). That a node has inputs no
  check says: the property names it as a cause (`InputsMissing`), and where it does not apply every node under an
  anchor can be filled in and stays so (`Fillable`, `AnchorFilled`). The proof
  attempt found the three gaps of `VideoUnchecked`, which the property now names.
- `GraphWellFormedHolds`: for every request, list of LoRAs, set of options and template read, the
  graph that is built has no link to a missing node and no cycle, if the templates on disk are
  such graphs and the loaders a LoRA chain starts from are fed by nothing (`TemplatesWellFormed`,
  an `ASSUME` of `MCPreparation`, so TLC evaluates it for the templates of that instance).
  `WellFormed` removes nodes fed by no node that is left until nothing changes; `WellFormedIffAcyclic` shows that this
  empties a finite graph exactly if every set of nodes has a member that is fed by none of the set
  (`Acyclic`). In that form the injectors can be reasoned about: patches keep the links
  (`WiringInputs`), `disconnect_loader_lora` only removes some (`UnpluggedIsAcyclic`), and a chain spliced
  in behind its sources feeds only from them and from earlier links of the chain
  (`ChainShape`, `RewriteShape`, `SplicedIsAcyclic`). `GraphIsSound` joins them along the three pipelines.
- `ReadyWithinLimitsHolds`: no step of a pipeline writes over the work another has filled in, so what
  a pipeline fills in is in the submitted graph as the validated job has it, which obeys its limits: steps,
  size and batch of an image; steps, size, frames and seed of a WAN video; of an LTX video frames and seed
  only, as its pipeline writes neither size nor steps. `Workload` carries what the job takes from its request (`Copied`) and what the
  graph holds under its anchors (`Filled`). A patch keeps every value it does not name (`PatchAtHolds`,
  `PatchAllHolds`), a LoRA chain keeps classes and anchors and adds nodes of its own
  (`Grows`), and the two passes of a WAN graph share one plan even if one node carries both
  anchors (`WanSamplerHolds`). The theorem supposes `ConfigurationFits`, an `ASSUME` of `MCPreparation`:
  default steps and limits that are numbers, one `EmptyLatentImage` to size, and a `%WAN_NAG_SAMPLER%` with inputs
  wherever `%WAN_SAMPLER%` is a `KSamplerAdvanced`. The first two `load_registry` does not
  check, and they are needed: a default of 0 steps passes every check of the code, and the images
  pipeline sizes only the first latent. The third it asks of every WAN template it loads, but the worker
  reads the file again and skips a second sampler that is gone.
- `GraphIsTheModelsHolds`: `Spec => [](TemplateFits => GraphIsTheModels)`. What is submitted from a
  template as it was when the registry was loaded loads the files of the job's model and none that the
  template names. The invariant is `Loads`: from `Build` on, a file field that holds another name is the
  VAE of a model that configures none or an image, and if the job brings an image, the one an
  upload is about to replace. `Left` is such a field. Every injector is shown to leave no more of them
  than it finds (`PatchIfAnyLeaves` and its like, `AddsNoFile` for LoRA chains), and to name in its
  own fields only files of the model (`FilesAmong`); each pipeline then closes every field its
  loaders have (`ImageLoads`, `LtxvLoads`, `WanLoads`, joined by `TemplateLoads`). `TemplateFits` is about the template of the
  job alone: it is of one kind, names files only on loaders of that kind's pipeline, and has the anchors
  that are not required on one node at most (`FilesUnderAnchors`). `load_registry` checks none of this
  and it is needed: a template whose `UpscaleModelLoader` names a file, or an image template with a hint
  `LoadImage` beside the init image, submits a name of its own. `TemplatesFit`, an `ASSUME` of
  `MCPreparation`, says that it holds for every template of that instance's accepted entries.
- `LorasChainedHolds`, for every template: an image is submitted as the template the worker read, with one
  new loader per LoRA of the request, in its order, between the two sources and everything they fed
  (`Chained`); without LoRAs every link is that of the template. `LorasAreChained` shows it of
  `inject_loras`: the two passes of `rewrite_inputs` do not interfere, because the second looks for a link
  to a node of the template and the first leaves one to a node of the chain. The patches before it
  leave the links the slots are inferred from (`WiringLinks`), and the upload patches no node without
  an anchor (`LoaderUnpatched`, `OpenedNode`). It is the local form of what `LorasInOrder` says of images.
- `WanLorasChainedHolds`, for every template of core nodes whose nodes to be filled in have inputs: a WAN video is submitted with the LoRAs of each
  path in a row from its loader to its shift node, five at most, and every other link of the template as it
  was (`WanWired`). `PathIsChained` shows one path, `StepsMakePaths` that the second adds its chain without
  disturbing the first. If both shift anchors are on one node the code rewires it twice and only the
  low-noise chain is used, which the theorem says rather than excludes. The weights before the LoRAs change
  no wiring (`WiredAfter`), and the options, prompts, samplers and upload after them write only to nodes
  with anchors, which no loader has (`Steady`, `WiredSteady`).
- `TypesHold`: `Spec => []TypeOK`, from `IInv` and `Graphs`, which carries through `Build` and `UploadImage` that
  `job.graph` is a graph, and well formed if the templates are.

Each of these invariants was also checked as an invariant of the module's TLC instance.

Only model-checked:

- the liveness properties (`EveryJobSettles`, `EveryRequestAnswered`, `SettlesUnlessCutShort`,
  `EveryFetchSettles`, `EveryWaitEnds`, `OrphansGo`): fairness is outside the prover;
- `RoomAfterEviction` with several slots;
- of the injected graph `LorasInOrder`: it reads the LoRA loaders met along one input from a sampler
  up to a source, a walk of a length no template bounds, so its proof is an induction along the
  chain and over the list of those it meets. `LorasChainedHolds` and
  `WanLorasChainedHolds` prove that each loader and each link of the template is where it should be; the
  walk is TLC's.

Neither proved nor checked are the LoRA slots of WAN graphs of the older kind: `load_registry` rejects these
graphs, and `LorasInOrder` speaks of templates as they were loaded.

## 5. Not modelled, and plan

Not modelled: authentication (a stateless comparison), metrics and logging, status and model
endpoints and the preset catalogue (they only read), start-up checks and smoke tests (one step
of a start or of a warm-up), the transparency operation (pixels), developer scripts and data.
Abstracted: prompts, media, sizes in bytes, wording of errors, url and base64 syntax.

Left to do, in this order:

1. `Service`: `JobQueue` and `WebhookDispatcher` over one table, for the end-to-end promise
   that every job with a webhook is announced.
2. The smoke tests of a bundle against running jobs, which share ComfyUI.
